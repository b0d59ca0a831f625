--------------------------- MODULE ToolBatch_proofs ---------------------------
(***************************************************************************)
(* The properties of ToolBatch for any catalog, plan, limits and sizes,    *)
(* and any number of refusals, repeats and abandoned requests.             *)
(***************************************************************************)
EXTENDS ToolBatch, FiniteSetTheorems, WellFoundedInduction, TLAPS

(***************************************************************************)
(* Sums. What is defined by recursion exists for every length: a sequence  *)
(* of least length without its partial sums would have those of the one    *)
(* before. What is said of a sum is said of every partial one the same way.*)
(***************************************************************************)

\* A set of numbers that is not empty has a least one.
LEMMA LeastNumber ==
    ASSUME NEW S, S \subseteq Nat, S # {}
    PROVE  \E n \in S : \A m \in S : n <= m
<1>1. PICK n \in S : \A m \in S : ~(<<m, n>> \in OpToRel(<, Nat))
  BY NatLessThanWellFounded, WFMin
<1>2. ASSUME NEW m \in S, m < n PROVE FALSE
  <2>1. <<m, n>> \in OpToRel(<, Nat)
    BY <1>2 DEF OpToRel
  <2> QED
    BY <1>1, <2>1
<1> QED
  BY <1>2

PartialSumsTo(s, n, f) == f = [i \in 0 .. n |-> IF i = 0 THEN 0 ELSE f[i - 1] + s[i]]

\* The partial sums of a sequence exist up to every length.
LEMMA PartialSumsExist ==
    ASSUME NEW s, NEW n \in Nat
    PROVE  \E f : PartialSumsTo(s, n, f)
<1> DEFINE T == {m \in Nat : ~ \E f : PartialSumsTo(s, m, f)}
<1> SUFFICES ASSUME T # {} PROVE FALSE
  OBVIOUS
<1>1. PICK m \in T : \A k \in T : m <= k
  <2>1. T \subseteq Nat
    OBVIOUS
  <2> HIDE DEF T
  <2> QED
    BY <2>1, LeastNumber
<1>2. CASE m = 0
  <2> DEFINE f == [i \in 0 .. 0 |-> 0]
  <2>1. f = [i \in 0 .. 0 |-> IF i = 0 THEN 0 ELSE f[i - 1] + s[i]]
    OBVIOUS
  <2>2. PartialSumsTo(s, m, f)
    BY <1>2, <2>1 DEF PartialSumsTo
  <2> QED
    BY <2>2
<1>3. CASE m # 0
  <2>1. m - 1 \in Nat /\ m - 1 \notin T
    BY <1>1, <1>3
  <2>2. PICK f : PartialSumsTo(s, m - 1, f)
    BY <2>1
  <2> DEFINE g == [i \in 0 .. m |-> IF i = m THEN f[m - 1] + s[m] ELSE f[i]]
  <2>3. ASSUME NEW i \in 0 .. m
        PROVE  g[i] = IF i = 0 THEN 0 ELSE g[i - 1] + s[i]
    <3>1. CASE i = m
      BY <1>3, <2>1, <3>1
    <3>2. CASE i # m
      <4>1. i \in 0 .. m - 1 /\ g[i] = f[i] /\ (i # 0 => i - 1 \in 0 .. m - 1 /\ g[i - 1] = f[i - 1])
        BY <3>2
      <4>2. f[i] = IF i = 0 THEN 0 ELSE f[i - 1] + s[i]
        BY <2>2, <4>1 DEF PartialSumsTo
      <4> QED
        BY <4>1, <4>2
    <3> QED
      BY <3>1, <3>2
  <2>4. g = [i \in 0 .. m |-> IF i = 0 THEN 0 ELSE g[i - 1] + s[i]]
    BY <2>3
  <2> HIDE DEF g
  <2>5. PartialSumsTo(s, m, g)
    BY <2>4 DEF PartialSumsTo
  <2> QED
    BY <2>5
<1> QED
  BY <1>2, <1>3

\* PartialSums is what its recursion says.
LEMMA PartialSumsAre ==
    ASSUME NEW s, Len(s) \in Nat
    PROVE  /\ PartialSums(s)[0] = 0
           /\ \A i \in 1 .. Len(s) : PartialSums(s)[i] = PartialSums(s)[i - 1] + s[i]
<1>1. PartialSums(s) = CHOOSE f : PartialSumsTo(s, Len(s), f)
  BY DEF PartialSums, PartialSumsTo
<1>2. PartialSumsTo(s, Len(s), PartialSums(s))
  BY <1>1, PartialSumsExist
<1> QED
  BY <1>2 DEF PartialSumsTo

\* The sum of whole numbers is one.
LEMMA SumTyped ==
    ASSUME NEW s \in Seq(Int)
    PROVE  /\ \A i \in 0 .. Len(s) : PartialSums(s)[i] \in Int
           /\ Sum(s) \in Int
<1> DEFINE T == {i \in 0 .. Len(s) : PartialSums(s)[i] \notin Int}
<1>1. Len(s) \in Nat /\ \A i \in 1 .. Len(s) : s[i] \in Int
  OBVIOUS
<1>2. T = {}
  <2> SUFFICES ASSUME T # {} PROVE FALSE
    OBVIOUS
  <2>1. PICK m \in T : \A k \in T : m <= k
    <3>1. T \subseteq Nat
      BY <1>1
    <3> HIDE DEF T
    <3> QED
      BY <3>1, LeastNumber
  <2>2. m # 0
    BY <1>1, PartialSumsAre
  <2>3. m - 1 \in 0 .. Len(s) /\ m - 1 \notin T /\ m \in 1 .. Len(s)
    BY <1>1, <2>1, <2>2
  <2>4. PartialSums(s)[m] = PartialSums(s)[m - 1] + s[m]
    BY <1>1, <2>3, PartialSumsAre
  <2> QED
    BY <1>1, <2>3, <2>4
<1> QED
  BY <1>1, <1>2 DEF Sum

\* The sum of natural numbers is one.
LEMMA SumNatural ==
    ASSUME NEW s \in Seq(Nat)
    PROVE  Sum(s) \in Nat
<1> DEFINE T == {i \in 0 .. Len(s) : PartialSums(s)[i] \notin Nat}
<1>1. Len(s) \in Nat /\ \A i \in 1 .. Len(s) : s[i] \in Nat
  OBVIOUS
<1>2. T = {}
  <2> SUFFICES ASSUME T # {} PROVE FALSE
    OBVIOUS
  <2>1. PICK m \in T : \A k \in T : m <= k
    <3>1. T \subseteq Nat
      BY <1>1
    <3> HIDE DEF T
    <3> QED
      BY <3>1, LeastNumber
  <2>2. m # 0
    BY <1>1, PartialSumsAre
  <2>3. m - 1 \in 0 .. Len(s) /\ m - 1 \notin T /\ m \in 1 .. Len(s)
    BY <1>1, <2>1, <2>2
  <2>4. PartialSums(s)[m] = PartialSums(s)[m - 1] + s[m]
    BY <1>1, <2>3, PartialSumsAre
  <2> QED
    BY <1>1, <2>3, <2>4
<1> QED
  BY <1>1, <1>2 DEF Sum

\* A sum is what the sums of its terms' parts are together.
LEMMA SumSplits ==
    ASSUME NEW s \in Seq(Int), NEW t \in Seq(Int), NEW u \in Seq(Int),
           Len(s) = Len(u), Len(t) = Len(u),
           \A i \in 1 .. Len(u) : u[i] = s[i] + t[i]
    PROVE  Sum(u) = Sum(s) + Sum(t)
<1> DEFINE T == {i \in 0 .. Len(u) :
                    PartialSums(u)[i] # PartialSums(s)[i] + PartialSums(t)[i]}
<1>1. Len(u) \in Nat /\ \A i \in 1 .. Len(u) : u[i] \in Int /\ s[i] \in Int /\ t[i] \in Int
  OBVIOUS
<1>2. \A i \in 0 .. Len(u) : /\ PartialSums(u)[i] \in Int
                             /\ PartialSums(s)[i] \in Int /\ PartialSums(t)[i] \in Int
  BY SumTyped
<1>3. T = {}
  <2> SUFFICES ASSUME T # {} PROVE FALSE
    OBVIOUS
  <2>1. PICK m \in T : \A k \in T : m <= k
    <3>1. T \subseteq Nat
      BY <1>1
    <3> HIDE DEF T
    <3> QED
      BY <3>1, LeastNumber
  <2>2. m # 0
    BY <1>1, PartialSumsAre
  <2>3. m - 1 \in 0 .. Len(u) /\ m - 1 \notin T /\ m \in 1 .. Len(u)
    BY <1>1, <2>1, <2>2
  <2>4. /\ PartialSums(u)[m] = PartialSums(u)[m - 1] + u[m]
        /\ PartialSums(s)[m] = PartialSums(s)[m - 1] + s[m]
        /\ PartialSums(t)[m] = PartialSums(t)[m - 1] + t[m]
    BY <1>1, <2>3, PartialSumsAre
  <2>5. u[m] = s[m] + t[m] /\ u[m] \in Int /\ s[m] \in Int /\ t[m] \in Int
    BY <1>1, <2>3
  <2>6. PartialSums(u)[m - 1] = PartialSums(s)[m - 1] + PartialSums(t)[m - 1]
    BY <2>3
  <2>7. /\ PartialSums(u)[m - 1] \in Int
        /\ PartialSums(s)[m - 1] \in Int /\ PartialSums(t)[m - 1] \in Int
    BY <1>2, <2>3
  <2>8. PartialSums(u)[m] = PartialSums(s)[m] + PartialSums(t)[m]
    <3> HIDE DEF T
    <3>1. PICK a, b, c : /\ a = PartialSums(u)[m - 1] /\ b = PartialSums(s)[m - 1]
                         /\ c = PartialSums(t)[m - 1]
      OBVIOUS
    <3>2. PICK x, y, z : x = u[m] /\ y = s[m] /\ z = t[m]
      OBVIOUS
    <3>3. {a, b, c, x, y, z} \subseteq Int /\ a = b + c /\ x = y + z
      BY <2>5, <2>6, <2>7, <3>1, <3>2
    <3>4. a + x = (b + y) + (c + z)
      BY <3>3
    <3> QED
      BY <2>4, <3>1, <3>2, <3>4
  <2> QED
    BY <2>1, <2>8
<1> QED
  BY <1>1, <1>3 DEF Sum

(***************************************************************************)
(* The inductive invariant.                                                *)
(***************************************************************************)

Entry == [index : Nat, name : Names, isError : BOOLEAN, items : Seq(Nat), structured : Nat,
          meta : Nat, encodable : BOOLEAN]

(* What the server is given, and the lists of calls of the client.         *)
GivenHeld ==
    /\ catalog.finalized.entries \in Seq(Names)
    /\ catalog.finalized.clash \in BOOLEAN /\ catalog.finalized.duplicate \in BOOLEAN
    /\ limits.bytes \in Nat /\ ByteBounds[1] <= limits.bytes
    /\ plan \in Seq(Names)

Calls == 1 .. Len(plan)

(* A request holds the first calls of the list, none of them twice.        *)
CallsHeld ==
    /\ pc \in {"idle", "next", "running", "replied"}
    /\ todo \in Seq(Calls) /\ Distinct(todo)
    /\ batch \in Seq(Calls)
    /\ pc # "idle" => Len(batch) \in 1 .. Len(todo) /\ batch = SubSeq(todo, 1, Len(batch))
    /\ abandoned \in BOOLEAN
    /\ ran \in [Calls -> Nat] /\ named \in [Calls -> Nat]
    /\ status \in [Calls -> {"open", "told", "omitted", "let go"}]

(* The results a batch goes on from: those of its first calls, none of     *)
(* which failed.                                                           *)
Carried(kept) ==
    /\ kept \in Seq(Entry)
    /\ \A i \in DOMAIN kept : kept[i].index = i /\ kept[i].name = NameOf(i)

UnderWay ==
    pc \in {"next", "running"} =>
        /\ Carried(entries) /\ Len(entries) < Len(batch)
        /\ \A i \in DOMAIN entries : entries[i].encodable /\ ~entries[i].isError
        /\ held = Report(Len(batch), TRUE, entries) /\ Fits(held)
        /\ progress = Len(entries)
        /\ here = 1 .. IF pc = "next" THEN Len(entries) ELSE Following
        /\ pc = "running" => CanReport(Len(batch), entries, NameOf(Following), Following)

ReplyHeld ==
    pc = "replied" =>
        /\ reply.kind \in {"report", "message"}
        /\ reply.kind = "report" =>
              /\ Carried(reply.kept)
              /\ reply.rep.ok \in BOOLEAN /\ reply.rep.complete \in BOOLEAN
              /\ reply.rep.attempted \in 1 .. Len(batch)
              /\ reply.rep.error \in {"none", "limit", "encode"}
              /\ reply.rep.omitted.length \in Nat

(* The calls of the request that ran and are not named as omitted.         *)
Omitted ==
    IF Answered /\ reply.rep.error # "none" THEN {batch[reply.rep.omitted.index]} ELSE {}

Outstanding == IF pc = "idle" THEN {} ELSE {batch[i] : i \in here} \ Omitted

(* How often a call ran, told from how often it was named as omitted.      *)
Accounted ==
    \A c \in Calls :
        IF c \in Elements(todo)
        THEN /\ ran[c] = named[c] + IF c \in Outstanding THEN 1 ELSE 0
             /\ status[c] \in {"open", "omitted"}
        ELSE /\ ran[c] \in {named[c], named[c] + 1}
             /\ status[c] = "told" => ran[c] = named[c] + 1
             /\ status[c] = "omitted" => ran[c] = named[c]
             /\ status[c] = "open" => catalog.finalized.clash \/ catalog.finalized.duplicate

BatchInv ==
    /\ GivenHeld /\ CallsHeld /\ UnderWay /\ ReplyHeld
    /\ HeldToTheLimit /\ CountersTellWhatRan /\ StopsForAReason
    /\ Accounted

(***************************************************************************)
(* The bytes of a reply. What render measures is what the client receives, *)
(* it grows with the name of the omitted call, and the failure room is     *)
(* reserved for is the costlier one.                                       *)
(***************************************************************************)

Reported == [ok : BOOLEAN, complete : BOOLEAN, error : {"none", "limit", "encode"},
             omitted : [length : Nat, index : Nat], requested : Nat, attempted : Nat,
             reported : Nat]

\* What a report costs beside its records.
Cover(rep) ==
    Weight.report
      + (IF rep.ok THEN 0 ELSE Weight.flag) + (IF rep.complete THEN 0 ELSE Weight.flag)
      + (IF rep.error = "none" THEN 0 ELSE Weight[rep.error] + rep.omitted.length)

Records(kept) == Sum([i \in DOMAIN kept |-> Record(kept[i])])

Channel(kept) == IF \E i \in DOMAIN kept : kept[i].meta > 0 THEN Weight.channel ELSE 0

\* What a report costs beside its records is a number.
LEMMA CoverTyped ==
    ASSUME NEW rep, rep.error \in {"none", "limit", "encode"}, rep.omitted.length \in Nat
    PROVE  Cover(rep) \in Nat
<1>1. Weight.report \in Nat /\ Weight.flag \in Nat /\ Weight.limit \in Nat /\ Weight.encode \in Nat
  BY WeightAssumption
<1>2. CASE rep.error = "none"
  BY <1>1, <1>2 DEF Cover
<1>3. CASE rep.error = "limit"
  BY <1>1, <1>3 DEF Cover
<1>4. CASE rep.error = "encode"
  BY <1>1, <1>4 DEF Cover
<1> QED
  BY <1>2, <1>3, <1>4

\* A function on 1 .. n is a sequence of length n.
LEMMA FunctionSequence ==
    ASSUME NEW n \in Nat, NEW S, NEW f \in [1 .. n -> S]
    PROVE  f \in Seq(S) /\ Len(f) = n
OBVIOUS

\* The items of a result cost their placeholders and what these stand for.
LEMMA ItemsHeld ==
    ASSUME NEW e \in Entry
    PROVE  /\ Placeholder(e) \in Entry
           /\ Placeholder(e).meta > 0 <=> e.meta > 0
           /\ Record(e) \in Int /\ Record(Placeholder(e)) \in Int /\ Held(e) \in Int
           /\ Record(e) = Record(Placeholder(e)) + Held(e)
<1> DEFINE p == Placeholder(e)
           s == [i \in DOMAIN e.items |-> Weight.placeholder]
           t == [i \in DOMAIN e.items |-> e.items[i] - Weight.placeholder]
<1>1. /\ Weight.placeholder \in Nat /\ Weight.placeholder # 0
      /\ Weight.record \in Nat /\ Weight.entry \in Nat
  BY WeightAssumption
<1>2. /\ e.items \in Seq(Nat) /\ e.meta \in Nat /\ e.structured \in Nat /\ e.name \in Names
      /\ Texts[e.name].length \in Nat
  BY TextsAssumption DEF Entry
<1>3. /\ p.items = s /\ p.structured = e.structured /\ p.name = e.name
      /\ p.meta = IF e.meta = 0 THEN 0 ELSE Weight.placeholder
  BY DEF Placeholder, Entry
<1>4. s \in Seq(Nat) /\ s \in Seq(Int) /\ t \in Seq(Int) /\ Len(s) = Len(e.items) /\ Len(t) = Len(e.items)
  <2>1. DOMAIN e.items = 1 .. Len(e.items) /\ Len(e.items) \in Nat
        /\ \A i \in DOMAIN e.items : e.items[i] \in Nat
    BY <1>2
  <2>2. s \in [1 .. Len(e.items) -> Nat] /\ s \in [1 .. Len(e.items) -> Int]
    BY <1>1, <2>1
  <2>3. t \in [1 .. Len(e.items) -> Int]
    BY <1>1, <2>1
  <2> HIDE DEF s, t
  <2> QED
    BY <2>1, <2>2, <2>3, FunctionSequence
<1>5. e.items \in Seq(Int)
  BY <1>2
<1>6. \A i \in 1 .. Len(e.items) : e.items[i] = s[i] + t[i]
  BY <1>1, <1>2
<1>7. Sum(e.items) = Sum(s) + Sum(t)
  <2> HIDE DEF s, t
  <2> QED
    BY <1>4, <1>5, <1>6, SumSplits
<1>8. Sum(e.items) \in Int /\ Sum(s) \in Int /\ Sum(t) \in Int
  <2> HIDE DEF s, t
  <2> QED
    BY <1>4, <1>5, SumTyped
<1>9. p \in Entry
  <2>1. p = [index |-> e.index, name |-> e.name, isError |-> e.isError, items |-> s,
             structured |-> e.structured, meta |-> p.meta, encodable |-> e.encodable]
    <3>1. e = [index |-> e.index, name |-> e.name, isError |-> e.isError, items |-> e.items,
               structured |-> e.structured, meta |-> e.meta, encodable |-> e.encodable]
      BY DEF Entry
    <3> DEFINE m == IF e.meta = 0 THEN 0 ELSE Weight.placeholder
    <3>2. p = [e EXCEPT !.items = s, !.meta = m]
      BY DEF Placeholder
    <3>3. p.meta = m
      BY <1>3
    <3> HIDE DEF p, s, m
    <3>4. p = [index |-> e.index, name |-> e.name, isError |-> e.isError, items |-> s,
               structured |-> e.structured, meta |-> m, encodable |-> e.encodable]
      BY <3>1, <3>2
    <3> QED
      BY <3>3, <3>4
  <2>2. p.meta \in Nat
    BY <1>1, <1>2, <1>3
  <2> HIDE DEF p, s
  <2> QED
    BY <1>4, <2>1, <2>2 DEF Entry
<1>10. Held(e) = Sum(t) + IF e.meta = 0 THEN 0 ELSE e.meta - Weight.placeholder
  BY DEF Held
<1>11. p.meta > 0 <=> e.meta > 0
  BY <1>1, <1>2, <1>3
<1>12. Record(e) = Weight.record + Texts[e.name].length + e.structured + Sum(e.items)
                     + IF e.meta = 0 THEN 0 ELSE Weight.entry + Texts[e.name].length + e.meta
  BY DEF Record
<1>13. Record(p) = Weight.record + Texts[e.name].length + e.structured + Sum(s)
                     + IF p.meta = 0 THEN 0 ELSE Weight.entry + Texts[e.name].length + p.meta
  <2> HIDE DEF p, s
  <2> QED
    BY <1>3 DEF Record
<1> HIDE DEF p, s, t
<1>14. Record(e) \in Int /\ Record(p) \in Int /\ Held(e) \in Int /\ Record(e) = Record(p) + Held(e)
  <2>1. /\ p.meta = IF e.meta = 0 THEN 0 ELSE Weight.placeholder
        /\ Weight.placeholder \in Nat /\ Weight.placeholder # 0 /\ e.meta \in Nat
        /\ Weight.record \in Nat /\ Weight.entry \in Nat
        /\ Texts[e.name].length \in Nat /\ e.structured \in Nat
    BY <1>1, <1>2, <1>3
  <2>2. CASE e.meta = 0
    BY <1>7, <1>8, <1>10, <1>12, <1>13, <2>1, <2>2
  <2>3. CASE e.meta # 0
    BY <1>7, <1>8, <1>10, <1>12, <1>13, <2>1, <2>3
  <2> QED
    BY <2>2, <2>3
<1> QED
  BY <1>9, <1>11, <1>14 DEF p

\* What render measures is what the client receives.
LEMMA MeasuredIsWeighed ==
    ASSUME NEW rep, rep.error \in {"none", "limit", "encode"}, rep.omitted.length \in Nat,
           NEW kept \in Seq(Entry)
    PROVE  /\ Measured(rep, kept) = Weighed(rep, kept)
           /\ Records(kept) \in Int
           /\ Weighed(rep, kept) = Cover(rep) + Records(kept) + Channel(kept)
<1> DEFINE p == [i \in DOMAIN kept |-> Placeholder(kept[i])]
           u == [i \in DOMAIN kept |-> Record(kept[i])]
           s == [i \in DOMAIN kept |-> Record(p[i])]
           t == [i \in DOMAIN kept |-> Held(kept[i])]
<1>1. \A i \in DOMAIN kept : kept[i] \in Entry
  OBVIOUS
<1>2. DOMAIN kept = 1 .. Len(kept) /\ Len(kept) \in Nat /\ DOMAIN p = DOMAIN kept
  OBVIOUS
<1>3. u \in Seq(Int) /\ s \in Seq(Int) /\ t \in Seq(Int)
      /\ Len(u) = Len(kept) /\ Len(s) = Len(kept) /\ Len(t) = Len(kept)
  <2>1. /\ u \in [1 .. Len(kept) -> Int] /\ s \in [1 .. Len(kept) -> Int]
        /\ t \in [1 .. Len(kept) -> Int]
    BY <1>1, <1>2, ItemsHeld
  <2> HIDE DEF u, s, t
  <2> QED
    BY <1>2, <2>1, FunctionSequence
<1>4. \A i \in 1 .. Len(u) : u[i] = s[i] + t[i]
  BY <1>1, <1>2, <1>3, ItemsHeld
<1>5. Sum(u) = Sum(s) + Sum(t) /\ Sum(u) \in Int /\ Sum(s) \in Int /\ Sum(t) \in Int
  <2> HIDE DEF u, s, t
  <2> QED
    BY <1>3, <1>4, SumSplits, SumTyped
<1>6. Channel(p) = Channel(kept)
  <2>1. \A i \in DOMAIN kept : p[i].meta > 0 <=> kept[i].meta > 0
    BY <1>1, ItemsHeld
  <2> HIDE DEF p
  <2> QED
    BY <1>2, <2>1 DEF Channel
<1>7. Channel(kept) \in Nat
  BY WeightAssumption DEF Channel
<1>8. Cover(rep) \in Nat
  BY CoverTyped
<1>9. Weighed(rep, kept) = Cover(rep) + Sum(u) + Channel(kept)
  BY DEF Weighed, Cover, Channel
<1>10. Weighed(rep, p) = Cover(rep) + Sum(s) + Channel(p)
  <2>1. [i \in DOMAIN p |-> Record(p[i])] = s
    BY <1>2
  <2> HIDE DEF p, s
  <2> QED
    BY <2>1 DEF Weighed, Cover, Channel
<1>11. Measured(rep, kept) = Weighed(rep, p) + Sum(t)
  BY DEF Measured
<1> HIDE DEF p, u, s, t
<1>12. Measured(rep, kept) = Weighed(rep, kept)
  BY <1>5, <1>6, <1>7, <1>8, <1>9, <1>10, <1>11
<1> QED
  BY <1>5, <1>9, <1>12 DEF u, Records

\* A text is sent with a length that fits, when nothing of it does.
LEMMA HeldToFits ==
    ASSUME NEW length, NEW fits, 0 \in fits
    PROVE  HeldTo(length, fits) \in fits
<1> DEFINE cut == Clipped(length, LongestFit(length, {n \in 0 .. length : Clipped(length, n) \in fits}))
<1>1. HeldTo(length, fits) = IF length \in fits THEN length ELSE IF cut \in fits THEN cut ELSE 0
  BY DEF HeldTo
<1> HIDE DEF cut
<1> QED
  BY <1>1

LEMMA HeldToOrNothing ==
    ASSUME NEW length, NEW fits
    PROVE  HeldTo(length, fits) \in fits \cup {0}
<1> DEFINE cut == Clipped(length, LongestFit(length, {n \in 0 .. length : Clipped(length, n) \in fits}))
<1>1. HeldTo(length, fits) = IF length \in fits THEN length ELSE IF cut \in fits THEN cut ELSE 0
  BY DEF HeldTo
<1> HIDE DEF cut
<1> QED
  BY <1>1

\* A message fits every limit there is, for the floor does.
LEMMA MessagesFit ==
    ASSUME NEW length \in Nat, NEW limit \in Nat, ByteBounds[1] <= limit
    PROVE  MessageReply(length, limit) <= limit
<1> DEFINE fits == {n \in Lengths(length) : Weight.message + n <= limit}
<1>1. Weight.message \in Nat /\ Weight.marker \in Nat /\ Weight.message <= limit
  BY WeightAssumption, BoundsAssumption
<1>2. 0 \in fits
  BY <1>1 DEF Lengths
<1>3. HeldTo(length, fits) \in fits
  <2> HIDE DEF fits
  <2> QED
    BY <1>2, HeldToFits
<1>4. MessageReply(length, limit) = Weight.message + HeldTo(length, fits)
  BY DEF MessageReply
<1> QED
  BY <1>3, <1>4

\* The report of a failure that names a length of the call it is about.
Failure(requested, kept, kind, index, length) ==
    Render(requested, index, FALSE, kind, [length |-> length, index |-> index], kept)

\* What the report of a failure costs, but for the length of the name.
LEMMA FailureSize ==
    ASSUME NEW requested, NEW kept \in Seq(Entry), NEW index
    PROVE  \E rest \in Int : \A k \in {"limit", "encode"}, n \in Nat :
              Failure(requested, kept, k, index, n).size = rest + Weight[k] + n
<1> DEFINE R(k, n) == [ok |-> FALSE, error |-> k, omitted |-> [length |-> n, index |-> index],
                       requested |-> requested, attempted |-> index, reported |-> Len(kept),
                       complete |-> index = requested /\ Len(kept) = index]
           records == Records(kept)
           flags == Weight.report + Weight.flag
                      + (IF index = requested /\ Len(kept) = index THEN 0 ELSE Weight.flag)
           rest == flags + records + Channel(kept)
<1>1. /\ Weight.report \in Nat /\ Weight.flag \in Nat /\ Weight.limit \in Nat
      /\ Weight.encode \in Nat /\ Weight.channel \in Nat
  BY WeightAssumption
<1>2. Weight["limit"] \in Nat /\ Weight["encode"] \in Nat
  BY <1>1
<1>3. flags \in Int /\ Channel(kept) \in Int
  BY <1>1 DEF Channel
<1>4. records \in Int
  <2> DEFINE r == [error |-> "none", omitted |-> [length |-> 0]]
  <2>1. r.error \in {"none", "limit", "encode"} /\ r.omitted.length \in Nat
    OBVIOUS
  <2> HIDE DEF r
  <2> QED
    BY <2>1, MeasuredIsWeighed
<1>5. ASSUME NEW k \in {"limit", "encode"}, NEW n \in Nat
      PROVE  Failure(requested, kept, k, index, n).size = rest + Weight[k] + n
  <2>1. R(k, n).error \in {"none", "limit", "encode"} /\ R(k, n).omitted.length \in Nat
    BY <1>5
  <2>2. Failure(requested, kept, k, index, n).size = Measured(R(k, n), kept)
    BY DEF Failure, Render
  <2>3. Cover(R(k, n)) = flags + (Weight[k] + n)
    BY <1>5 DEF Cover
  <2>4. Measured(R(k, n), kept) = Cover(R(k, n)) + records + Channel(kept)
    <3> HIDE DEF R
    <3> QED
      BY <2>1, MeasuredIsWeighed
  <2>5. Weight[k] \in Nat
    BY <1>2
  <2> HIDE DEF R, flags, records
  <2> QED
    BY <1>3, <1>4, <2>2, <2>3, <2>4, <2>5
<1>6. rest \in Int
  BY <1>3, <1>4
<1> HIDE DEF rest
<1> QED
  BY <1>5, <1>6

\* A report of a failure renders when the results it carries encode.
LEMMA FailureRenders ==
    ASSUME NEW requested, NEW kept, NEW kind, NEW index, NEW length
    PROVE  Failure(requested, kept, kind, index, length).renders
              <=> \A i \in DOMAIN kept : kept[i].encodable
BY DEF Failure, Render

\* failReply is the report of a failure with a name clipped to some length.
LEMMA FailReplyIs ==
    ASSUME NEW requested, NEW kept, NEW kind, NEW name \in Names, NEW index
    PROVE  \E n \in Nat :
              /\ FailReply(requested, kept, kind, name, index) = Failure(requested, kept, kind, index, n)
              /\ Fits(Failure(requested, kept, kind, index, n)) \/ n = 0
              /\ Fits(Failure(requested, kept, kind, index, 0))
                    => Fits(Failure(requested, kept, kind, index, n))
<1> DEFINE fits == {n \in Lengths(Texts[name].length) : Fits(Failure(requested, kept, kind, index, n))}
           m == HeldTo(Texts[name].length, fits)
<1>1. FailReply(requested, kept, kind, name, index) = Failure(requested, kept, kind, index, m)
  BY DEF FailReply, Failure
<1>2. 0 \in Lengths(Texts[name].length) /\ Lengths(Texts[name].length) \subseteq Nat
  BY TextsAssumption, WeightAssumption DEF Lengths
<1>3. m \in fits \cup {0} /\ (0 \in fits => m \in fits)
  <2> HIDE DEF fits
  <2> QED
    BY HeldToFits, HeldToOrNothing
<1> HIDE DEF m
<1> QED
  BY <1>1, <1>2, <1>3

\* A call is run when the report of its failure fits without its name.
LEMMA Reportable ==
    ASSUME NEW requested, NEW kept \in Seq(Entry), NEW name \in Names, NEW index,
           limits.bytes \in Nat
    PROVE  /\ CanReport(requested, kept, name, index)
                <=> Fits(Failure(requested, kept, WorstFailure, index, 0))
           /\ CanReport(requested, kept, name, index) =>
                \A kind \in {"limit", "encode"} : Fits(FailReply(requested, kept, kind, name, index))
<1> DEFINE Size(k, n) == Failure(requested, kept, k, index, n).size
<1>1. PICK rest \in Int : \A k \in {"limit", "encode"}, n \in Nat : Size(k, n) = rest + Weight[k] + n
  BY FailureSize
<1>3. /\ WorstFailure \in {"limit", "encode"} /\ Weight["limit"] \in Nat /\ Weight["encode"] \in Nat
      /\ Weight["limit"] <= Weight[WorstFailure] /\ Weight["encode"] <= Weight[WorstFailure]
  BY WeightAssumption DEF WorstFailure
<1>4. \A k \in {"limit", "encode"}, n \in Nat :
         Fits(Failure(requested, kept, k, index, n))
            <=> (\A i \in DOMAIN kept : kept[i].encodable) /\ Size(k, n) <= limits.bytes
  BY FailureRenders DEF Fits
<1>5. ASSUME NEW n \in Nat, Fits(Failure(requested, kept, WorstFailure, index, n)),
             NEW k \in {"limit", "encode"}
      PROVE  Fits(Failure(requested, kept, k, index, 0))
  <2>2. Weight[k] \in Nat /\ Weight[WorstFailure] \in Nat /\ Weight[k] <= Weight[WorstFailure]
    BY <1>3
  <2> HIDE DEF Size
  <2>1. Size(k, 0) = rest + Weight[k] + 0
        /\ Size(WorstFailure, n) = rest + Weight[WorstFailure] + n
    BY <1>1, <1>3, <1>5
  <2>3. Size(k, 0) <= Size(WorstFailure, n) /\ Size(k, 0) \in Int /\ Size(WorstFailure, n) \in Int
    BY <2>1, <2>2
  <2>4. Size(WorstFailure, n) <= limits.bytes
    BY <1>3, <1>4, <1>5
  <2>5. Size(k, 0) <= limits.bytes
    BY <2>3, <2>4
  <2> QED
    BY <1>3, <1>4, <1>5, <2>5
<1>6. PICK m \in Nat :
         /\ FailReply(requested, kept, WorstFailure, name, index)
               = Failure(requested, kept, WorstFailure, index, m)
         /\ Fits(Failure(requested, kept, WorstFailure, index, 0))
               => Fits(Failure(requested, kept, WorstFailure, index, m))
  BY FailReplyIs
<1>7. CanReport(requested, kept, name, index)
         <=> Fits(Failure(requested, kept, WorstFailure, index, m))
  BY <1>6 DEF CanReport
<1>8. CanReport(requested, kept, name, index)
         <=> Fits(Failure(requested, kept, WorstFailure, index, 0))
  BY <1>3, <1>5, <1>6, <1>7
<1>9. ASSUME CanReport(requested, kept, name, index), NEW k \in {"limit", "encode"}
      PROVE  Fits(FailReply(requested, kept, k, name, index))
  <2>1. Fits(Failure(requested, kept, k, index, 0))
    BY <1>5, <1>7, <1>9
  <2> QED
    BY <2>1, FailReplyIs
<1> QED
  BY <1>8, <1>9

\* The failure of the first call is reportable.
LEMMA FirstIsReportable ==
    ASSUME NEW requested, NEW name \in Names, limits.bytes \in Nat, ByteBounds[1] <= limits.bytes
    PROVE  CanReport(requested, <<>>, name, 1)
<1> DEFINE rep == [ok |-> FALSE, error |-> WorstFailure, omitted |-> [length |-> 0, index |-> 1],
                   requested |-> requested, attempted |-> 1, reported |-> Len(<<>>),
                   complete |-> 1 = requested /\ Len(<<>>) = 1]
<1>1. <<>> \in Seq(Entry) /\ Len(<<>>) = 0
  OBVIOUS
<1>2. WorstFailure \in {"limit", "encode"} /\ Weight[WorstFailure] <= Weight.limit + Weight.encode
      /\ Weight[WorstFailure] \in Nat
  BY WeightAssumption DEF WorstFailure
<1>3. /\ Failure(requested, <<>>, WorstFailure, 1, 0).size = Measured(rep, <<>>)
      /\ Failure(requested, <<>>, WorstFailure, 1, 0).renders
  BY DEF Failure, Render
<1>4. Cover(rep) = Weight.report + Weight.flag + Weight.flag + Weight[WorstFailure]
  <2>1. rep.ok = FALSE /\ rep.complete = FALSE /\ rep.omitted.length = 0
    <3>1. (1 = requested /\ Len(<<>>) = 1) = FALSE
      BY <1>1
    <3>2. rep.complete = (1 = requested /\ Len(<<>>) = 1)
      OBVIOUS
    <3>3. rep.ok = FALSE /\ rep.omitted.length = 0
      OBVIOUS
    <3> HIDE DEF rep
    <3> QED
      BY <3>1, <3>2, <3>3
  <2>3. rep.error = WorstFailure /\ rep.error # "none"
    BY <1>2
  <2>2. Weight.report \in Nat /\ Weight.flag \in Nat
    BY WeightAssumption
  <2> HIDE DEF rep
  <2> QED
    BY <1>2, <2>1, <2>2, <2>3 DEF Cover
<1>5. Measured(rep, <<>>) = Cover(rep)
  <2>1. rep.error \in {"none", "limit", "encode"} /\ rep.omitted.length \in Nat
    BY <1>2
  <2>2. /\ Measured(rep, <<>>) = Cover(rep) + Records(<<>>) + Channel(<<>>)
        /\ Cover(rep) \in Nat
    <3> HIDE DEF rep
    <3>1. Cover(rep) \in Nat
      BY <2>1, CoverTyped
    <3>2. \A kept \in Seq(Entry) :
             /\ Measured(rep, kept) = Weighed(rep, kept)
             /\ Weighed(rep, kept) = Cover(rep) + Records(kept) + Channel(kept)
      BY <2>1, MeasuredIsWeighed
    <3> QED
      BY <1>1, <3>1, <3>2
  <2>3. [i \in DOMAIN <<>> |-> Record(<<>>[i])] = <<>>
    OBVIOUS
  <2>4. Sum(<<>>) = 0 /\ Channel(<<>>) = 0
    BY <1>1, PartialSumsAre DEF Sum, Channel
  <2>5. Records(<<>>) = 0
    BY <2>3, <2>4 DEF Records
  <2> HIDE DEF rep
  <2> QED
    BY <2>2, <2>4, <2>5
<1> HIDE DEF rep
<1>6. Measured(rep, <<>>) <= limits.bytes
  <2>1. /\ Weight.report \in Nat /\ Weight.flag \in Nat /\ Weight.limit \in Nat
        /\ Weight.encode \in Nat /\ ByteBounds[1] \in Nat
        /\ Weight.report + Weight.flag + Weight.flag + Weight.limit + Weight.encode <= ByteBounds[1]
    BY WeightAssumption, BoundsAssumption, FloorAssumption
  <2> QED
    BY <1>2, <1>4, <1>5, <2>1, SMTT(30)
<1>7. Fits(Failure(requested, <<>>, WorstFailure, 1, 0))
  BY <1>3, <1>6 DEF Fits
<1> QED
  BY <1>1, <1>7, Reportable

(***************************************************************************)
(* What a report says, and the calls a request holds.                      *)
(***************************************************************************)

Encodable(kept) == \A i \in DOMAIN kept : kept[i].encodable

SaysReported(r, requested, ok, kept) ==
    /\ r.kind = "report" /\ r.kept = kept /\ r.rep.ok = ok /\ r.rep.error = "none"
    /\ r.rep.omitted.length = 0
    /\ r.rep.attempted = Len(kept) /\ r.rep.reported = Len(kept)
    /\ r.rep.complete \in BOOLEAN /\ (r.rep.complete <=> Len(kept) = requested)
    /\ r.renders <=> Encodable(kept)
    /\ r.size = Sent(r) /\ r.size \in Int

SaysFailed(r, requested, kept, kind, index, n) ==
    /\ r.kind = "report" /\ r.kept = kept /\ r.rep.ok \in BOOLEAN /\ ~r.rep.ok /\ r.rep.error = kind
    /\ r.rep.omitted.length = n /\ r.rep.omitted.index = index
    /\ r.rep.attempted = index /\ r.rep.reported = Len(kept)
    /\ r.rep.complete \in BOOLEAN
    /\ r.rep.complete <=> index = requested /\ Len(kept) = index
    /\ r.renders <=> Encodable(kept)
    /\ r.size = Sent(r) /\ r.size \in Int

\* What a report says and costs.
LEMMA ReportIs ==
    ASSUME NEW requested, NEW ok, NEW kept \in Seq(Entry)
    PROVE  SaysReported(Report(requested, ok, kept), requested, ok, kept)
<1>0. PICK r : r = Report(requested, ok, kept)
  OBVIOUS
<1> DEFINE rep == [ok |-> ok, error |-> "none", omitted |-> NotOmitted, requested |-> requested,
                   attempted |-> Len(kept), reported |-> Len(kept),
                   complete |-> Len(kept) = requested /\ Len(kept) = Len(kept)]
<1>1. r = [kind |-> "report", rep |-> rep, kept |-> kept,
           renders |-> \A i \in DOMAIN kept : kept[i].encodable, size |-> Measured(rep, kept)]
  BY <1>0 DEF Report, Render
<1>2. /\ rep.ok = ok /\ rep.error = "none" /\ rep.omitted.length = 0
      /\ rep.attempted = Len(kept) /\ rep.reported = Len(kept)
      /\ rep.complete = (Len(kept) = requested)
  BY DEF NotOmitted
<1> HIDE DEF rep
<1>3. rep.error \in {"none", "limit", "encode"} /\ rep.omitted.length \in Nat
  BY <1>2
<1>4. Measured(rep, kept) = Weighed(rep, kept)
  BY <1>3, MeasuredIsWeighed
<1>7. Measured(rep, kept) \in Int
  <2>1. Cover(rep) \in Int /\ Channel(kept) \in Int
    BY <1>3, CoverTyped, WeightAssumption DEF Channel
  <2>2. Measured(rep, kept) = Cover(rep) + Records(kept) + Channel(kept) /\ Records(kept) \in Int
    BY <1>3, MeasuredIsWeighed
  <2> QED
    BY <2>1, <2>2
<1>5. r.rep = rep /\ r.kept = kept /\ r.size = Measured(rep, kept) /\ r.kind = "report"
  BY <1>1
<1>6. r.renders <=> Encodable(kept)
  BY <1>1 DEF Encodable
<1> QED
  BY <1>0, <1>2, <1>4, <1>5, <1>6, <1>7 DEF Sent, SaysReported

\* What the report of a failure says and costs.
LEMMA FailureIs ==
    ASSUME NEW requested, NEW kept \in Seq(Entry), NEW kind \in {"limit", "encode"}, NEW index,
           NEW n \in Nat
    PROVE  SaysFailed(Failure(requested, kept, kind, index, n), requested, kept, kind, index, n)
<1>0. PICK r : r = Failure(requested, kept, kind, index, n)
  OBVIOUS
<1> DEFINE rep == [ok |-> FALSE, error |-> kind, omitted |-> [length |-> n, index |-> index],
                   requested |-> requested, attempted |-> index, reported |-> Len(kept),
                   complete |-> index = requested /\ Len(kept) = index]
<1>1. r = [kind |-> "report", rep |-> rep, kept |-> kept,
           renders |-> \A i \in DOMAIN kept : kept[i].encodable, size |-> Measured(rep, kept)]
  BY <1>0 DEF Failure, Render
<1>2. /\ rep.ok = FALSE /\ rep.error = kind /\ rep.omitted.length = n /\ rep.omitted.index = index
      /\ rep.attempted = index /\ rep.reported = Len(kept)
      /\ rep.complete = (index = requested /\ Len(kept) = index)
  OBVIOUS
<1> HIDE DEF rep
<1>3. rep.error \in {"none", "limit", "encode"} /\ rep.omitted.length \in Nat
  BY <1>2
<1>4. Measured(rep, kept) = Weighed(rep, kept)
  BY <1>3, MeasuredIsWeighed
<1>7. Measured(rep, kept) \in Int
  <2>1. Cover(rep) \in Int /\ Channel(kept) \in Int
    BY <1>3, CoverTyped, WeightAssumption DEF Channel
  <2>2. Measured(rep, kept) = Cover(rep) + Records(kept) + Channel(kept) /\ Records(kept) \in Int
    BY <1>3, MeasuredIsWeighed
  <2> QED
    BY <2>1, <2>2
<1>5. r.rep = rep /\ r.kept = kept /\ r.size = Measured(rep, kept) /\ r.kind = "report"
  BY <1>1
<1>6. r.renders <=> Encodable(kept)
  BY <1>1 DEF Encodable
<1> QED
  BY <1>0, <1>2, <1>4, <1>5, <1>6, <1>7 DEF Sent, SaysFailed

\* No results cost nothing beside the report.
LEMMA NothingCarried ==
    <<>> \in Seq(Entry) /\ Records(<<>>) = 0 /\ Channel(<<>>) = 0
<1>1. <<>> \in Seq(Entry) /\ Len(<<>>) = 0
  OBVIOUS
<1>2. [i \in DOMAIN <<>> |-> Record(<<>>[i])] = <<>>
  OBVIOUS
<1>3. Sum(<<>>) = 0 /\ Channel(<<>>) = 0
  BY <1>1, PartialSumsAre DEF Sum, Channel
<1> QED
  BY <1>1, <1>2, <1>3 DEF Records

\* The calls of a batch are different ones, the first the client has to make.
LEMMA BatchIsPrefix ==
    ASSUME GivenHeld, CallsHeld, pc # "idle"
    PROVE  /\ DOMAIN batch = 1 .. Len(batch) /\ Len(batch) \in Nat /\ Len(batch) >= 1
           /\ DOMAIN todo = 1 .. Len(todo) /\ Len(todo) \in Nat /\ Len(batch) <= Len(todo)
           /\ \A i \in DOMAIN batch : /\ batch[i] = todo[i] /\ i \in DOMAIN todo
                                      /\ batch[i] \in Calls /\ batch[i] \in Elements(todo)
                                      /\ NameOf(i) \in Names
           /\ \A i, j \in DOMAIN batch : batch[i] = batch[j] => i = j
<1>1. /\ todo \in Seq(Calls) /\ batch \in Seq(Calls) /\ Len(batch) \in 1 .. Len(todo)
      /\ batch = SubSeq(todo, 1, Len(batch))
  BY DEF CallsHeld
<1>2. /\ DOMAIN batch = 1 .. Len(batch) /\ Len(batch) \in Nat /\ Len(batch) >= 1
      /\ DOMAIN todo = 1 .. Len(todo) /\ Len(todo) \in Nat /\ Len(batch) <= Len(todo)
  BY <1>1
<1>3. ASSUME NEW i \in DOMAIN batch
      PROVE  /\ batch[i] = todo[i] /\ i \in DOMAIN todo
             /\ batch[i] \in Calls /\ batch[i] \in Elements(todo) /\ NameOf(i) \in Names
  <2>1. batch[i] = todo[i] /\ i \in DOMAIN todo
    BY <1>1, <1>2
  <2>2. batch[i] \in Calls
    BY <1>1
  <2>3. plan[batch[i]] \in Names
    BY <2>2 DEF GivenHeld, Calls
  <2> QED
    BY <2>1, <2>2, <2>3 DEF Elements, NameOf
<1>4. ASSUME NEW i \in DOMAIN batch, NEW j \in DOMAIN batch, batch[i] = batch[j]
      PROVE  i = j
  BY <1>3, <1>4 DEF CallsHeld, Distinct
<1> QED
  BY <1>2, <1>3, <1>4

(***************************************************************************)
(* The start.                                                              *)
(***************************************************************************)

\* The limits that apply are at least their floors.
LEMMA LimitsTyped ==
    ASSUME NEW c \in Int \X Int
    PROVE  /\ Limits(c[1], c[2]).bytes \in Nat
           /\ ByteBounds[1] <= Limits(c[1], c[2]).bytes
<1>1. c[2] \in Int /\ ByteBounds[1] \in Nat /\ ByteBounds[2] \in Nat /\ ByteBounds[1] <= ByteBounds[2]
  BY BoundsAssumption
<1>2. Limits(c[1], c[2]).bytes = Bounded(c[2], ByteBounds)
  BY DEF Limits
<1> QED
  BY <1>1, <1>2 DEF Bounded, Least, Largest

\* A catalog as finalized keeps its type.
LEMMA FinalizedTyped ==
    ASSUME NEW ordinary \in Seq(Names), NEW list \in Seq(Names)
    PROVE  /\ Finalized(ordinary, list).entries \in Seq(Names)
           /\ Finalized(ordinary, list).clash \in BOOLEAN
           /\ Finalized(ordinary, list).duplicate \in BOOLEAN
BY DEF Finalized

\* The invariant holds at the start.
LEMMA InitHolds ==
    ASSUME Init
    PROVE  BatchInv
<1>1. GivenHeld
  <2>1. PICK r \in Registrations :
           catalog = [finalized |-> Finalized(r.ordinary, r.entries), encodes |-> r.encodes]
    BY DEF Init
  <2>2. PICK c \in Configured : limits = Limits(c[1], c[2])
    BY DEF Init
  <2>3. r.ordinary \in Seq(Names) /\ r.entries \in Seq(Names) /\ c \in Int \X Int /\ plan \in Seq(Names)
    BY InputsAssumption DEF Init
  <2>4. catalog.finalized = Finalized(r.ordinary, r.entries)
    BY <2>1
  <2> QED
    BY <2>2, <2>3, <2>4, LimitsTyped, FinalizedTyped DEF GivenHeld
<1>2. Len(plan) \in Nat /\ Calls = 1 .. Len(plan)
  BY <1>1 DEF GivenHeld, Calls
<1>3. todo \in Seq(Calls) /\ DOMAIN todo = Calls /\ \A i \in Calls : todo[i] = i
  <2>1. todo = [k \in 1 .. Len(plan) |-> k]
    BY DEF Init
  <2>2. todo \in [1 .. Len(plan) -> Calls]
    BY <1>2, <2>1
  <2> QED
    BY <1>2, <2>1, <2>2, FunctionSequence
<1>4. /\ pc = "idle" /\ batch = <<>> /\ abandoned = FALSE /\ found.kind = "none"
      /\ ran = [c \in Calls |-> 0] /\ named = [c \in Calls |-> 0] /\ status = [c \in Calls |-> "open"]
  BY <1>2 DEF Init, None
<1>5. CallsHeld
  <2>1. Distinct(todo)
    BY <1>3 DEF Distinct
  <2>2. batch \in Seq(Calls)
    BY <1>4
  <2>3. /\ ran \in [Calls -> Nat] /\ named \in [Calls -> Nat]
        /\ status \in [Calls -> {"open", "told", "omitted", "let go"}]
    BY <1>4
  <2> QED
    BY <1>3, <1>4, <2>1, <2>2, <2>3 DEF CallsHeld
<1>6. UnderWay /\ ReplyHeld /\ HeldToTheLimit /\ CountersTellWhatRan /\ StopsForAReason
  BY <1>4 DEF UnderWay, ReplyHeld, HeldToTheLimit, CountersTellWhatRan, StopsForAReason, Answered
<1>7. Accounted
  <2>1. Elements(todo) = Calls
    BY <1>3 DEF Elements
  <2>2. Outstanding = {}
    BY <1>4 DEF Outstanding
  <2> QED
    BY <1>4, <2>1, <2>2 DEF Accounted
<1> QED
  BY <1>1, <1>5, <1>6, <1>7 DEF BatchInv

(***************************************************************************)
(* The steps.                                                              *)
(***************************************************************************)

LEMMA SearchToolsHolds ==
    ASSUME BatchInv, NEW query, NEW limit, SearchTools(query, limit)
    PROVE  BatchInv'
<1>1. /\ pc = "idle" /\ pc' = "idle"
      /\ UNCHANGED <<catalog, limits, plan, todo, pc, batch, entries, held, reply, progress,
                     abandoned, ran, named, status, here, last, spent>>
  BY DEF SearchTools
<1>2. found'.kind = "message" => found'.size <= limits'.bytes
  <2>1. ASSUME found' = Message(Weight.complaint)
        PROVE  found'.size <= limits.bytes
    BY <2>1, MessagesFit, WeightAssumption DEF Message, BatchInv, GivenHeld
  <2>2. found' = Message(Weight.complaint) \/ found'.kind = "tools"
    BY DEF SearchTools
  <2> QED
    BY <1>1, <2>1, <2>2
<1>3. GivenHeld' /\ CallsHeld'
  BY <1>1 DEF BatchInv, GivenHeld, CallsHeld, Calls
<1>4. UnderWay' /\ ReplyHeld' /\ HeldToTheLimit' /\ CountersTellWhatRan' /\ StopsForAReason'
  BY <1>1, <1>2 DEF UnderWay, ReplyHeld, HeldToTheLimit, CountersTellWhatRan, StopsForAReason, Answered
<1>5. Accounted'
  BY <1>1 DEF BatchInv, Accounted, Outstanding, Calls, Elements
<1> QED
  BY <1>3, <1>4, <1>5 DEF BatchInv

\* The report a batch starts with fits every limit there is.
LEMMA EmptyReportFits ==
    ASSUME NEW k, limits.bytes \in Nat, ByteBounds[1] <= limits.bytes
    PROVE  Fits(Report(k, TRUE, <<>>))
<1>1. PICK kept : kept = <<>>
  OBVIOUS
<1>2. PICK r : r = Report(k, TRUE, kept)
  OBVIOUS
<1>3. kept \in Seq(Entry) /\ Records(kept) = 0 /\ Channel(kept) = 0 /\ DOMAIN kept = {}
  BY <1>1, NothingCarried
<1>5. /\ r.kept = kept /\ r.rep.ok = TRUE /\ r.rep.error = "none"
      /\ r.rep.omitted.length = 0
      /\ (r.renders <=> Encodable(kept)) /\ r.size = Sent(r)
  <2>1. kept \in Seq(Entry)
    BY <1>3
  <2>2. PICK ok : ok = TRUE
    OBVIOUS
  <2>3. SaysReported(r, k, ok, kept)
    BY <1>2, <2>1, <2>2, ReportIs
  <2> QED
    BY <2>2, <2>3 DEF SaysReported
<1>6. Weighed(r.rep, kept) = Cover(r.rep) + Records(kept) + Channel(kept) /\ Cover(r.rep) \in Nat
  <2>1. r.rep.error \in {"none", "limit", "encode"} /\ r.rep.omitted.length \in Nat
    BY <1>5
  <2>2. PICK rep : rep = r.rep
    OBVIOUS
  <2>3. rep.error \in {"none", "limit", "encode"} /\ rep.omitted.length \in Nat
    BY <2>1, <2>2
  <2>4. Weighed(rep, kept) = Cover(rep) + Records(kept) + Channel(kept)
    <3>1. kept \in Seq(Entry)
      BY <1>3
    <3> QED
      BY <2>3, <3>1, MeasuredIsWeighed
  <2>5. Cover(rep) \in Nat
    BY <2>3, CoverTyped
  <2> QED
    BY <2>2, <2>4, <2>5
<1>7. /\ Weight.report \in Nat /\ Weight.flag \in Nat /\ Weight.limit \in Nat
      /\ Weight.encode \in Nat /\ ByteBounds[1] \in Nat
      /\ Weight.report + Weight.flag + Weight.flag + Weight.limit + Weight.encode <= ByteBounds[1]
  BY WeightAssumption, BoundsAssumption, FloorAssumption
<1>8. Cover(r.rep) <= Weight.report + Weight.flag
  BY <1>5, <1>7 DEF Cover
<1>9. r.size <= limits.bytes
  <2>1. r.size = Weighed(r.rep, kept)
    BY <1>5 DEF Sent
  <2>2. r.size = Cover(r.rep)
    BY <1>3, <1>6, <2>1
  <2> QED
    BY <1>6, <1>7, <1>8, <2>2
<1> QED
  BY <1>1, <1>2, <1>3, <1>5, <1>9 DEF Fits, Encodable

\* A batch begins with nothing carried and nothing run.
LEMMA AskHolds ==
    ASSUME BatchInv, NEW k \in 1 .. Len(todo), NEW wellFormed, Ask(k, wellFormed)
    PROVE  BatchInv'
<1>1. /\ pc = "idle" /\ UNCHANGED <<catalog, limits, plan, todo, ran, named, status>>
      /\ batch' = SubSeq(todo, 1, k) /\ entries' = <<>> /\ progress' = 0 /\ abandoned' = FALSE
      /\ here' = {} /\ found' = None
  BY DEF Ask
<1>2. \/ pc' = "replied" /\ reply' = Message(k * Weight.complaint)
      \/ pc' = "next" /\ held' = Report(k, TRUE, <<>>) /\ reply' = None
  BY DEF Ask
<1>3. GivenHeld /\ GivenHeld' /\ CallsHeld /\ Calls' = Calls
  BY <1>1 DEF BatchInv, GivenHeld, Calls
<1>4. /\ batch' \in Seq(Calls) /\ Len(batch') = k /\ k \in Nat /\ k >= 1
      /\ batch' = SubSeq(todo', 1, Len(batch')) /\ Len(batch') \in 1 .. Len(todo')
  <2>1. todo \in Seq(Calls) /\ Len(todo) \in Nat /\ k \in Nat /\ 1 <= k /\ k <= Len(todo)
    <3>1. todo \in Seq(Calls)
      BY <1>3 DEF CallsHeld
    <3>2. Len(todo) \in Nat
      BY <3>1
    <3> QED
      BY <3>1, <3>2
  <2>2. \A i \in 1 .. Len(todo) : todo[i] \in Calls
    BY <2>1
  <2>3. SubSeq(todo, 1, k) \in Seq(Calls) /\ Len(SubSeq(todo, 1, k)) = k
    BY <2>1, <2>2
  <2> QED
    BY <1>1, <2>1, <2>3
<1>5. CallsHeld'
  BY <1>1, <1>2, <1>3, <1>4 DEF CallsHeld, Distinct
<1>6. found'.kind = "none"
  BY <1>1 DEF None
<1>7. Accounted'
  <2>1. Outstanding = {} /\ Outstanding' = {}
    BY <1>1 DEF Outstanding
  <2>2. Elements(todo)' = Elements(todo)
    BY <1>1 DEF Elements
  <2> QED
    BY <1>1, <1>3, <2>1, <2>2 DEF BatchInv, Accounted
<1>8. CASE pc' = "replied" /\ reply' = Message(k * Weight.complaint)
  <2>1. reply'.kind = "message" /\ reply'.size = MessageReply(k * Weight.complaint, limits.bytes)
    BY <1>8 DEF Message
  <2>2. k * Weight.complaint \in Nat
    BY <1>4, WeightAssumption
  <2>3. reply'.size <= limits'.bytes
    BY <1>1, <1>3, <2>1, <2>2, MessagesFit DEF GivenHeld
  <2>4. UnderWay' /\ ReplyHeld' /\ HeldToTheLimit' /\ CountersTellWhatRan' /\ StopsForAReason'
    BY <1>1, <1>6, <1>8, <2>1, <2>3
       DEF UnderWay, ReplyHeld, HeldToTheLimit, CountersTellWhatRan, StopsForAReason, Answered
  <2> QED
    BY <1>3, <1>5, <1>7, <2>4 DEF BatchInv
<1>9. CASE pc' = "next" /\ held' = Report(k, TRUE, <<>>) /\ reply' = None
  <2>1. Fits(Report(k, TRUE, <<>>))
    BY <1>3, EmptyReportFits DEF GivenHeld
  <2>2. UnderWay'
    <3>1. Fits(held)'
      BY <1>1, <1>9, <2>1 DEF Fits
    <3>2. held' = Report(Len(batch'), TRUE, entries')
      BY <1>1, <1>4, <1>9
    <3>3. Len(entries') = 0 /\ DOMAIN entries' = {} /\ entries' \in Seq(Entry)
      BY <1>1
    <3>4. Carried(entries)'
      BY <3>3 DEF Carried
    <3>5. here' = 1 .. Len(entries') /\ progress' = Len(entries') /\ Len(entries') < Len(batch')
      BY <1>1, <1>4, <3>3
    <3> QED
      BY <1>9, <3>1, <3>2, <3>3, <3>4, <3>5 DEF UnderWay
  <2>3. ReplyHeld' /\ HeldToTheLimit' /\ CountersTellWhatRan' /\ StopsForAReason'
    BY <1>6, <1>9 DEF ReplyHeld, HeldToTheLimit, CountersTellWhatRan, StopsForAReason, Answered
  <2> QED
    BY <1>3, <1>5, <1>7, <2>2, <2>3 DEF BatchInv
<1> QED
  BY <1>2, <1>8, <1>9

\* Where a batch has come to, whose limits, calls and results do not change.
LEMMA BatchUnchanged ==
    ASSUME UNCHANGED <<limits, plan, batch, entries, held, progress>>
    PROVE  /\ Fits(held)' <=> Fits(held)
           /\ Report(Len(batch), TRUE, entries)' = Report(Len(batch), TRUE, entries)
           /\ Carried(entries)' <=> Carried(entries)
           /\ Following' = Following
           /\ CanReport(Len(batch), entries, NameOf(Following), Following)'
                <=> CanReport(Len(batch), entries, NameOf(Following), Following)
<1>1. Following' = Following /\ NameOf(Following)' = NameOf(Following)
  BY DEF Following, NameOf
<1>2. Fits(held)' <=> Fits(held)
  BY DEF Fits
<1>3. Carried(entries)' <=> Carried(entries)
  BY DEF Carried, NameOf
<1>4. Report(Len(batch), TRUE, entries)' = Report(Len(batch), TRUE, entries)
  OBVIOUS
<1>5. CanReport(Len(batch), entries, NameOf(Following), Following)'
        <=> CanReport(Len(batch), entries, NameOf(Following), Following)
  BY <1>1 DEF CanReport, FailReply, Fits
<1> QED
  BY <1>1, <1>2, <1>3, <1>4, <1>5

\* The next call of a batch under way.
LEMMA NextCall ==
    ASSUME BatchInv, pc \in {"next", "running"}
    PROVE  /\ GivenHeld /\ CallsHeld
           /\ Carried(entries) /\ entries \in Seq(Entry) /\ Len(entries) \in Nat
           /\ DOMAIN entries = 1 .. Len(entries)
           /\ Len(entries) < Len(batch) /\ Following = Len(entries) + 1
           /\ Following \in DOMAIN batch /\ NameOf(Following) \in Names
           /\ Following \in Nat /\ 1 <= Following /\ Following <= Len(batch)
           /\ \A i \in DOMAIN entries : entries[i].encodable /\ ~entries[i].isError
           /\ held = Report(Len(batch), TRUE, entries) /\ Fits(held)
           /\ progress = Len(entries) /\ limits.bytes \in Nat /\ ByteBounds[1] <= limits.bytes
<1>1. /\ GivenHeld /\ CallsHeld /\ Carried(entries) /\ Len(entries) < Len(batch)
      /\ \A i \in DOMAIN entries : entries[i].encodable /\ ~entries[i].isError
      /\ held = Report(Len(batch), TRUE, entries) /\ Fits(held)
      /\ progress = Len(entries)
  BY DEF BatchInv, UnderWay
<1>2. limits.bytes \in Nat /\ ByteBounds[1] <= limits.bytes
  BY <1>1 DEF GivenHeld
<1>3. entries \in Seq(Entry)
  BY <1>1 DEF Carried
<1>4. Len(entries) \in Nat /\ DOMAIN entries = 1 .. Len(entries)
  BY <1>3
<1>5. DOMAIN batch = 1 .. Len(batch) /\ Len(batch) \in Nat
  BY <1>1, BatchIsPrefix
<1>6. Following = Len(entries) + 1 /\ Following \in DOMAIN batch
  BY <1>1, <1>4, <1>5 DEF Following
<1>7. NameOf(Following) \in Names
  BY <1>1, <1>6, BatchIsPrefix
<1>8. Following \in Nat /\ 1 <= Following /\ Following <= Len(batch)
  BY <1>1, <1>4, <1>5, <1>6
<1> QED
  BY <1>1, <1>2, <1>3, <1>4, <1>6, <1>7, <1>8

\* A call that starts was in the list, and none of it is outstanding before.
LEMMA StartHolds ==
    ASSUME BatchInv, Start
    PROVE  BatchInv'
<1>1. /\ pc = "next" /\ pc' = "running"
      /\ CanReport(Len(batch), entries, NameOf(Following), Following)
      /\ ran' = [ran EXCEPT ![batch[Following]] = @ + 1] /\ here' = here \cup {Following}
      /\ UNCHANGED <<catalog, limits, plan, todo, batch, entries, held, reply, progress,
                     abandoned, found, named, status, last, spent>>
  BY DEF Start
<1>2. /\ GivenHeld /\ CallsHeld
      /\ Carried(entries) /\ Len(entries) \in Nat /\ Len(entries) < Len(batch)
      /\ Following = Len(entries) + 1 /\ Following \in DOMAIN batch
      /\ \A i \in DOMAIN entries : entries[i].encodable /\ ~entries[i].isError
      /\ held = Report(Len(batch), TRUE, entries) /\ Fits(held)
      /\ progress = Len(entries)
  BY <1>1, NextCall
<1>3. here = 1 .. Len(entries)
  BY <1>1 DEF BatchInv, UnderWay
<1>4. ran \in [Calls -> Nat] /\ ran' \in [Calls -> Nat] /\ batch[Following] \in Calls
  <2>1. batch[Following] \in Calls
    BY <1>1, <1>2, BatchIsPrefix
  <2>2. ran \in [Calls -> Nat]
    BY <1>2 DEF CallsHeld
  <2>3. ran' \in [Calls -> Nat]
    BY <1>1, <2>1, <2>2
  <2> QED
    BY <2>1, <2>2, <2>3
<1>5. GivenHeld' /\ CallsHeld'
  <2>1. Calls' = Calls
    BY <1>1 DEF Calls
  <2> QED
    BY <1>1, <1>2, <1>4, <2>1 DEF GivenHeld, CallsHeld, Distinct
<1>6. UnderWay'
  <2>1. here' = 1 .. Following'
    BY <1>1, <1>2, <1>3, BatchUnchanged
  <2>2. /\ Carried(entries)' /\ Fits(held)'
        /\ CanReport(Len(batch), entries, NameOf(Following), Following)'
    BY <1>1, <1>2, BatchUnchanged
  <2>3. held' = Report(Len(batch), TRUE, entries)'
    BY <1>1, <1>2
  <2>4. /\ Len(entries') < Len(batch') /\ progress' = Len(entries')
        /\ \A i \in DOMAIN entries' : entries'[i].encodable /\ ~entries'[i].isError
    BY <1>1, <1>2
  <2> QED
    BY <1>1, <2>1, <2>2, <2>3, <2>4 DEF UnderWay
<1>7. ReplyHeld' /\ HeldToTheLimit' /\ CountersTellWhatRan' /\ StopsForAReason'
  BY <1>1 DEF ReplyHeld, BatchInv, HeldToTheLimit, CountersTellWhatRan, StopsForAReason, Answered
<1>8. Accounted'
  <2>1. Outstanding = {batch[i] : i \in here}
    BY <1>1 DEF Outstanding, Omitted, Answered
  <2>2. Outstanding' = {batch[i] : i \in here} \cup {batch[Following]}
    BY <1>1 DEF Outstanding, Omitted, Answered
  <2>3. batch[Following] \in Elements(todo)
    BY <1>1, <1>2, BatchIsPrefix
  <2>4. batch[Following] \notin Outstanding
    <3>1. DOMAIN batch = 1 .. Len(batch) /\ Len(batch) \in Nat
          /\ \A i, j \in DOMAIN batch : batch[i] = batch[j] => i = j
      BY <1>1, <1>2, BatchIsPrefix
    <3>2. \A i \in here : i \in DOMAIN batch /\ i # Following
      BY <1>2, <1>3, <3>1
    <3> QED
      BY <1>2, <2>1, <3>1, <3>2
  <2>5. \A c \in Calls : ran'[c] = IF c = batch[Following] THEN ran[c] + 1 ELSE ran[c]
    BY <1>1, <1>4
  <2>6. Elements(todo)' = Elements(todo) /\ Calls' = Calls
    BY <1>1 DEF Elements, Calls
  <2>7. named \in [Calls -> Nat]
    BY <1>2 DEF CallsHeld
  <2>8. ASSUME NEW c \in Calls
        PROVE  IF c \in Elements(todo)
               THEN /\ ran'[c] = named[c] + IF c \in Outstanding' THEN 1 ELSE 0
                    /\ status[c] \in {"open", "omitted"}
               ELSE /\ ran'[c] \in {named[c], named[c] + 1}
                    /\ status[c] = "told" => ran'[c] = named[c] + 1
                    /\ status[c] = "omitted" => ran'[c] = named[c]
                    /\ status[c] = "open" => catalog.finalized.clash \/ catalog.finalized.duplicate
    <3>1. Accounted
      BY DEF BatchInv
    <3>2. CASE c = batch[Following]
      <4>1. c \in Elements(todo) /\ c \notin Outstanding /\ c \in Outstanding'
        BY <2>2, <2>3, <2>4, <3>2
      <4>2. ran[c] = named[c] + 0 /\ status[c] \in {"open", "omitted"}
        BY <3>1, <4>1 DEF Accounted
      <4> QED
        BY <2>5, <2>7, <3>2, <4>1, <4>2
    <3>3. CASE c # batch[Following]
      <4>1. ran'[c] = ran[c] /\ (c \in Outstanding' <=> c \in Outstanding)
        BY <2>1, <2>2, <2>5, <3>3
      <4> QED
        BY <3>1, <4>1 DEF Accounted
    <3> QED
      BY <3>2, <3>3
  <2> QED
    BY <1>1, <2>6, <2>8 DEF Accounted
<1> QED
  BY <1>5, <1>6, <1>7, <1>8 DEF BatchInv

\* A batch that stops for room reports what it carries.
LEMMA StopForRoomHolds ==
    ASSUME BatchInv, StopForRoom
    PROVE  BatchInv'
<1>1. /\ pc = "next" /\ pc' = "replied" /\ reply' = held
      /\ ~CanReport(Len(batch), entries, NameOf(Following), Following)
      /\ UNCHANGED <<catalog, limits, plan, todo, batch, entries, held, progress, abandoned,
                     found, ran, named, status, here, last, spent>>
  BY DEF StopForRoom
<1>2. /\ GivenHeld /\ CallsHeld
      /\ Carried(entries) /\ entries \in Seq(Entry) /\ Len(entries) \in Nat
      /\ DOMAIN entries = 1 .. Len(entries) /\ Len(entries) < Len(batch)
      /\ Following = Len(entries) + 1 /\ NameOf(Following) \in Names
      /\ \A i \in DOMAIN entries : entries[i].encodable /\ ~entries[i].isError
      /\ held = Report(Len(batch), TRUE, entries) /\ Fits(held)
      /\ progress = Len(entries) /\ limits.bytes \in Nat /\ ByteBounds[1] <= limits.bytes
  BY <1>1, NextCall
<1>3. here = 1 .. Len(entries)
  BY <1>1 DEF BatchInv, UnderWay
<1>4. Len(entries) >= 1
  <2>1. CASE entries = <<>>
    <3>1. Following = 1 /\ CanReport(Len(batch), <<>>, NameOf(Following), 1)
      BY <1>2, <2>1, FirstIsReportable
    <3> QED
      BY <1>1, <2>1, <3>1
  <2>2. CASE entries # <<>>
    BY <1>2, <2>2
  <2> QED
    BY <2>1, <2>2
<1>5. GivenHeld' /\ CallsHeld'
  BY <1>1, <1>2 DEF GivenHeld, CallsHeld, Calls, Distinct
<1>6. /\ reply'.kind = "report" /\ reply'.kept = entries /\ reply'.rep.ok = TRUE
      /\ reply'.rep.error = "none" /\ reply'.rep.omitted.length = 0
      /\ reply'.rep.attempted = Len(entries) /\ reply'.rep.reported = Len(entries)
      /\ reply'.rep.complete \in BOOLEAN /\ (reply'.rep.complete <=> Len(entries) = Len(batch))
      /\ reply'.size = Sent(reply') /\ reply'.renders
  <2>1. PICK ok : ok = TRUE
    OBVIOUS
  <2>3. held = Report(Len(batch), ok, entries) /\ entries \in Seq(Entry)
    BY <1>2, <2>1
  <2>4. SaysReported(held, Len(batch), ok, entries)
    BY <2>3, ReportIs
  <2>2. held.renders
    BY <1>2 DEF Fits
  <2> QED
    BY <1>1, <2>1, <2>2, <2>4 DEF SaysReported
<1>7. UnderWay' /\ ReplyHeld' /\ HeldToTheLimit' /\ CountersTellWhatRan'
  <2>1. UnderWay'
    BY <1>1 DEF UnderWay
  <2>2. Carried(reply.kept)'
    <3>1. NameOf(1)' = NameOf(1) /\ \A i : plan'[batch'[i]] = plan[batch[i]]
      BY <1>1 DEF NameOf
    <3>2. reply'.kept = entries
      BY <1>6
    <3> QED
      BY <1>2, <3>1, <3>2 DEF Carried, NameOf
  <2>3. ReplyHeld'
    <3>1. Len(batch) \in Nat
      <4>1. batch \in Seq(Calls)
        BY <1>2 DEF CallsHeld
      <4> QED
        BY <4>1
    <3>2. reply'.rep.attempted \in 1 .. Len(batch')
      <4>1. Len(entries) \in 1 .. Len(batch)
        BY <1>2, <1>4, <3>1
      <4> QED
        BY <1>1, <1>6, <4>1
    <3>3. reply'.rep.complete \in BOOLEAN /\ reply'.rep.ok \in BOOLEAN
      BY <1>6
    <3> QED
      BY <1>6, <2>2, <3>2, <3>3 DEF ReplyHeld
  <2>4. HeldToTheLimit'
    <3>1. reply'.size <= limits'.bytes
      BY <1>1, <1>2 DEF Fits
    <3> QED
      BY <1>1, <1>6, <3>1 DEF HeldToTheLimit, BatchInv, Answered
  <2>5. CountersTellWhatRan'
    <3>1. \A i \in DOMAIN reply'.kept : reply'.kept[i].index = i /\ reply'.kept[i].name = NameOf(i)'
      BY <2>2 DEF Carried
    <3>2. ~ \E i \in DOMAIN reply'.kept : reply'.kept[i].isError
      BY <1>2, <1>6
    <3>3. ~reply'.rep.complete /\ Len(entries) # Len(batch)
      BY <1>2, <1>6
    <3> QED
      BY <1>1, <1>2, <1>3, <1>6, <3>1, <3>2, <3>3 DEF CountersTellWhatRan, Answered
  <2> QED
    BY <2>1, <2>3, <2>4, <2>5
<1>8. StopsForAReason'
  <2> DEFINE nameless == Failure(Len(batch), entries, WorstFailure, Len(entries) + 1, 0)
  <2>1. ~Fits(nameless)
    BY <1>1, <1>2, Reportable
  <2>2. nameless.renders /\ nameless.size = Sent(nameless) /\ nameless.size \in Int
    <3>1. WorstFailure \in {"limit", "encode"}
      BY DEF WorstFailure
    <3>2. entries \in Seq(Entry) /\ 0 \in Nat
      BY <1>2
    <3>4. (nameless.renders <=> Encodable(entries)) /\ nameless.size = Sent(nameless)
          /\ nameless.size \in Int
      <4>1. SaysFailed(nameless, Len(batch), entries, WorstFailure, Len(entries) + 1, 0)
        BY <3>1, <3>2, FailureIs
      <4> HIDE DEF nameless
      <4> QED
        BY <4>1 DEF SaysFailed
    <3> QED
      BY <1>2, <3>4 DEF Encodable
  <2>3. Sent(nameless) > limits'.bytes
    <3> HIDE DEF nameless
    <3> QED
      BY <1>1, <1>2, <2>1, <2>2 DEF Fits
  <2>4. Sent(Render(Len(batch'), reply'.rep.attempted + 1, FALSE, WorstFailure,
                    [length |-> 0, index |-> reply'.rep.attempted + 1], reply'.kept)) > limits'.bytes
    BY <1>1, <1>6, <2>3 DEF Failure
  <2> QED
    BY <1>1, <1>4, <1>6, <2>4 DEF StopsForAReason, Answered
<1>9. Accounted'
  <2>1. Outstanding' = Outstanding
    BY <1>1, <1>6 DEF Outstanding, Omitted, Answered
  <2>2. Elements(todo)' = Elements(todo) /\ Calls' = Calls
    BY <1>1 DEF Elements, Calls
  <2> QED
    BY <1>1, <2>1, <2>2 DEF BatchInv, Accounted
<1> QED
  BY <1>5, <1>7, <1>8, <1>9 DEF BatchInv

\* Giving a request up changes nothing it has reported.
LEMMA AbandonHolds ==
    ASSUME BatchInv, Abandon
    PROVE  BatchInv'
<1>1. /\ pc \in {"next", "running"} /\ abandoned' = TRUE
      /\ UNCHANGED <<catalog, limits, plan, todo, pc, batch, entries, held, reply, progress,
                     found, ran, named, status, here, last>>
  BY DEF Abandon
<1>2. GivenHeld /\ CallsHeld
  BY DEF BatchInv
<1>3. GivenHeld' /\ CallsHeld'
  <2>1. Calls' = Calls
    BY <1>1 DEF Calls
  <2> QED
    BY <1>1, <1>2, <2>1 DEF GivenHeld, CallsHeld, Distinct
<1>4. UnderWay'
  <2>1. UnderWay
    BY DEF BatchInv
  <2>2. /\ Fits(held)' <=> Fits(held)
        /\ Carried(entries)' <=> Carried(entries)
        /\ Following' = Following
        /\ CanReport(Len(batch), entries, NameOf(Following), Following)'
                <=> CanReport(Len(batch), entries, NameOf(Following), Following)
    BY <1>1, BatchUnchanged
  <2> QED
    BY <1>1, <2>1, <2>2 DEF UnderWay
<1>5. ReplyHeld' /\ HeldToTheLimit' /\ CountersTellWhatRan' /\ StopsForAReason'
  BY <1>1 DEF ReplyHeld, BatchInv, HeldToTheLimit, CountersTellWhatRan, StopsForAReason, Answered
<1>6. Accounted'
  <2>1. Outstanding' = Outstanding
    BY <1>1 DEF Outstanding, Omitted, Answered
  <2>2. Elements(todo)' = Elements(todo) /\ Calls' = Calls
    BY <1>1 DEF Elements, Calls
  <2> QED
    BY <1>1, <2>1, <2>2 DEF BatchInv, Accounted
<1> QED
  BY <1>3, <1>4, <1>5, <1>6 DEF BatchInv

\* What a result is recorded as keeps its type.
LEMMA EntryTyped ==
    ASSUME NEW index \in Nat, NEW name \in Names, NEW o \in Invoke(name)
    PROVE  /\ EntryFor(index, name, o) \in Entry
           /\ EntryFor(index, name, o).index = index /\ EntryFor(index, name, o).name = name
           /\ EntryFor(index, name, o).isError = o.isError
           /\ EntryFor(index, name, o).encodable = o.encodable
           /\ o.isError \in BOOLEAN /\ o.encodable \in BOOLEAN
<1>1. /\ o.isError \in BOOLEAN /\ o.encodable \in BOOLEAN /\ o.items \in Seq(Nat)
      /\ o.structured \in Nat /\ o.meta \in Nat
  <2>1. CASE o \in Outcomes
    BY <2>1, OutcomesAssumption
  <2>2. CASE o = NotFound(name)
    <3>1. Weight.message + Texts[name].length \in Nat
      BY WeightAssumption, TextsAssumption
    <3> QED
      BY <2>2, <3>1 DEF NotFound
  <2> QED
    BY <2>1, <2>2 DEF Invoke
<1> QED
  BY <1>1 DEF EntryFor, Entry

\* What is the same however a call that has run ends.
LEMMA FinishKeeps ==
    ASSUME BatchInv, NEW o, Finish(o)
    PROVE  /\ pc = "running" /\ o \in Invoke(NameOf(Following)) /\ last' = o
           /\ progress' = Following
           /\ UNCHANGED <<catalog, limits, plan, todo, batch, abandoned, found, ran, status,
                          here, spent>>
           /\ here = 1 .. Following
           /\ CanReport(Len(batch), entries, NameOf(Following), Following)
           /\ EntryFor(Following, NameOf(Following), o) \in Entry
           /\ Carried(Append(entries, EntryFor(Following, NameOf(Following), o)))
           /\ Len(Append(entries, EntryFor(Following, NameOf(Following), o))) = Following
           /\ GivenHeld' /\ (named' \in [Calls -> Nat] /\ pc' \in {"next", "replied"} => CallsHeld')
<1>1. /\ pc = "running" /\ o \in Invoke(NameOf(Following)) /\ last' = o
      /\ progress' = Following
      /\ UNCHANGED <<catalog, limits, plan, todo, batch, abandoned, found, ran, status,
                     here, spent>>
  BY DEF Finish
<1>2. here = 1 .. Following /\ CanReport(Len(batch), entries, NameOf(Following), Following)
  BY <1>1 DEF BatchInv, UnderWay
<1>3. /\ GivenHeld /\ CallsHeld
      /\ Carried(entries) /\ entries \in Seq(Entry) /\ Len(entries) \in Nat
      /\ DOMAIN entries = 1 .. Len(entries)
      /\ Following = Len(entries) + 1 /\ NameOf(Following) \in Names
  BY <1>1, NextCall
<1>4. PICK e : e = EntryFor(Following, NameOf(Following), o)
  OBVIOUS
<1>5. e \in Entry /\ e.index = Following /\ e.name = NameOf(Following)
  BY <1>1, <1>3, <1>4, EntryTyped
<1>6. PICK kept : kept = Append(entries, e)
  OBVIOUS
<1>7. /\ kept \in Seq(Entry) /\ Len(kept) = Following /\ DOMAIN kept = 1 .. Following
      /\ kept[Following] = e /\ \A i \in 1 .. Len(entries) : kept[i] = entries[i]
  BY <1>3, <1>5, <1>6
<1>8. Carried(kept)
  <2>1. ASSUME NEW i \in DOMAIN kept
        PROVE  kept[i].index = i /\ kept[i].name = NameOf(i)
    <3>1. i = Following \/ i \in 1 .. Len(entries)
      BY <1>3, <1>7
    <3> QED
      BY <1>3, <1>5, <1>7, <3>1 DEF Carried
  <2> QED
    BY <1>7, <2>1 DEF Carried
<1>9. GivenHeld' /\ (named' \in [Calls -> Nat] /\ pc' \in {"next", "replied"} => CallsHeld')
  <2>1. Calls' = Calls
    BY <1>1 DEF Calls
  <2>2. CallsHeld /\ pc # "idle"
    BY <1>1, <1>3
  <2> QED
    BY <1>1, <1>3, <2>1, <2>2 DEF GivenHeld, CallsHeld, Distinct
<1> QED
  BY <1>1, <1>2, <1>4, <1>5, <1>6, <1>7, <1>8, <1>9

\* The result of the call that is running can be carried.
CanCarry(o) ==
    Fits(Report(Len(batch), ~o.isError,
                Append(entries, EntryFor(Following, NameOf(Following), o))))

\* The result of a call is carried.
LEMMA FinishCarriesHolds ==
    ASSUME BatchInv, NEW o, Finish(o), CanCarry(o)
    PROVE  BatchInv'
<1>1. PICK kept : kept = Append(entries, EntryFor(Following, NameOf(Following), o))
  OBVIOUS
<1>2. PICK next, ok : ok = ~o.isError /\ next = Report(Len(batch), ok, kept)
  OBVIOUS
<1>3. /\ Fits(next) /\ entries' = kept /\ held' = next /\ named' = named
      /\ \/ Ends(o, Following) /\ pc' = "replied" /\ reply' = next
         \/ ~Ends(o, Following) /\ pc' = "next" /\ UNCHANGED reply
  BY <1>1, <1>2 DEF Finish, CanCarry
<1>4. /\ pc = "running" /\ o \in Invoke(NameOf(Following)) /\ last' = o
      /\ progress' = Following
      /\ UNCHANGED <<catalog, limits, plan, todo, batch, abandoned, found, ran, status,
                     here, spent>>
      /\ here = 1 .. Following
      /\ EntryFor(Following, NameOf(Following), o) \in Entry
      /\ Carried(kept) /\ Len(kept) = Following
      /\ GivenHeld' /\ (named' \in [Calls -> Nat] /\ pc' \in {"next", "replied"} => CallsHeld')
  BY <1>1, FinishKeeps
<1>5. /\ GivenHeld /\ CallsHeld
      /\ entries \in Seq(Entry) /\ Len(entries) \in Nat /\ DOMAIN entries = 1 .. Len(entries)
      /\ Following = Len(entries) + 1 /\ NameOf(Following) \in Names /\ Following \in DOMAIN batch
      /\ Following \in Nat /\ 1 <= Following /\ Following <= Len(batch)
      /\ Len(entries) < Len(batch) /\ \A i \in DOMAIN entries : entries[i].encodable /\ ~entries[i].isError
      /\ limits.bytes \in Nat
  BY <1>4, NextCall
<1>6. DOMAIN batch = 1 .. Len(batch) /\ Len(batch) \in Nat
  BY <1>4, <1>5, BatchIsPrefix
<1>7. /\ kept \in Seq(Entry) /\ DOMAIN kept = 1 .. Following
      /\ kept[Following] = EntryFor(Following, NameOf(Following), o)
      /\ \A i \in 1 .. Len(entries) : kept[i] = entries[i]
  BY <1>1, <1>4, <1>5
<1>8. /\ kept[Following].isError = o.isError /\ kept[Following].encodable = o.encodable
      /\ o.isError \in BOOLEAN
  <2>1. Following \in Nat
    BY <1>5
  <2> QED
    BY <1>4, <1>5, <1>7, <2>1, EntryTyped
<1>9. (\E i \in DOMAIN kept : kept[i].isError) <=> o.isError
  <2>1. ASSUME NEW i \in DOMAIN kept, kept[i].isError
        PROVE  o.isError
    <3>1. i = Following \/ i \in 1 .. Len(entries)
      BY <1>5, <1>7
    <3> QED
      BY <1>5, <1>7, <1>8, <2>1, <3>1
  <2>2. Following \in DOMAIN kept
    BY <1>5, <1>7
  <2> QED
    BY <1>8, <2>1, <2>2
<1>10. SaysReported(next, Len(batch), ok, kept)
  BY <1>2, <1>7, ReportIs
<1>11. next.renders /\ next.size <= limits.bytes /\ \A i \in DOMAIN kept : kept[i].encodable
  BY <1>3, <1>10 DEF Fits, SaysReported, Encodable
<1>12. CallsHeld'
  BY <1>3, <1>4, <1>5 DEF CallsHeld
<1>13. NameOf(1)' = NameOf(1) /\ Carried(kept)'
  <2>1. \A i : plan'[batch'[i]] = plan[batch[i]]
    BY <1>4
  <2> QED
    BY <1>4, <2>1 DEF Carried, NameOf
<1>14. CASE Ends(o, Following) /\ pc' = "replied" /\ reply' = next
  <2>1. /\ reply'.kind = "report" /\ reply'.kept = kept /\ reply'.rep.ok = ok
        /\ reply'.rep.error = "none" /\ reply'.rep.omitted.length = 0
        /\ reply'.rep.attempted = Following /\ reply'.rep.reported = Following
        /\ reply'.rep.complete \in BOOLEAN /\ (reply'.rep.complete <=> Following = Len(batch))
        /\ reply'.size = Sent(reply') /\ reply'.renders /\ reply'.size <= limits.bytes
    BY <1>4, <1>10, <1>11, <1>14 DEF SaysReported
  <2>2. UnderWay'
    BY <1>14 DEF UnderWay
  <2>3. ReplyHeld'
    <3>1. Carried(reply.kept)'
      BY <1>13, <2>1 DEF Carried
    <3>2. reply'.rep.ok \in BOOLEAN
      BY <1>2, <1>8, <2>1
    <3>3. reply'.rep.attempted \in 1 .. Len(batch')
      BY <1>4, <1>5, <1>6, <2>1, Zenon
    <3> QED
      BY <2>1, <3>1, <3>2, <3>3 DEF ReplyHeld
  <2>4. HeldToTheLimit'
    BY <1>4, <1>14, <2>1 DEF HeldToTheLimit, BatchInv, Answered
  <2>5. CountersTellWhatRan'
    <3>1. \A i \in DOMAIN reply'.kept : reply'.kept[i].index = i /\ reply'.kept[i].name = NameOf(i)'
      BY <1>13, <2>1 DEF Carried
    <3>2. (\E i \in DOMAIN reply'.kept : reply'.kept[i].isError) <=> o.isError
      BY <1>9, <2>1
    <3>3. reply'.rep.ok <=> ~o.isError
      BY <1>2, <1>8, <2>1
    <3>4. here' = 1 .. Following /\ progress' = Following /\ Len(reply'.kept) = Following
      BY <1>4, <2>1
    <3>5. here' = DOMAIN batch' <=> Following = Len(batch)
      <4>1. Following \in 1 .. Len(batch) /\ Len(batch) \in Nat /\ Following \in Nat
        BY <1>5, <1>6
      <4>2. 1 .. Following = 1 .. Len(batch) => Following = Len(batch)
        <5>1. PICK f : f = Following
          OBVIOUS
        <5>2. 1 .. f = 1 .. Len(batch) => Len(batch) \in 1 .. f
          BY <4>1, <5>1
        <5> QED
          BY <4>1, <5>1, <5>2
      <4>3. here' = 1 .. Following /\ DOMAIN batch' = 1 .. Len(batch)
        BY <1>4, <1>6, <3>4
      <4> QED
        BY <4>2, <4>3
    <3>6. reply'.rep.complete <=> here' = DOMAIN batch' /\ reply'.rep.reported = Len(batch')
      BY <1>4, <2>1, <3>5
    <3> QED
      BY <1>14, <2>1, <3>1, <3>2, <3>3, <3>4, <3>6 DEF CountersTellWhatRan, Answered
  <2>6. StopsForAReason'
    <3>1. reply'.rep.complete \/ abandoned' \/ (~reply'.rep.ok /\ last'.isError)
      BY <1>2, <1>4, <1>8, <1>14, <2>1 DEF Ends
    <3>2. reply'.rep.attempted >= 1
      BY <1>5, <2>1
    <3> QED
      BY <2>1, <3>1, <3>2 DEF StopsForAReason, Answered
  <2>7. Outstanding' = Outstanding
    BY <1>4, <1>14, <2>1 DEF Outstanding, Omitted, Answered
  <2>8. Accounted'
    <3>1. Elements(todo)' = Elements(todo) /\ Calls' = Calls
      BY <1>4 DEF Elements, Calls
    <3> QED
      BY <1>3, <1>4, <2>7, <3>1 DEF BatchInv, Accounted
  <2> QED
    BY <1>4, <1>12, <2>2, <2>3, <2>4, <2>5, <2>6, <2>8 DEF BatchInv
<1>15. CASE ~Ends(o, Following) /\ pc' = "next" /\ UNCHANGED reply
  <2>1. ok = TRUE /\ ~o.isError /\ Following # Len(batch)
    BY <1>2, <1>8, <1>15 DEF Ends
  <2>2. UnderWay'
    <3>1. held' = Report(Len(batch'), TRUE, entries')
      BY <1>2, <1>3, <1>4, <2>1
    <3>2. Fits(held)'
      BY <1>3, <1>4 DEF Fits
    <3>3. Carried(entries)'
      BY <1>3, <1>13 DEF Carried
    <3>4. Len(entries') = Following /\ Len(entries') < Len(batch') /\ progress' = Len(entries')
          /\ here' = 1 .. Len(entries')
      <4>1. Len(entries') = Following /\ progress' = Following /\ here' = 1 .. Following
        BY <1>3, <1>4
      <4>2. Following < Len(batch)
        <5>1. PICK f : f = Following
          OBVIOUS
        <5>2. f \in Nat /\ f <= Len(batch) /\ f # Len(batch) /\ Len(batch) \in Nat
          BY <1>5, <1>6, <2>1, <5>1, Zenon
        <5> QED
          BY <5>1, <5>2
      <4> QED
        BY <1>4, <4>1, <4>2
    <3>5. \A i \in DOMAIN entries' : entries'[i].encodable /\ ~entries'[i].isError
      BY <1>3, <1>9, <1>11, <2>1
    <3> QED
      BY <1>15, <3>1, <3>2, <3>3, <3>4, <3>5 DEF UnderWay
  <2>3. ReplyHeld' /\ HeldToTheLimit' /\ CountersTellWhatRan' /\ StopsForAReason'
    BY <1>4, <1>15 DEF ReplyHeld, BatchInv, HeldToTheLimit, CountersTellWhatRan, StopsForAReason,
                        Answered
  <2>4. Outstanding' = Outstanding
    BY <1>4, <1>15 DEF Outstanding, Omitted, Answered
  <2>5. Accounted'
    <3>1. Elements(todo)' = Elements(todo) /\ Calls' = Calls
      BY <1>4 DEF Elements, Calls
    <3> QED
      BY <1>3, <1>4, <2>4, <3>1 DEF BatchInv, Accounted
  <2> QED
    BY <1>4, <1>12, <2>2, <2>3, <2>5 DEF BatchInv
<1> QED
  BY <1>3, <1>14, <1>15

\* The result of a call is left out and the call is named.
LEMMA FinishOmitsHolds ==
    ASSUME BatchInv, NEW o, Finish(o), ~CanCarry(o)
    PROVE  BatchInv'
<1>1. PICK kept : kept = Append(entries, EntryFor(Following, NameOf(Following), o))
  OBVIOUS
<1>2. PICK next, ok, kind :
         /\ ok = ~o.isError /\ next = Report(Len(batch), ok, kept)
         /\ kind = IF next.renders THEN "limit" ELSE "encode"
  OBVIOUS
<1>3. /\ ~Fits(next) /\ pc' = "replied"
      /\ reply' = FailReply(Len(batch), entries, kind, NameOf(Following), Following)
      /\ named' = [named EXCEPT ![batch[Following]] = @ + 1] /\ UNCHANGED <<entries, held>>
  BY <1>1, <1>2 DEF Finish, CanCarry
<1>4. /\ pc = "running" /\ o \in Invoke(NameOf(Following)) /\ last' = o
      /\ progress' = Following
      /\ UNCHANGED <<catalog, limits, plan, todo, batch, abandoned, found, ran, status,
                     here, spent>>
      /\ here = 1 .. Following
      /\ CanReport(Len(batch), entries, NameOf(Following), Following)
      /\ EntryFor(Following, NameOf(Following), o) \in Entry
      /\ Carried(kept) /\ Len(kept) = Following
      /\ GivenHeld' /\ (named' \in [Calls -> Nat] /\ pc' \in {"next", "replied"} => CallsHeld')
  BY <1>1, FinishKeeps
<1>5. /\ GivenHeld /\ CallsHeld /\ Carried(entries)
      /\ entries \in Seq(Entry) /\ Len(entries) \in Nat /\ DOMAIN entries = 1 .. Len(entries)
      /\ Following = Len(entries) + 1 /\ NameOf(Following) \in Names /\ Following \in DOMAIN batch
      /\ Following \in Nat /\ 1 <= Following /\ Following <= Len(batch)
      /\ Len(entries) < Len(batch) /\ \A i \in DOMAIN entries : entries[i].encodable /\ ~entries[i].isError
      /\ limits.bytes \in Nat
  BY <1>4, NextCall
<1>6. /\ DOMAIN batch = 1 .. Len(batch) /\ Len(batch) \in Nat
      /\ batch[Following] \in Calls /\ batch[Following] \in Elements(todo)
      /\ \A i, j \in DOMAIN batch : batch[i] = batch[j] => i = j
  BY <1>4, <1>5, BatchIsPrefix
<1>7. kind \in {"limit", "encode"}
  BY <1>2
<1>8. PICK n \in Nat : reply' = Failure(Len(batch), entries, kind, Following, n)
  BY <1>3, <1>5, FailReplyIs
<1>9. Fits(reply')
  <2>1. PICK name, index : name = NameOf(Following) /\ index = Following
    OBVIOUS
  <2>2. CanReport(Len(batch), entries, name, index) /\ name \in Names /\ entries \in Seq(Entry)
        /\ limits.bytes \in Nat
    BY <1>4, <1>5, <2>1
  <2>3. Fits(FailReply(Len(batch), entries, kind, name, index))
    BY <1>7, <2>2, Reportable
  <2> QED
    BY <1>3, <2>1, <2>3
<1>10. SaysFailed(reply', Len(batch), entries, kind, Following, n)
  <2>1. PICK index : index = Following
    OBVIOUS
  <2>2. SaysFailed(Failure(Len(batch), entries, kind, index, n), Len(batch), entries, kind, index, n)
    BY <1>5, <1>7, FailureIs
  <2> QED
    BY <1>8, <2>1, <2>2
<1>11. /\ reply'.kind = "report" /\ reply'.kept = entries
       /\ reply'.rep.ok \in BOOLEAN /\ ~reply'.rep.ok
       /\ reply'.rep.error = kind /\ reply'.rep.omitted.length = n
       /\ reply'.rep.omitted.index = Following
       /\ reply'.rep.attempted = Following /\ reply'.rep.reported = Len(entries)
       /\ reply'.rep.complete \in BOOLEAN
       /\ (reply'.rep.complete <=> Following = Len(batch) /\ Len(entries) = Following)
       /\ reply'.size = Sent(reply') /\ reply'.renders /\ reply'.size <= limits.bytes
  BY <1>9, <1>10 DEF Fits, SaysFailed
<1>12. CallsHeld'
  <2>1. named \in [Calls -> Nat]
    BY <1>5 DEF CallsHeld
  <2>2. named' \in [Calls -> Nat]
    BY <1>3, <1>6, <2>1
  <2> QED
    BY <1>3, <1>4, <2>2
<1>13. UnderWay'
  BY <1>3 DEF UnderWay
<1>14. Carried(entries)'
  <2>1. \A i : plan'[batch'[i]] = plan[batch[i]]
    BY <1>4
  <2> QED
    BY <1>3, <1>5, <2>1 DEF Carried, NameOf
<1>15. ReplyHeld'
  <2>1. Carried(reply.kept)'
    BY <1>3, <1>11, <1>14 DEF Carried
  <2>2. reply'.rep.attempted \in 1 .. Len(batch')
    BY <1>4, <1>5, <1>6, <1>11, Zenon
  <2> QED
    BY <1>7, <1>8, <1>11, <2>1, <2>2 DEF ReplyHeld
<1>16. HeldToTheLimit'
  BY <1>4, <1>11 DEF HeldToTheLimit, BatchInv, Answered
<1>17. CountersTellWhatRan'
  <2>1. \A i \in DOMAIN reply'.kept : reply'.kept[i].index = i /\ reply'.kept[i].name = NameOf(i)'
    BY <1>3, <1>11, <1>14 DEF Carried
  <2>2. ~reply'.rep.complete /\ Len(entries) # Len(batch)
    <3>1. PICK f : f = Following
      OBVIOUS
    <3>2. f = Len(entries) + 1 /\ Len(entries) < Len(batch) /\ Len(entries) \in Nat
          /\ Len(batch) \in Nat
      BY <1>5, <1>6, <3>1
    <3>3. f # Len(entries) /\ Len(entries) # Len(batch)
      BY <3>2
    <3>4. reply'.rep.complete => Len(entries) = Following
      BY <1>11
    <3> QED
      BY <3>1, <3>3, <3>4
  <2>3. here' = 1 .. reply'.rep.attempted /\ progress' = reply'.rep.attempted
    <3>1. here' = 1 .. Following /\ progress' = Following
      BY <1>4
    <3>2. reply'.rep.attempted = Following
      BY <1>11, ZenonT(60)
    <3> QED
      BY <3>1, <3>2
  <2>4. reply'.rep.reported = Len(reply'.kept) /\ reply'.rep.attempted = reply'.rep.reported + 1
    BY <1>5, <1>11
  <2>5. reply'.rep.error # "none"
    BY <1>7, <1>11
  <2>6. reply'.rep.reported # Len(batch')
    BY <1>4, <1>11, <2>2
  <2> QED
    BY <1>3, <1>11, <2>1, <2>2, <2>3, <2>4, <2>5, <2>6 DEF CountersTellWhatRan, Answered
<1>18. StopsForAReason'
  <2>1. SaysReported(next, Len(batch), ok, kept)
    <3>1. kept \in Seq(Entry)
      BY <1>4 DEF Carried
    <3> QED
      BY <1>2, <3>1, ReportIs
  <2>2. ~o.encodable \/ Sent(next) > limits.bytes
    <3>1. ~next.renders \/ ~(next.size <= limits.bytes)
      BY <1>3 DEF Fits
    <3>2. CASE ~next.renders
      <4>1. PICK i \in DOMAIN kept : ~kept[i].encodable
        BY <2>1, <3>2 DEF SaysReported, Encodable
      <4>2. i = Following \/ (i \in DOMAIN entries /\ kept[i] = entries[i])
        BY <1>1, <1>5
      <4>3. kept[Following] = EntryFor(Following, NameOf(Following), o) /\ Following \in Nat
        BY <1>1, <1>5
      <4>4. kept[Following].encodable = o.encodable
        BY <1>4, <1>5, <4>3, EntryTyped
      <4> QED
        BY <1>5, <4>1, <4>2, <4>4
    <3>3. CASE ~(next.size <= limits.bytes)
      <4>1. next.size \in Int /\ next.size = Sent(next)
        BY <2>1 DEF SaysReported
      <4> QED
        BY <1>5, <3>3, <4>1
    <3> QED
      BY <3>1, <3>2, <3>3
  <2>3. Report(Len(batch'), ~last'.isError,
               Append(reply'.kept, EntryFor(reply'.rep.attempted, NameOf(reply.rep.attempted)', last')))
          = next
    <3>1. NameOf(reply.rep.attempted)' = NameOf(Following)
      BY <1>4, <1>11 DEF NameOf
    <3> QED
      BY <1>1, <1>2, <1>4, <1>11, <3>1
  <2>4. reply'.rep.attempted >= 1 /\ reply'.rep.error # "none"
    <3>1. reply'.rep.attempted = Following /\ reply'.rep.error = kind
      BY <1>11
    <3> QED
      BY <1>5, <1>7, <3>1
  <2>5. ~last'.encodable \/ Sent(next) > limits'.bytes
    BY <1>4, <2>2
  <2> QED
    BY <2>3, <2>4, <2>5 DEF StopsForAReason
<1>19. Accounted'
  <2>1. Outstanding = {batch[i] : i \in here}
    BY <1>4 DEF Outstanding, Omitted, Answered
  <2>2. Outstanding' = {batch[i] : i \in here} \ {batch[Following]}
    BY <1>3, <1>4, <1>7, <1>11 DEF Outstanding, Omitted, Answered
  <2>3. batch[Following] \in Outstanding
    BY <1>4, <1>5, <2>1
  <2>4. named \in [Calls -> Nat]
    BY <1>5 DEF CallsHeld
  <2>5. \A c \in Calls : named'[c] = IF c = batch[Following] THEN named[c] + 1 ELSE named[c]
    BY <1>3, <1>6, <2>4
  <2>6. Elements(todo)' = Elements(todo) /\ Calls' = Calls
    BY <1>4 DEF Elements, Calls
  <2>7. ASSUME NEW c \in Calls
        PROVE  IF c \in Elements(todo)
               THEN /\ ran[c] = named'[c] + IF c \in Outstanding' THEN 1 ELSE 0
                    /\ status[c] \in {"open", "omitted"}
               ELSE /\ ran[c] \in {named'[c], named'[c] + 1}
                    /\ status[c] = "told" => ran[c] = named'[c] + 1
                    /\ status[c] = "omitted" => ran[c] = named'[c]
                    /\ status[c] = "open" => catalog.finalized.clash \/ catalog.finalized.duplicate
    <3>1. Accounted
      BY DEF BatchInv
    <3>2. CASE c = batch[Following]
      <4>1. c \in Elements(todo) /\ c \in Outstanding /\ c \notin Outstanding'
        BY <1>6, <2>2, <2>3, <3>2
      <4>2. ran[c] = named[c] + 1 /\ status[c] \in {"open", "omitted"}
        BY <3>1, <4>1 DEF Accounted
      <4> QED
        BY <2>4, <2>5, <3>2, <4>1, <4>2
    <3>3. CASE c # batch[Following]
      <4>1. named'[c] = named[c] /\ (c \in Outstanding' <=> c \in Outstanding)
        BY <2>1, <2>2, <2>5, <3>3
      <4> QED
        BY <3>1, <4>1 DEF Accounted
    <3> QED
      BY <3>2, <3>3
  <2> QED
    BY <1>4, <2>6, <2>7 DEF Accounted
<1> QED
  BY <1>4, <1>12, <1>13, <1>15, <1>16, <1>17, <1>18, <1>19 DEF BatchInv

\* The calls beyond the first of the list.
LEMMA BeyondIs ==
    ASSUME CallsHeld, NEW n \in Nat, n <= Len(todo)
    PROVE  /\ Beyond(n) \in Seq(Calls) /\ Distinct(Beyond(n))
           /\ Elements(Beyond(n)) = {todo[i] : i \in n + 1 .. Len(todo)}
<1>1. todo \in Seq(Calls) /\ Distinct(todo)
  BY DEF CallsHeld
<1>2. PICK m : m = Len(todo)
  OBVIOUS
<1>3. m \in Nat /\ DOMAIN todo = 1 .. m /\ \A i \in 1 .. m : todo[i] \in Calls
  BY <1>1, <1>2
<1>4. PICK s : s = Beyond(n)
  OBVIOUS
<1>5. s = SubSeq(todo, n + 1, m)
  BY <1>2, <1>4 DEF Beyond
<1>6. /\ s \in Seq(Calls) /\ Len(s) = m - n /\ DOMAIN s = 1 .. m - n
      /\ \A i \in 1 .. m - n : s[i] = todo[n + i] /\ n + i \in 1 .. m
  BY <1>1, <1>2, <1>3, <1>5
<1>7. Distinct(s)
  <2>1. ASSUME NEW i \in DOMAIN s, NEW j \in DOMAIN s, s[i] = s[j]
        PROVE  i = j
    <3>1. todo[n + i] = todo[n + j] /\ n + i \in DOMAIN todo /\ n + j \in DOMAIN todo
      BY <1>3, <1>6, <2>1
    <3>2. n + i = n + j
      BY <1>1, <3>1 DEF Distinct
    <3> QED
      BY <1>3, <1>6, <3>2
  <2> QED
    BY <2>1 DEF Distinct
<1>8. Elements(s) = {todo[i] : i \in n + 1 .. m}
  <2>1. ASSUME NEW i \in DOMAIN s
        PROVE  s[i] \in {todo[k] : k \in n + 1 .. m}
    <3>1. s[i] = todo[n + i] /\ n + i \in n + 1 .. m
      BY <1>3, <1>6
    <3> QED
      BY <3>1
  <2>2. ASSUME NEW k \in n + 1 .. m
        PROVE  todo[k] \in Elements(s)
    <3>1. k - n \in DOMAIN s /\ n + (k - n) = k
      BY <1>3, <1>6
    <3>2. s[k - n] = todo[k]
      BY <1>6, <3>1
    <3> QED
      BY <3>1, <3>2 DEF Elements
  <2> QED
    BY <2>1, <2>2 DEF Elements
<1> QED
  BY <1>2, <1>4, <1>6, <1>7, <1>8

\* The list is the calls of the request and the ones beyond them, apart.
LEMMA ListSplits ==
    ASSUME GivenHeld, CallsHeld, pc # "idle", NEW n \in 0 .. Len(batch)
    PROVE  /\ Beyond(n) \in Seq(Calls) /\ Distinct(Beyond(n))
           /\ Elements(todo) = {batch[i] : i \in 1 .. n} \cup Elements(Beyond(n))
           /\ {batch[i] : i \in 1 .. n} \cap Elements(Beyond(n)) = {}
<1>1. /\ DOMAIN batch = 1 .. Len(batch) /\ Len(batch) \in Nat
      /\ DOMAIN todo = 1 .. Len(todo) /\ Len(todo) \in Nat /\ Len(batch) <= Len(todo)
      /\ \A i \in DOMAIN batch : batch[i] = todo[i] /\ i \in DOMAIN todo
  BY BatchIsPrefix
<1>2. n \in Nat /\ n <= Len(batch) /\ n <= Len(todo)
  BY <1>1
<1>3. /\ Beyond(n) \in Seq(Calls) /\ Distinct(Beyond(n))
      /\ Elements(Beyond(n)) = {todo[i] : i \in n + 1 .. Len(todo)}
  BY <1>2, BeyondIs
<1>4. \A i \in 1 .. n : batch[i] = todo[i] /\ i \in DOMAIN todo /\ i \in DOMAIN batch
  BY <1>1, <1>2
<1>5. {batch[i] : i \in 1 .. n} = {todo[i] : i \in 1 .. n}
  BY <1>4
<1>6. Elements(todo) = {todo[i] : i \in 1 .. n} \cup {todo[i] : i \in n + 1 .. Len(todo)}
  <2>1. \A i : i \in DOMAIN todo <=> i \in 1 .. n \/ i \in n + 1 .. Len(todo)
    BY <1>1, <1>2
  <2> QED
    BY <2>1 DEF Elements
<1>7. {todo[i] : i \in 1 .. n} \cap {todo[i] : i \in n + 1 .. Len(todo)} = {}
  <2>1. ASSUME NEW i \in 1 .. n, NEW j \in n + 1 .. Len(todo), todo[i] = todo[j]
        PROVE  FALSE
    <3>1. i \in DOMAIN todo /\ j \in DOMAIN todo /\ i # j
      BY <1>1, <1>2
    <3> QED
      BY <2>1, <3>1 DEF CallsHeld, Distinct
  <2> QED
    BY <2>1
<1> QED
  BY <1>3, <1>5, <1>6, <1>7

\* What is known of a call between two requests, by the list and the words.
SettledAs(c, list, word) ==
    IF c \in Elements(list)
    THEN ran[c] = named[c] /\ word[c] \in {"open", "omitted"}
    ELSE /\ ran[c] \in {named[c], named[c] + 1}
         /\ word[c] = "told" => ran[c] = named[c] + 1
         /\ word[c] = "omitted" => ran[c] = named[c]
         /\ word[c] = "open" => catalog.finalized.clash \/ catalog.finalized.duplicate

LEMMA NothingMore ==
    ASSUME NEW m \in Nat
    PROVE  m + 0 = m
OBVIOUS

LEMMA WholeLength ==
    ASSUME NEW m \in Nat
    PROVE  m \in 0 .. m
OBVIOUS

\* What holds of a client with a new list and a new word of each call.
LEMMA NowIdle ==
    ASSUME BatchInv, pc' = "idle",
           UNCHANGED <<catalog, limits, plan, batch, abandoned, found, ran, named>>,
           todo' \in Seq(Calls), Distinct(todo'),
           status' \in [Calls -> {"open", "told", "omitted", "let go"}],
           \A c \in Calls : SettledAs(c, todo', status')
    PROVE  BatchInv'
<1>1. GivenHeld /\ CallsHeld /\ HeldToTheLimit
  BY DEF BatchInv
<1>2. Calls' = Calls
  BY DEF Calls
<1>3. GivenHeld' /\ CallsHeld'
  BY <1>1, <1>2 DEF GivenHeld, CallsHeld
<1>4. UnderWay' /\ ReplyHeld' /\ HeldToTheLimit' /\ CountersTellWhatRan' /\ StopsForAReason'
  BY <1>1 DEF UnderWay, ReplyHeld, HeldToTheLimit, CountersTellWhatRan, StopsForAReason, Answered
<1>5. Accounted'
  <2>1. Outstanding' = {}
    BY DEF Outstanding
  <2>2. ran \in [Calls -> Nat] /\ named \in [Calls -> Nat]
    BY <1>1 DEF CallsHeld
  <2>3. ASSUME NEW c \in Calls
        PROVE  named[c] + 0 = named[c]
    <3>1. named[c] \in Nat
      BY <2>2
    <3> QED
      BY <3>1, NothingMore
  <2>4. Elements(todo)' = Elements(todo')
    BY DEF Elements
  <2> QED
    BY <1>2, <2>1, <2>3, <2>4 DEF Accounted, SettledAs
<1> QED
  BY <1>3, <1>4, <1>5 DEF BatchInv

\* What ran of the request, as the reply tells it.
LEMMA RanAsReplied ==
    ASSUME BatchInv, pc = "replied"
    PROVE  /\ reply.kind = "message" => Outstanding = {}
           /\ Outstanding \subseteq Elements(batch)
<1>1. GivenHeld /\ CallsHeld /\ ReplyHeld /\ CountersTellWhatRan
  BY DEF BatchInv
<1>2. DOMAIN batch = 1 .. Len(batch) /\ Len(batch) \in Nat
  BY <1>1, BatchIsPrefix
<1>3. CASE reply.kind = "message"
  BY <1>1, <1>3 DEF CountersTellWhatRan, Outstanding
<1>4. CASE reply.kind = "report"
  <2>1. here = 1 .. reply.rep.attempted /\ reply.rep.attempted \in 1 .. Len(batch)
    BY <1>1, <1>4 DEF CountersTellWhatRan, ReplyHeld, Answered
  <2>2. here \subseteq DOMAIN batch
    BY <1>2, <2>1
  <2> QED
    BY <1>4, <2>2 DEF Outstanding, Elements
<1> QED
  BY <1>1, <1>3, <1>4 DEF ReplyHeld

\* The client gave the request up and lets its calls go.
LEMMA LetGoHolds ==
    ASSUME BatchInv, pc = "replied", pc' = "idle",
           UNCHANGED <<catalog, limits, plan, batch, abandoned, found, ran, named>>,
           todo' = Beyond(Len(batch)),
           status' = [c \in DOMAIN status |->
                        IF c \in Elements(batch) THEN "let go" ELSE status[c]]
    PROVE  BatchInv'
<1>1. GivenHeld /\ CallsHeld /\ Accounted
  BY DEF BatchInv
<1>2. DOMAIN batch = 1 .. Len(batch) /\ Len(batch) \in Nat
  BY <1>1, BatchIsPrefix
<1>3. Elements(batch) = {batch[i] : i \in 1 .. Len(batch)}
  BY <1>2 DEF Elements
<1>4. /\ todo' \in Seq(Calls) /\ Distinct(todo')
      /\ Elements(todo) = Elements(batch) \cup Elements(todo')
      /\ Elements(batch) \cap Elements(todo') = {}
  <2>1. Len(batch) \in 0 .. Len(batch)
    BY <1>2, WholeLength
  <2> QED
    BY <1>1, <1>3, <2>1, ListSplits
<1>5. Outstanding \subseteq Elements(batch)
  BY RanAsReplied
<1>6. /\ status \in [Calls -> {"open", "told", "omitted", "let go"}]
      /\ ran \in [Calls -> Nat] /\ named \in [Calls -> Nat]
  BY <1>1 DEF CallsHeld
<1>7. /\ status' \in [Calls -> {"open", "told", "omitted", "let go"}]
      /\ \A c \in Calls : status'[c] = IF c \in Elements(batch) THEN "let go" ELSE status[c]
  BY <1>6
<1>8. ASSUME NEW c \in Calls
      PROVE  SettledAs(c, todo', status')
  <2>1. ran[c] \in Nat /\ named[c] \in Nat
    BY <1>6
  <2>2. CASE c \in Elements(batch)
    <3>1. c \notin Elements(todo') /\ c \in Elements(todo) /\ status'[c] = "let go"
      BY <1>4, <1>7, <2>2
    <3>2. ran[c] = named[c] + 0 \/ ran[c] = named[c] + 1
      BY <1>1, <3>1 DEF Accounted
    <3>3. ran[c] = named[c] \/ ran[c] = named[c] + 1
      BY <2>1, <3>2, NothingMore
    <3> QED
      BY <3>1, <3>3 DEF SettledAs
  <2>3. CASE c \notin Elements(batch)
    <3>1. /\ c \in Elements(todo') <=> c \in Elements(todo)
          /\ c \notin Outstanding /\ status'[c] = status[c]
      BY <1>4, <1>5, <1>7, <2>3
    <3>2. CASE c \in Elements(todo)
      <4>1. ran[c] = named[c] + 0 /\ status[c] \in {"open", "omitted"}
        BY <1>1, <3>1, <3>2 DEF Accounted
      <4>2. ran[c] = named[c] /\ status'[c] \in {"open", "omitted"}
        BY <2>1, <3>1, <4>1, NothingMore
      <4> QED
        BY <3>1, <3>2, <4>2 DEF SettledAs
    <3>3. CASE c \notin Elements(todo)
      BY <1>1, <3>1, <3>3 DEF Accounted, SettledAs
    <3> QED
      BY <3>2, <3>3
  <2> QED
    BY <2>2, <2>3
<1> QED
  BY <1>4, <1>7, <1>8, NowIdle

\* The batch was refused: nothing of it ran.
LEMMA RefusedHolds ==
    ASSUME BatchInv, pc = "replied", reply.kind = "message", pc' = "idle",
           UNCHANGED <<catalog, limits, plan, batch, abandoned, found, ran, named, status>>,
           todo' = IF catalog.finalized.clash \/ catalog.finalized.duplicate THEN <<>> ELSE todo
    PROVE  BatchInv'
<1>1. GivenHeld /\ CallsHeld /\ Accounted /\ Outstanding = {}
  BY RanAsReplied DEF BatchInv
<1>2. /\ todo' \in Seq(Calls) /\ Distinct(todo')
      /\ status' \in [Calls -> {"open", "told", "omitted", "let go"}]
      /\ ran \in [Calls -> Nat] /\ named \in [Calls -> Nat]
  <2>1. /\ todo \in Seq(Calls) /\ Distinct(todo) /\ ran \in [Calls -> Nat]
        /\ named \in [Calls -> Nat]
        /\ status \in [Calls -> {"open", "told", "omitted", "let go"}]
    BY <1>1 DEF CallsHeld
  <2>2. <<>> \in Seq(Calls) /\ Distinct(<<>>)
    BY DEF Distinct
  <2> QED
    BY <2>1, <2>2
<1>3. \/ todo' = todo
      \/ Elements(todo') = {} /\ (catalog.finalized.clash \/ catalog.finalized.duplicate)
  BY DEF Elements
<1>4. ASSUME NEW c \in Calls
      PROVE  SettledAs(c, todo', status')
  <2>1. ran[c] \in Nat /\ named[c] \in Nat /\ status'[c] = status[c]
    BY <1>2
  <2>2. CASE c \in Elements(todo)
    <3>1. ran[c] = named[c] + 0 /\ status[c] \in {"open", "omitted"}
      BY <1>1, <2>2 DEF Accounted
    <3>2. ran[c] = named[c] /\ status'[c] \in {"open", "omitted"}
      BY <2>1, <3>1, NothingMore
    <3>3. c \notin Elements(todo') => catalog.finalized.clash \/ catalog.finalized.duplicate
      BY <1>3, <2>2
    <3> QED
      BY <3>2, <3>3 DEF SettledAs
  <2>3. CASE c \notin Elements(todo)
    <3>1. c \notin Elements(todo')
      BY <1>3, <2>3
    <3> QED
      BY <1>1, <2>1, <2>3, <3>1 DEF Accounted, SettledAs
  <2> QED
    BY <2>2, <2>3
<1> QED
  BY <1>2, <1>4, NowIdle

\* The calls a report tells of: the ones with a record and the one it names.
LEMMA ReportSplits ==
    ASSUME BatchInv, Answered,
           NEW told, told = {batch[reply.kept[i].index] : i \in DOMAIN reply.kept}
    PROVE  /\ told \cap Omitted = {} /\ Outstanding = told
           /\ told \cup Omitted = {batch[i] : i \in 1 .. reply.rep.attempted}
           /\ reply.rep.attempted \in 0 .. Len(batch)
           /\ reply.rep.error # "none" => Omitted = {batch[reply.rep.omitted.index]}
           /\ reply.rep.error = "none" => Omitted = {}
<1>1. /\ GivenHeld /\ CallsHeld /\ ReplyHeld /\ CountersTellWhatRan
      /\ pc = "replied" /\ reply.kind = "report"
  BY DEF BatchInv, Answered
<1>2. /\ DOMAIN batch = 1 .. Len(batch) /\ Len(batch) \in Nat
      /\ \A i, j \in DOMAIN batch : batch[i] = batch[j] => i = j
  BY <1>1, BatchIsPrefix
<1>3. PICK a, m : a = reply.rep.attempted /\ m = reply.rep.reported
  OBVIOUS
<1>4. a \in 1 .. Len(batch) /\ Carried(reply.kept)
  BY <1>1, <1>3 DEF ReplyHeld
<1>5. /\ here = 1 .. a /\ m = Len(reply.kept)
      /\ IF reply.rep.error = "none" THEN a = m ELSE a = m + 1 /\ reply.rep.omitted.index = a
  BY <1>1, <1>3 DEF CountersTellWhatRan, Answered
<1>6. /\ DOMAIN reply.kept = 1 .. m /\ m \in Nat
      /\ \A i \in DOMAIN reply.kept : reply.kept[i].index = i
  BY <1>4, <1>5 DEF Carried
<1>7. told = {batch[i] : i \in 1 .. m}
  BY <1>6
<1>8. Omitted = IF reply.rep.error # "none" THEN {batch[reply.rep.omitted.index]} ELSE {}
  BY DEF Omitted
<1>9. Outstanding = {batch[i] : i \in 1 .. a} \ Omitted
  BY <1>1, <1>5 DEF Outstanding
<1>10. CASE reply.rep.error = "none"
  <2>1. a = m /\ Omitted = {}
    BY <1>5, <1>8, <1>10
  <2>2. told = {batch[i] : i \in 1 .. a} /\ Outstanding = told
    BY <1>7, <1>9, <2>1
  <2>3. a \in 0 .. Len(batch)
    BY <1>2, <1>4
  <2> QED
    BY <1>3, <1>10, <2>1, <2>2, <2>3
<1>11. CASE reply.rep.error # "none"
  <2>1. a = m + 1 /\ Omitted = {batch[a]}
    BY <1>5, <1>8, <1>11
  <2>2. \A i : i \in 1 .. a <=> i \in 1 .. m \/ i = a
    BY <1>6, <2>1
  <2>3. \A i \in 1 .. m : i \in DOMAIN batch /\ a \in DOMAIN batch /\ i # a
    BY <1>2, <1>4, <1>6, <2>1
  <2>4. told \cup Omitted = {batch[i] : i \in 1 .. a}
    BY <1>7, <2>1, <2>2
  <2>5. told \cap Omitted = {}
    BY <1>2, <1>7, <2>1, <2>3
  <2>6. a \in 0 .. Len(batch)
    BY <1>2, <1>4
  <2> QED
    BY <1>3, <1>8, <1>9, <1>11, <2>4, <2>5, <2>6
<1> QED
  BY <1>10, <1>11

\* The calls from the attempted ones on, after the one made again, if one is.
LEMMA ElementsTyped ==
    ASSUME NEW S, NEW list \in Seq(S)
    PROVE  Elements(list) \subseteq S
BY DEF Elements

\* A call put before others it is not among leaves them different.
LEMMA GoneOnWith ==
    ASSUME NEW S, NEW rest \in Seq(S), Distinct(rest), NEW c \in S, c \notin Elements(rest),
           NEW list, list = <<c>> \o rest
    PROVE  list \in Seq(S) /\ Distinct(list) /\ Elements(list) = {c} \cup Elements(rest)
<1>1. PICK m : m = Len(rest)
  OBVIOUS
<1>2. m \in Nat /\ DOMAIN rest = 1 .. m
  BY <1>1
<1>3. /\ list \in Seq(S) /\ DOMAIN list = 1 .. m + 1 /\ list[1] = c
      /\ \A i \in 1 .. m : list[i + 1] = rest[i]
  BY <1>1, <1>2
<1>4. \A i \in DOMAIN list : i = 1 \/ (i - 1 \in DOMAIN rest /\ list[i] = rest[i - 1])
  BY <1>2, <1>3
<1>5. \A i \in DOMAIN rest : i + 1 \in DOMAIN list /\ list[i + 1] = rest[i]
  BY <1>2, <1>3
<1>6. Distinct(list)
  <2>1. ASSUME NEW i \in DOMAIN list, NEW j \in DOMAIN list, list[i] = list[j]
        PROVE  i = j
    <3>1. CASE i = 1 /\ j = 1
      BY <3>1
    <3>2. CASE i = 1 /\ j # 1
      <4>1. list[j] \in Elements(rest)
        BY <1>4, <3>2 DEF Elements
      <4> QED
        BY <1>3, <2>1, <3>2, <4>1
    <3>3. CASE i # 1 /\ j = 1
      <4>1. list[i] \in Elements(rest)
        BY <1>4, <3>3 DEF Elements
      <4> QED
        BY <1>3, <2>1, <3>3, <4>1
    <3>4. CASE i # 1 /\ j # 1
      <4>1. /\ i - 1 \in DOMAIN rest /\ j - 1 \in DOMAIN rest /\ rest[i - 1] = rest[j - 1]
        BY <1>4, <2>1, <3>4
      <4>2. i - 1 = j - 1
        BY <4>1 DEF Distinct
      <4>3. i \in Nat /\ j \in Nat
        BY <1>2, <1>3
      <4> QED
        BY <4>2, <4>3
    <3> QED
      BY <3>1, <3>2, <3>3, <3>4
  <2> QED
    BY <2>1 DEF Distinct
<1>7. Elements(list) = {c} \cup Elements(rest)
  <2>1. 1 \in DOMAIN list
    BY <1>2, <1>3
  <2>2. \A x \in Elements(list) : x = c \/ x \in Elements(rest)
    BY <1>3, <1>4 DEF Elements
  <2>3. c \in Elements(list)
    BY <1>3, <2>1 DEF Elements
  <2>4. \A x \in Elements(rest) : x \in Elements(list)
    BY <1>5 DEF Elements
  <2> QED
    BY <2>2, <2>3, <2>4
<1> QED
  BY <1>3, <1>6, <1>7

\* The client reads what was reported and goes on from there.
LEMMA ReadReportHolds ==
    ASSUME BatchInv, Answered, NEW again \in BOOLEAN, ReadReport(again), pc' = "idle",
           UNCHANGED <<catalog, limits, plan, batch, abandoned, found, ran, named>>
    PROVE  BatchInv'
<1>1. GivenHeld /\ CallsHeld /\ Accounted /\ pc = "replied"
  BY DEF BatchInv, Answered
<1>2. PICK told, a : /\ told = {batch[reply.kept[i].index] : i \in DOMAIN reply.kept}
                     /\ a = reply.rep.attempted
  OBVIOUS
<1>3. /\ told \cap Omitted = {} /\ Outstanding = told
      /\ told \cup Omitted = {batch[i] : i \in 1 .. a} /\ a \in 0 .. Len(batch)
      /\ reply.rep.error # "none" => Omitted = {batch[reply.rep.omitted.index]}
      /\ reply.rep.error = "none" => Omitted = {}
  BY <1>2, ReportSplits
<1>4. PICK rest : rest = Beyond(a)
  OBVIOUS
<1>5. /\ rest \in Seq(Calls) /\ Distinct(rest)
      /\ Elements(todo) = told \cup Omitted \cup Elements(rest)
      /\ (told \cup Omitted) \cap Elements(rest) = {}
  BY <1>1, <1>3, <1>4, ListSplits
<1>6. /\ again => Omitted # {}
      /\ todo' = (IF again THEN <<batch[reply.rep.omitted.index]>> ELSE <<>>) \o rest
      /\ status' = [c \in DOMAIN status |->
                      IF c \in told THEN "told" ELSE IF c \in Omitted THEN "omitted" ELSE status[c]]
  <2>1. Omitted = IF reply.rep.error = "none" THEN {} ELSE {batch[reply.rep.omitted.index]}
    BY <1>3
  <2> QED
    BY <1>2, <1>4, <2>1 DEF ReadReport
<1>7. /\ status \in [Calls -> {"open", "told", "omitted", "let go"}]
      /\ ran \in [Calls -> Nat] /\ named \in [Calls -> Nat]
      /\ todo \in Seq(Calls)
  BY <1>1 DEF CallsHeld
<1>8. /\ status' \in [Calls -> {"open", "told", "omitted", "let go"}]
      /\ \A c \in Calls : status'[c] = IF c \in told THEN "told"
                                       ELSE IF c \in Omitted THEN "omitted" ELSE status[c]
  BY <1>6, <1>7
<1>9. /\ todo' \in Seq(Calls) /\ Distinct(todo')
      /\ Elements(rest) \subseteq Elements(todo')
      /\ Elements(todo') \subseteq Elements(rest) \cup Omitted
  <2>1. CASE again
    <3>1. PICK c : c = batch[reply.rep.omitted.index]
      OBVIOUS
    <3>2. Omitted = {c} /\ todo' = <<c>> \o rest
      BY <1>3, <1>6, <2>1, <3>1
    <3>3. c \in Elements(todo) /\ c \notin Elements(rest)
      BY <1>5, <3>2
    <3>4. c \in Calls
      BY <1>7, <3>3, ElementsTyped
    <3>5. PICK list : list = todo'
      OBVIOUS
    <3>6. /\ rest \in Seq(Calls) /\ Distinct(rest) /\ c \in Calls /\ c \notin Elements(rest)
          /\ list = <<c>> \o rest
      BY <1>5, <3>2, <3>3, <3>4, <3>5
    <3>7. list \in Seq(Calls) /\ Distinct(list) /\ Elements(list) = {c} \cup Elements(rest)
      BY <3>6, GoneOnWith
    <3> QED
      BY <3>2, <3>5, <3>7
  <2>2. CASE ~again
    <3>1. todo' = <<>> \o rest
      BY <1>6, <2>2
    <3>2. todo' = rest
      BY <1>5, <3>1
    <3> QED
      BY <1>5, <3>2
  <2> QED
    BY <2>1, <2>2
<1>10. ASSUME NEW c \in Calls
       PROVE  SettledAs(c, todo', status')
  <2>1. ran[c] \in Nat /\ named[c] \in Nat
    BY <1>7
  <2>2. CASE c \in told
    <3>1. c \in Elements(todo) /\ c \in Outstanding /\ c \notin Elements(todo')
          /\ status'[c] = "told"
      BY <1>3, <1>5, <1>8, <1>9, <2>2
    <3>2. ran[c] = named[c] + 1
      BY <1>1, <3>1 DEF Accounted
    <3> QED
      BY <3>1, <3>2 DEF SettledAs
  <2>3. CASE c \in Omitted
    <3>1. c \in Elements(todo) /\ c \notin Outstanding /\ status'[c] = "omitted"
      BY <1>3, <1>5, <1>8, <2>3
    <3>2. ran[c] = named[c] + 0
      BY <1>1, <3>1 DEF Accounted
    <3>3. ran[c] = named[c]
      BY <2>1, <3>2, NothingMore
    <3> QED
      BY <3>1, <3>3 DEF SettledAs
  <2>4. CASE c \notin told /\ c \notin Omitted
    <3>1. /\ c \in Elements(todo') <=> c \in Elements(todo)
          /\ c \notin Outstanding /\ status'[c] = status[c]
      BY <1>3, <1>5, <1>8, <1>9, <2>4
    <3>2. CASE c \in Elements(todo)
      <4>1. ran[c] = named[c] + 0 /\ status[c] \in {"open", "omitted"}
        BY <1>1, <3>1, <3>2 DEF Accounted
      <4>2. ran[c] = named[c] /\ status'[c] \in {"open", "omitted"}
        BY <2>1, <3>1, <4>1, NothingMore
      <4> QED
        BY <3>1, <3>2, <4>2 DEF SettledAs
    <3>3. CASE c \notin Elements(todo)
      BY <1>1, <3>1, <3>3 DEF Accounted, SettledAs
    <3> QED
      BY <3>2, <3>3
  <2> QED
    BY <2>2, <2>3, <2>4
<1> QED
  BY <1>8, <1>9, <1>10, NowIdle

\* Every way the client reads a reply keeps the invariant.
LEMMA ReceiveHolds ==
    ASSUME BatchInv, NEW again \in BOOLEAN, Receive(again)
    PROVE  BatchInv'
<1>1. /\ pc = "replied" /\ pc' = "idle"
      /\ UNCHANGED <<catalog, limits, plan, batch, abandoned, found, ran, named>>
  BY DEF Receive
<1>2. \/ /\ todo' = Beyond(Len(batch))
         /\ status' = [c \in DOMAIN status |->
                         IF c \in Elements(batch) THEN "let go" ELSE status[c]]
      \/ reply.kind = "report" /\ ReadReport(again)
      \/ /\ reply.kind = "message"
         /\ todo' = IF catalog.finalized.clash \/ catalog.finalized.duplicate THEN <<>> ELSE todo
         /\ UNCHANGED status
  BY DEF Receive
<1>3. reply.kind = "report" => Answered
  BY <1>1 DEF Answered
<1> QED
  BY <1>1, <1>2, <1>3, LetGoHolds, ReadReportHolds, RefusedHolds

\* Nothing changes the invariant when nothing changes.
LEMMA StutterHolds ==
    ASSUME BatchInv, UNCHANGED vars
    PROVE  BatchInv'
<1>1. UNCHANGED <<catalog, limits, plan, todo, pc, batch, entries, held, reply, progress,
                  abandoned, found, ran, named, status, here, last, spent>>
  BY DEF vars
<1>2. GivenHeld' /\ CallsHeld'
  BY <1>1 DEF BatchInv, GivenHeld, CallsHeld, Calls, Distinct
<1>3. UnderWay'
  <2>1. UnderWay
    BY DEF BatchInv
  <2>2. /\ Fits(held)' <=> Fits(held)
        /\ Carried(entries)' <=> Carried(entries)
        /\ Following' = Following
        /\ CanReport(Len(batch), entries, NameOf(Following), Following)'
                <=> CanReport(Len(batch), entries, NameOf(Following), Following)
    BY <1>1, BatchUnchanged
  <2> QED
    BY <1>1, <2>1, <2>2 DEF UnderWay
<1>4. ReplyHeld' /\ HeldToTheLimit' /\ CountersTellWhatRan' /\ StopsForAReason'
  BY <1>1 DEF BatchInv, ReplyHeld, HeldToTheLimit, CountersTellWhatRan, StopsForAReason, Answered,
              Carried, NameOf
<1>5. Accounted'
  BY <1>1 DEF BatchInv, Accounted, Outstanding, Omitted, Answered, Calls, Elements
<1> QED
  BY <1>2, <1>3, <1>4, <1>5 DEF BatchInv

\* Every step keeps the invariant.
LEMMA NextHolds ==
    ASSUME BatchInv, [Next]_vars
    PROVE  BatchInv'
<1>1. ASSUME Searching PROVE BatchInv'
  BY <1>1, SearchToolsHolds DEF Searching
<1>2. ASSUME Asking PROVE BatchInv'
  BY <1>2, AskHolds DEF Asking
<1>3. ASSUME Finishing PROVE BatchInv'
  BY <1>3, FinishCarriesHolds, FinishOmitsHolds DEF Finishing
<1>4. ASSUME NEW again \in BOOLEAN, Receive(again) PROVE BatchInv'
  BY <1>4, ReceiveHolds
<1> QED
  BY <1>1, <1>2, <1>3, <1>4, StartHolds, StopForRoomHolds, AbandonHolds, StutterHolds DEF Next

(***************************************************************************)
(* The search. The entries a query matches are ranked one after the other, *)
(* and what is sent is as many of the first of them as fit.                *)
(***************************************************************************)

\* The terms of a query are finitely many.
LEMMA TermsTyped ==
    ASSUME NEW S, NEW query \in Seq(S)
    PROVE  IsFiniteSet(Elements(QueryTerms(query)))
<1> DEFINE first == {i \in DOMAIN query : \A j \in 1 .. i - 1 : query[j] # query[i]}
           At(k) == CHOOSE i \in first : Cardinality({j \in first : j <= i}) = k
           terms == [k \in 1 .. Cardinality(first) |-> query[At(k)]]
           least == Least(Len(terms), MaxTerms)
<1>1. IsFiniteSet(first) /\ Cardinality(first) \in Nat
  <2>1. first \subseteq 1 .. Len(query) /\ Len(query) \in Nat
    OBVIOUS
  <2>2. IsFiniteSet(1 .. Len(query))
    BY <2>1, FS_Interval
  <2> HIDE DEF first
  <2> QED
    BY <2>1, <2>2, FS_Subset, FS_CardinalityType
<1>2. DistinctTerms(query) = terms
  BY DEF DistinctTerms
<1>3. terms \in [1 .. Cardinality(first) -> {query[At(k)] : k \in 1 .. Cardinality(first)}]
  OBVIOUS
<1>4. QueryTerms(query) = SubSeq(terms, 1, least)
  BY <1>2 DEF QueryTerms
<1>5. MaxTerms \in Nat
  BY InputsAssumption
<1> HIDE DEF first, terms
<1>6. Len(terms) = Cardinality(first)
  <2> HIDE DEF At
  <2>1. PICK T : terms \in [1 .. Cardinality(first) -> T]
    BY <1>3
  <2> QED
    BY <1>1, <2>1, FunctionSequence
<1>7. least \in Nat
  BY <1>1, <1>5, <1>6 DEF Least
<1> HIDE DEF least
<1>8. DOMAIN SubSeq(terms, 1, least) = 1 .. least
  <2>1. PICK T : terms \in [1 .. Cardinality(first) -> T]
    BY <1>3
  <2>2. terms \in Seq(T)
    BY <1>1, <2>1, FunctionSequence
  <2>3. least <= Len(terms)
    BY <1>1, <1>5, <1>6 DEF Least, least
  <2> QED
    BY <1>7, <2>2, <2>3
<1>9. PICK q : q = QueryTerms(query)
  OBVIOUS
<1>10. DOMAIN q = 1 .. least
  BY <1>4, <1>8, <1>9
<1>11. IsFiniteSet(1 .. least)
  BY <1>7, FS_Interval
<1>12. IsFiniteSet(Elements(q))
  <2> DEFINE f == [i \in 1 .. least |-> q[i]]
  <2>1. f \in Surjection(1 .. least, Elements(q))
    BY <1>10 DEF Surjection, Elements
  <2> HIDE DEF f
  <2> QED
    BY <1>11, <2>1, FS_Surjection
<1> QED
  BY <1>9, <1>12

\* The score of an entry is a number.
LEMMA ScoreTyped ==
    ASSUME NEW terms, IsFiniteSet(Elements(terms)), NEW name
    PROVE  Score(terms, name) \in Nat
<1> DEFINE Hits(text) == Cardinality(Elements(terms) \cap text)
           exact == IF terms # <<>> /\ terms = DistinctTerms(Texts[name].terms) THEN 8 ELSE 0
<1>1. ASSUME NEW text PROVE Hits(text) \in Nat
  <2>1. Elements(terms) \cap text \subseteq Elements(terms)
    OBVIOUS
  <2> QED
    BY <2>1, FS_Subset, FS_CardinalityType
<1>2. Score(terms, name) = exact + 4 * Hits(Elements(Texts[name].terms)) + 3 * Hits(Texts[name].title)
                             + 2 * Hits(Texts[name].description) + Hits(Texts[name].schema)
  BY DEF Score
<1>3. /\ Hits(Elements(Texts[name].terms)) \in Nat /\ Hits(Texts[name].title) \in Nat
      /\ Hits(Texts[name].description) \in Nat /\ Hits(Texts[name].schema) \in Nat
  BY <1>1
<1>4. exact \in Nat
  OBVIOUS
<1> HIDE DEF Hits, exact
<1> QED
  BY <1>2, <1>3, <1>4

\* A sequence of all the elements of a set, in a strict order of them.
OrdersAll(s, M, R) ==
    /\ s \in Seq(M)
    /\ \A i \in M : \E k \in 1 .. Len(s) : s[k] = i
    /\ \A k, l \in 1 .. Len(s) : k < l => <<s[k], s[l]>> \in R

\* A finite set with a strict order of all its elements is a sequence of them.
LEMMA Ranking ==
    ASSUME NEW M, IsFiniteSet(M), NEW R,
           \A i \in M : <<i, i>> \notin R,
           \A i, j \in M : i # j => <<i, j>> \in R \/ <<j, i>> \in R,
           \A i, j, k \in M : <<i, j>> \in R /\ <<j, k>> \in R => <<i, k>> \in R,
           NEW s, s = [k \in 1 .. Cardinality(M) |-> s[k]],
           \A k \in 1 .. Cardinality(M) :
              (\E i \in M : Cardinality({j \in M : <<j, i>> \in R}) + 1 = k) =>
                 s[k] \in M /\ Cardinality({j \in M : <<j, s[k]>> \in R}) + 1 = k
    PROVE  OrdersAll(s, M, R)
<1> DEFINE Below(i) == {j \in M : <<j, i>> \in R}
           n == Cardinality(M)
           place == [i \in M |-> Cardinality(Below(i)) + 1]
<1>1. n \in Nat
  BY FS_CardinalityType
<1>2. ASSUME NEW i \in M
      PROVE  /\ IsFiniteSet(Below(i)) /\ Cardinality(Below(i)) \in Nat
             /\ Cardinality(Below(i)) + 1 \in 1 .. n
  <2>1. Below(i) \subseteq M \ {i}
    OBVIOUS
  <2>2. IsFiniteSet(M \ {i}) /\ Cardinality(M \ {i}) = n - 1
    BY FS_RemoveElement
  <2>3. /\ IsFiniteSet(Below(i)) /\ Cardinality(Below(i)) \in Nat
        /\ Cardinality(Below(i)) <= Cardinality(M \ {i})
    <3> HIDE DEF Below
    <3> QED
      BY <2>1, <2>2, FS_Subset, FS_CardinalityType
  <2> HIDE DEF Below, n
  <2> QED
    BY <1>1, <2>2, <2>3
<1>3. ASSUME NEW i \in M, NEW j \in M, <<i, j>> \in R
      PROVE  Cardinality(Below(i)) < Cardinality(Below(j))
  <2>1. Below(i) \subseteq Below(j) /\ i \in Below(j) /\ i \notin Below(i)
    BY <1>3
  <2>2. /\ IsFiniteSet(Below(i)) /\ Cardinality(Below(i)) \in Nat
        /\ IsFiniteSet(Below(j)) /\ Cardinality(Below(j)) \in Nat
    BY <1>2
  <2>3. Cardinality(Below(i)) <= Cardinality(Below(j)) /\ Cardinality(Below(j)) # Cardinality(Below(i))
    <3> HIDE DEF Below
    <3> QED
      BY <2>1, <2>2, FS_Subset
  <2> HIDE DEF Below
  <2> QED
    BY <2>2, <2>3
<1>4. place \in [M -> 1 .. n]
  BY <1>2
<1>5. ASSUME NEW i \in M, NEW j \in M, <<i, j>> \in R
      PROVE  place[i] < place[j]
  <2>1. place[i] = Cardinality(Below(i)) + 1 /\ place[j] = Cardinality(Below(j)) + 1
    OBVIOUS
  <2>2. Cardinality(Below(i)) \in Nat /\ Cardinality(Below(j)) \in Nat
    BY <1>2
  <2> HIDE DEF place, Below
  <2> QED
    BY <1>3, <1>5, <2>1, <2>2
<1>6. \A k \in 1 .. n : (\E i \in M : place[i] = k) => s[k] \in M /\ place[s[k]] = k
  OBVIOUS
<1>7. DOMAIN s = 1 .. n
  OBVIOUS
<1> HIDE DEF place, Below, n
<1>8. ASSUME NEW i \in M, NEW j \in M, place[i] = place[j]
      PROVE  i = j
  <2>1. place[i] \in Nat /\ place[j] \in Nat
    BY <1>1, <1>4
  <2>2. ~(place[i] < place[j]) /\ ~(place[j] < place[i])
    BY <1>8, <2>1
  <2>3. <<i, j>> \notin R /\ <<j, i>> \notin R
    BY <1>5, <2>2
  <2> QED
    BY <2>3
<1>9. place \in Surjection(M, 1 .. n)
  <2>1. place \in Injection(M, 1 .. n)
    BY <1>4, <1>8 DEF Injection, IsInjective
  <2>2. IsFiniteSet(1 .. n) /\ Cardinality(1 .. n) = n
    BY <1>1, FS_Interval
  <2> QED
    BY <2>1, <2>2, FS_Injection DEF n
<1>10. ASSUME NEW k \in 1 .. n
       PROVE  s[k] \in M /\ place[s[k]] = k
  <2>1. PICK i \in M : place[i] = k
    BY <1>9 DEF Surjection
  <2> QED
    BY <1>6, <2>1
<1>11. s \in Seq(M) /\ Len(s) = n
  <2>1. s \in [1 .. n -> M]
    BY <1>7, <1>10 DEF n
  <2> QED
    BY <1>1, <2>1, FunctionSequence
<1>12. ASSUME NEW i \in M
       PROVE  \E k \in 1 .. Len(s) : s[k] = i
  <2>1. place[i] \in 1 .. n
    BY <1>4
  <2>2. s[place[i]] \in M /\ place[s[place[i]]] = place[i]
    BY <1>10, <2>1
  <2>3. s[place[i]] = i
    BY <1>8, <2>2
  <2> QED
    BY <1>11, <2>1, <2>3
<1>13. ASSUME NEW k \in 1 .. Len(s), NEW l \in 1 .. Len(s), k < l
       PROVE  <<s[k], s[l]>> \in R
  <2>1. s[k] \in M /\ s[l] \in M /\ place[s[k]] = k /\ place[s[l]] = l
    BY <1>10, <1>11
  <2>2. s[k] # s[l]
    BY <1>13, <2>1
  <2>3. <<s[l], s[k]>> \notin R
    <3>1. <<s[l], s[k]>> \in R => place[s[l]] < place[s[k]]
      BY <1>5, <2>1
    <3>2. k \in Int /\ l \in Int
      BY <1>1, <1>11
    <3> QED
      BY <1>13, <2>1, <3>1, <3>2
  <2> QED
    BY <2>1, <2>2, <2>3
<1> QED
  BY <1>11, <1>12, <1>13 DEF OrdersAll

Value(list, query, i) == Score(QueryTerms(query), list[i])

Matching(list, query) ==
    {i \in DOMAIN list : QueryTerms(query) = <<>> \/ Value(list, query, i) > 0}

Better(list, query, i, j) ==
    \/ Value(list, query, i) > Value(list, query, j)
    \/ Value(list, query, i) = Value(list, query, j) /\ i < j

\* A sequence of all the entries a query matches, best first.
RanksAll(s, list, query) ==
    /\ s \in Seq(Matching(list, query))
    /\ \A i \in Matching(list, query) : \E k \in 1 .. Len(s) : s[k] = i
    /\ \A k, l \in 1 .. Len(s) : k < l => Better(list, query, s[k], s[l])

\* A higher score, or the same and an earlier registration, is a strict order
\* of the entries.
LEMMA BetterOrders ==
    ASSUME NEW list \in Seq(Names), NEW S, NEW query \in Seq(S),
           NEW i \in DOMAIN list, NEW j \in DOMAIN list, NEW k \in DOMAIN list
    PROVE  /\ ~Better(list, query, i, i)
           /\ Better(list, query, i, j) => ~Better(list, query, j, i)
           /\ i # j => Better(list, query, i, j) \/ Better(list, query, j, i)
           /\ Better(list, query, i, j) /\ Better(list, query, j, k) => Better(list, query, i, k)
<1>1. IsFiniteSet(Elements(QueryTerms(query)))
  BY TermsTyped
<1>2. PICK a, b, c : /\ a = Value(list, query, i) /\ b = Value(list, query, j)
                     /\ c = Value(list, query, k)
  OBVIOUS
<1>3. a \in Nat /\ b \in Nat /\ c \in Nat
  BY <1>1, <1>2, ScoreTyped DEF Value
<1>4. i \in Nat /\ j \in Nat /\ k \in Nat
  OBVIOUS
<1>5. /\ Better(list, query, i, i) <=> a > a \/ (a = a /\ i < i)
      /\ Better(list, query, i, j) <=> a > b \/ (a = b /\ i < j)
      /\ Better(list, query, j, i) <=> b > a \/ (b = a /\ j < i)
      /\ Better(list, query, j, k) <=> b > c \/ (b = c /\ j < k)
      /\ Better(list, query, i, k) <=> a > c \/ (a = c /\ i < k)
  BY <1>2 DEF Better
<1> QED
  BY <1>3, <1>4, <1>5

\* Rank is a sequence of all the entries a query matches, best first.
LEMMA RankIs ==
    ASSUME NEW list \in Seq(Names), NEW S, NEW query \in Seq(S)
    PROVE  RanksAll(Rank(list, query), list, query)
<1> DEFINE M == Matching(list, query)
           R == {p \in M \X M : Better(list, query, p[1], p[2])}
<1>1. PICK s : s = Rank(list, query)
  OBVIOUS
<1>2. s = [k \in 1 .. Cardinality(M) |->
             CHOOSE i \in M : Cardinality({j \in M : Better(list, query, j, i)}) + 1 = k]
  BY <1>1 DEF Rank, Better, Value, Matching
<1>3. M \subseteq DOMAIN list
  BY DEF Matching
<1>4. IsFiniteSet(M)
  <2>1. DOMAIN list = 1 .. Len(list) /\ Len(list) \in Nat
    OBVIOUS
  <2>2. IsFiniteSet(DOMAIN list)
    BY <2>1, FS_Interval
  <2> HIDE DEF M
  <2> QED
    BY <1>3, <2>2, FS_Subset
<1> HIDE DEF M
<1>5. \A i, j \in M : <<i, j>> \in R <=> Better(list, query, i, j)
  OBVIOUS
<1> HIDE DEF R
<1>6. /\ s = [k \in 1 .. Cardinality(M) |-> s[k]]
      /\ \A k \in 1 .. Cardinality(M) :
            (\E i \in M : Cardinality({j \in M : <<j, i>> \in R}) + 1 = k) =>
               s[k] \in M /\ Cardinality({j \in M : <<j, s[k]>> \in R}) + 1 = k
  <2>1. \A i \in M : {j \in M : Better(list, query, j, i)} = {j \in M : <<j, i>> \in R}
    BY <1>5
  <2>2. s = [k \in 1 .. Cardinality(M) |-> s[k]]
    <3> DEFINE At(k) == CHOOSE i \in M : Cardinality({j \in M : Better(list, query, j, i)}) + 1 = k
    <3>1. s = [k \in 1 .. Cardinality(M) |-> At(k)]
      BY <1>2
    <3> HIDE DEF At
    <3> QED
      BY <3>1
  <2>3. ASSUME NEW k \in 1 .. Cardinality(M),
               \E i \in M : Cardinality({j \in M : <<j, i>> \in R}) + 1 = k
        PROVE  s[k] \in M /\ Cardinality({j \in M : <<j, s[k]>> \in R}) + 1 = k
    <3>1. s[k] = CHOOSE i \in M : Cardinality({j \in M : Better(list, query, j, i)}) + 1 = k
      BY <1>2
    <3>2. \E i \in M : Cardinality({j \in M : Better(list, query, j, i)}) + 1 = k
      BY <2>1, <2>3
    <3>3. s[k] \in M /\ Cardinality({j \in M : Better(list, query, j, s[k])}) + 1 = k
      BY <3>1, <3>2
    <3> QED
      BY <2>1, <3>3
  <2> QED
    BY <2>2, <2>3
<1>7. /\ \A i \in M : <<i, i>> \notin R
      /\ \A i, j \in M : i # j => <<i, j>> \in R \/ <<j, i>> \in R
      /\ \A i, j, k \in M : <<i, j>> \in R /\ <<j, k>> \in R => <<i, k>> \in R
  BY <1>3, <1>5, BetterOrders
<1>8. OrdersAll(s, M, R)
  BY <1>4, <1>6, <1>7, Ranking
<1>9. \A k, l \in 1 .. Len(s) : k < l => Better(list, query, s[k], s[l])
  <2>1. \A k \in 1 .. Len(s) : s[k] \in M
    BY <1>8 DEF OrdersAll
  <2> QED
    BY <1>5, <1>8, <2>1 DEF OrdersAll
<1> QED
  BY <1>1, <1>8, <1>9 DEF RanksAll, OrdersAll, M

\* Numbers that are not greater than another have a greatest among them.
LEMMA GreatestNumber ==
    ASSUME NEW b \in Nat, NEW S, S \subseteq 0 .. b, S # {},
           NEW n, n = CHOOSE m \in S : \A k \in S : k <= m
    PROVE  n \in S /\ \A k \in S : k <= n
<1> DEFINE T == {b - m : m \in S}
<1>1. T \subseteq Nat /\ T # {}
  <2>1. \A m \in S : m \in 0 .. b
    OBVIOUS
  <2>2. \A m \in 0 .. b : b - m \in Nat
    OBVIOUS
  <2> QED
    BY <2>1, <2>2
<1>2. PICK x \in T : \A y \in T : x <= y
  <2> HIDE DEF T
  <2> QED
    BY <1>1, LeastNumber
<1>3. PICK m \in S : x = b - m
  OBVIOUS
<1>4. \A k \in S : k <= m
  <2>1. ASSUME NEW k \in S PROVE k <= m
    <3>1. b - m <= b - k /\ k \in Int /\ m \in Int
      BY <1>2, <1>3
    <3> QED
      BY <3>1
  <2> QED
    BY <2>1
<1> QED
  BY <1>3, <1>4

\* The bytes of some entries are a number.
LEMMA BytesTyped ==
    ASSUME NEW list \in Seq(Names), NEW s \in Seq(DOMAIN list)
    PROVE  BytesOf(list, s) \in Nat
<1> DEFINE f == [k \in DOMAIN s |-> Texts[list[s[k]]].bytes + Weight.escape]
<1>1. DOMAIN s = 1 .. Len(s) /\ Len(s) \in Nat
  OBVIOUS
<1>2. ASSUME NEW k \in DOMAIN s
      PROVE  Texts[list[s[k]]].bytes + Weight.escape \in Nat
  <2>1. list[s[k]] \in Names
    OBVIOUS
  <2>2. Texts[list[s[k]]].bytes \in Nat /\ Weight.escape \in Nat
    BY <2>1, TextsAssumption, WeightAssumption
  <2> QED
    BY <2>2
<1>3. f \in [1 .. Len(s) -> Nat]
  BY <1>1, <1>2
<1>4. BytesOf(list, s) = Sum(f)
  BY DEF BytesOf
<1> HIDE DEF f
<1>5. f \in Seq(Nat)
  BY <1>1, <1>3, FunctionSequence
<1> QED
  BY <1>4, <1>5, SumNatural

\* No entries cost nothing.
LEMMA NothingFound ==
    ASSUME NEW list
    PROVE  BytesOf(list, <<>>) = 0
<1>1. [k \in DOMAIN <<>> |-> Texts[list[<<>>[k]]].bytes + Weight.escape] = <<>>
  OBVIOUS
<1>2. Len(<<>>) = 0
  OBVIOUS
<1>3. Sum(<<>>) = 0
  BY <1>2, PartialSumsAre DEF Sum
<1> QED
  BY <1>1, <1>3 DEF BytesOf

\* What a search returns: the first of the ranking, as many as asked for and
\* as the limit leaves room for.
CarriesFirst(r, n, list, limit, bytes, out) ==
    /\ r \in Seq(DOMAIN list) /\ n \in 0 .. Len(r) /\ n <= limit
    /\ out.tools = Prefix(r, n) /\ out.ok \in BOOLEAN
    /\ out.ok => /\ out.hasMore = (n < Len(r))
                 /\ SearchBytes(list, Prefix(r, n)) <= bytes
    /\ ~out.ok => n = 0 /\ r # <<>>
    /\ n < Len(r) /\ n < limit => SearchBytes(list, Prefix(r, n + 1)) > bytes

LEMMA PrefixTyped ==
    ASSUME NEW S, NEW r \in Seq(S), NEW m \in 0 .. Len(r)
    PROVE  /\ Prefix(r, m) \in Seq(S) /\ Len(Prefix(r, m)) = m
           /\ \A k \in 1 .. m : Prefix(r, m)[k] = r[k]
BY DEF Prefix

\* The sizes of the definitions are a lower bound of what they cost.
LEMMA LowerBound ==
    ASSUME NEW list \in Seq(Names), NEW r \in Seq(DOMAIN list), NEW m \in 0 .. Len(r)
    PROVE  /\ BytesOf(list, Prefix(r, m)) - m * Weight.escape <= SearchBytes(list, Prefix(r, m))
           /\ SearchBytes(list, Prefix(r, m)) \in Nat
<1>1. BytesOf(list, Prefix(r, m)) \in Nat
  <2>1. Prefix(r, m) \in Seq(DOMAIN list)
    BY PrefixTyped
  <2> QED
    BY <2>1, BytesTyped
<1>2. Weight.escape \in Nat /\ Weight.search \in Nat
  BY WeightAssumption
<1>3. m \in Nat
  OBVIOUS
<1>4. m * Weight.escape \in Nat
  BY <1>2, <1>3
<1> QED
  BY <1>1, <1>2, <1>4 DEF SearchBytes

\* The largest number found below the lower bound is the largest there is.
LEMMA SearchIs ==
    ASSUME NEW list \in Seq(Names), NEW S, NEW query \in Seq(S),
           NEW limit \in Nat, NEW bytes \in Nat, Weight.search <= bytes
    PROVE  \E r, n : /\ RanksAll(r, list, query)
                     /\ CarriesFirst(r, n, list, limit, bytes, Search(list, query, limit, bytes))
<1>1. PICK r : r = Rank(list, query)
  OBVIOUS
<1>2. RanksAll(r, list, query)
  BY <1>1, RankIs
<1>3. r \in Seq(DOMAIN list)
  BY <1>2 DEF RanksAll, Matching
<1>4. PICK out : out = Search(list, query, limit, bytes)
  OBVIOUS
<1> DEFINE most == Least(limit, Len(r))
           Lower(n) == BytesOf(list, Prefix(r, n)) - n * Weight.escape
           counts == {n \in 0 .. most : Lower(n) <= bytes}
           Cost(n) == SearchBytes(list, Prefix(r, n))
<1>5. most \in Nat /\ most <= limit /\ most <= Len(r) /\ (most = limit \/ most = Len(r))
  BY <1>3 DEF Least
<1>6. \A m \in 0 .. most : Lower(m) <= Cost(m) /\ Cost(m) \in Nat
  <2>1. \A m \in 0 .. most : m \in 0 .. Len(r)
    BY <1>3, <1>5
  <2> QED
    BY <1>3, <2>1, LowerBound
<1>7. Prefix(r, 0) = <<>>
  BY <1>3 DEF Prefix
<1>8. Lower(0) = 0 /\ Cost(0) = Weight.search
  <2>1. BytesOf(list, Prefix(r, 0)) = 0
    BY <1>7, NothingFound
  <2>2. Weight.escape \in Nat /\ Weight.search \in Nat
    BY WeightAssumption
  <2> QED
    BY <2>1, <2>2 DEF SearchBytes
<1>9. PICK f : f = Fitting(list, r, limit, bytes)
  OBVIOUS
<1>10. f = CHOOSE n \in counts : \A m \in counts : m <= n
  BY <1>9 DEF Fitting
<1> DEFINE candidates == {n \in 0 .. f : (n = 0 => r = <<>>) /\ Cost(n) <= bytes}
           g == CHOOSE m \in candidates : \A o \in candidates : o <= m
<1>11. out = IF candidates = {} THEN NothingFits
             ELSE [ok |-> TRUE, tools |-> Prefix(r, g), hasMore |-> g < Len(r)]
  BY <1>1, <1>4, <1>9 DEF Search
<1> HIDE DEF most, Lower, Cost
<1>12. f \in counts /\ \A m \in counts : m <= f
  <2>1. counts \subseteq 0 .. most /\ 0 \in counts
    BY <1>5, <1>8
  <2> HIDE DEF counts
  <2> QED
    BY <1>5, <1>10, <2>1, GreatestNumber
<1>13. f \in 0 .. most
  BY <1>12
<1>14. ASSUME NEW m \in 0 .. most, Cost(m) <= bytes, m = 0 => r = <<>>
       PROVE  m \in candidates
  <2>1. Lower(m) <= bytes
    <3>1. Lower(m) <= Cost(m) /\ Cost(m) \in Nat
      BY <1>6
    <3>2. Lower(m) \in Int
      <4>1. Prefix(r, m) \in Seq(DOMAIN list)
        BY <1>3, <1>5, PrefixTyped
      <4>2. BytesOf(list, Prefix(r, m)) \in Nat
        BY <4>1, BytesTyped
      <4>3. Weight.escape \in Nat /\ m \in Nat
        BY WeightAssumption
      <4>4. m * Weight.escape \in Nat
        BY <4>3
      <4> QED
        BY <4>2, <4>4 DEF Lower
    <3> QED
      BY <1>14, <3>1, <3>2
  <2>2. m \in counts
    BY <2>1
  <2>3. m <= f /\ m \in 0 .. f
    BY <1>12, <1>13, <2>2
  <2> QED
    BY <1>14, <2>3
<1> HIDE DEF counts
<1>15. CASE candidates = {}
  <2>1. out.ok = FALSE /\ out.tools = <<>>
    BY <1>11, <1>15 DEF NothingFits
  <2>2. r # <<>>
    <3>1. r = <<>> => 0 \in candidates
      BY <1>5, <1>8, <1>14
    <3> QED
      BY <1>15, <3>1
  <2>3. 0 < Len(r) /\ 0 < limit => Cost(1) > bytes
    <3> SUFFICES ASSUME 0 < Len(r), 0 < limit PROVE Cost(1) > bytes
      OBVIOUS
    <3>1. 1 \in 0 .. most
      BY <1>3, <1>5
    <3>2. Cost(1) \in Nat
      BY <1>6, <3>1
    <3>3. ~(Cost(1) <= bytes)
      BY <1>14, <1>15, <3>1
    <3> QED
      BY <3>2, <3>3
  <2>4. CarriesFirst(r, 0, list, limit, bytes, out)
    <3>1. 0 \in 0 .. Len(r) /\ 0 <= limit /\ 0 + 1 = 1
      BY <1>3
    <3> HIDE DEF candidates
    <3> QED
      BY <1>3, <1>7, <2>1, <2>2, <2>3, <3>1 DEF CarriesFirst, Cost
  <2> QED
    BY <1>2, <1>4, <2>4
<1>16. CASE candidates # {}
  <2>1. candidates \subseteq 0 .. f /\ f \in Nat
    BY <1>5, <1>13
  <2>2. PICK n : n = g
    OBVIOUS
  <2>3. n \in candidates /\ \A o \in candidates : o <= n
    <3> HIDE DEF candidates
    <3> QED
      BY <1>16, <2>1, <2>2, GreatestNumber
  <2>4. out.ok = TRUE /\ out.tools = Prefix(r, n) /\ out.hasMore = (n < Len(r))
    <3> HIDE DEF candidates, g
    <3> QED
      BY <1>11, <1>16, <2>2
  <2>5. n \in 0 .. most /\ Cost(n) <= bytes
    BY <1>13, <2>3, <1>5
  <2>6. n < Len(r) /\ n < limit => Cost(n + 1) > bytes
    <3> SUFFICES ASSUME n < Len(r), n < limit PROVE Cost(n + 1) > bytes
      OBVIOUS
    <3>1. n + 1 \in 0 .. most /\ n + 1 # 0 /\ ~(n + 1 <= n)
      BY <1>3, <1>5, <2>5
    <3>2. PICK m : m = n + 1
      OBVIOUS
    <3>3. m \notin candidates
      BY <2>3, <3>1, <3>2
    <3>4. ~(Cost(m) <= bytes) /\ Cost(m) \in Nat
      BY <1>6, <1>14, <3>1, <3>2, <3>3
    <3> QED
      BY <3>2, <3>4
  <2>7. n \in 0 .. Len(r) /\ n <= limit
    BY <1>3, <1>5, <2>5
  <2>8. CarriesFirst(r, n, list, limit, bytes, out)
    <3> HIDE DEF candidates, g
    <3> QED
      BY <1>3, <2>4, <2>5, <2>6, <2>7 DEF CarriesFirst, Cost
  <2> QED
    BY <1>2, <1>4, <2>8
<1> QED
  BY <1>15, <1>16

\* What a search may promise of the entries it carries.
GivesTheBest(list, query, limit, bytes, out) ==
    LET left == Matching(list, query) \ Elements(out.tools)
        best == {i \in left : \A j \in left \ {i} : Better(list, query, i, j)}
    IN  /\ Elements(out.tools) \subseteq Matching(list, query)
        /\ \A i, j \in DOMAIN out.tools : i < j => Better(list, query, out.tools[i], out.tools[j])
        /\ \A i \in Elements(out.tools), j \in left : Better(list, query, i, j)
        /\ out.ok => out.hasMore = (left # {})
        /\ out.ok => SearchBytes(list, out.tools) <= bytes
        /\ ~out.ok => out.tools = <<>> /\ left # {}
        /\ Len(out.tools) <= limit
        /\ left # {} /\ Len(out.tools) < limit =>
              \A i \in best : SearchBytes(list, Append(out.tools, i)) > bytes

\* The first of a ranking are the best, and the next is the best of the rest.
LEMMA FirstAreBest ==
    ASSUME NEW list \in Seq(Names), NEW S, NEW query \in Seq(S),
           NEW limit \in Nat, NEW bytes \in Nat, NEW r, NEW n, NEW out,
           RanksAll(r, list, query), CarriesFirst(r, n, list, limit, bytes, out)
    PROVE  GivesTheBest(list, query, limit, bytes, out)
<1> DEFINE M == Matching(list, query)
           tools == out.tools
           left == M \ Elements(tools)
           best == {i \in left : \A j \in left \ {i} : Better(list, query, i, j)}
           B(i, j) == Better(list, query, i, j)
<1>1. r \in Seq(M) /\ n \in 0 .. Len(r) /\ n <= limit /\ tools = Prefix(r, n)
  BY DEF RanksAll, CarriesFirst
<1>2. /\ \A i \in M : \E k \in 1 .. Len(r) : r[k] = i
      /\ \A k, l \in 1 .. Len(r) : k < l => B(r[k], r[l])
  BY DEF RanksAll
<1>3. /\ \A i \in M : ~B(i, i)
      /\ \A i, j \in M : B(i, j) => ~B(j, i)
  <2>1. M \subseteq DOMAIN list
    BY DEF Matching
  <2> HIDE DEF M
  <2> QED
    BY <2>1, BetterOrders
<1> HIDE DEF M, B
<1>4. tools \in Seq(M) /\ Len(tools) = n /\ \A k \in 1 .. n : tools[k] = r[k]
  <2> HIDE DEF tools
  <2> QED
    BY <1>1, PrefixTyped
<1>5. Elements(tools) = {r[k] : k \in 1 .. n} /\ DOMAIN tools = 1 .. n
  <2>1. DOMAIN tools = 1 .. n
    BY <1>1, <1>4
  <2> HIDE DEF tools
  <2> QED
    BY <1>4, <2>1 DEF Elements
<1> HIDE DEF tools
<1>6. \A k \in 1 .. Len(r) : r[k] \in M
  BY <1>1
<1>7. Len(r) \in Nat /\ n \in Nat /\ n <= Len(r)
  BY <1>1
<1>8. Elements(tools) \subseteq M
  BY <1>5, <1>6, <1>7
<1>9. \A i, j \in DOMAIN tools : i < j => B(tools[i], tools[j])
  <2>1. ASSUME NEW i \in 1 .. n, NEW j \in 1 .. n, i < j
        PROVE  B(tools[i], tools[j])
    <3>1. i \in 1 .. Len(r) /\ j \in 1 .. Len(r)
      BY <1>7
    <3>2. B(r[i], r[j])
      BY <1>2, <2>1, <3>1
    <3> QED
      BY <1>4, <3>2
  <2> QED
    BY <1>5, <2>1
<1>10. \A j \in left : \E l \in n + 1 .. Len(r) : r[l] = j
  <2>1. ASSUME NEW j \in left
        PROVE  \E l \in n + 1 .. Len(r) : r[l] = j
    <3>1. PICK l \in 1 .. Len(r) : r[l] = j
      BY <1>2
    <3>2. l \notin 1 .. n
      BY <1>5, <3>1
    <3>3. l \in n + 1 .. Len(r)
      BY <1>7, <3>2
    <3> QED
      BY <3>1, <3>3
  <2> QED
    BY <2>1
<1>11. \A i \in Elements(tools), j \in left : B(i, j)
  <2>1. ASSUME NEW i \in Elements(tools), NEW j \in left
        PROVE  B(i, j)
    <3>1. PICK k \in 1 .. n : r[k] = i
      BY <1>5
    <3>2. PICK l \in n + 1 .. Len(r) : r[l] = j
      BY <1>10
    <3>3. k \in 1 .. Len(r) /\ l \in 1 .. Len(r) /\ k < l
      BY <1>7
    <3> QED
      BY <1>2, <3>1, <3>2, <3>3
  <2> QED
    BY <2>1
<1>12. ASSUME n < Len(r)
       PROVE  /\ r[n + 1] \in left
              /\ \A i \in best : i = r[n + 1]
  <2>1. n + 1 \in 1 .. Len(r)
    BY <1>7, <1>12
  <2>2. PICK z : z = r[n + 1]
    OBVIOUS
  <2>3. z \in M /\ \A k \in 1 .. n : B(r[k], z)
    <3>1. ASSUME NEW k \in 1 .. n
          PROVE  B(r[k], z)
      <4>1. k \in 1 .. Len(r) /\ k < n + 1
        BY <1>7
      <4> QED
        BY <1>2, <2>1, <2>2, <4>1
    <3> QED
      BY <1>6, <2>1, <2>2, <3>1
  <2>4. z \notin Elements(tools)
    BY <1>3, <1>5, <2>3
  <2>5. z \in left
    BY <2>3, <2>4
  <2>6. ASSUME NEW i \in best, i # z
        PROVE  FALSE
    <3>1. PICK l \in n + 1 .. Len(r) : r[l] = i
      BY <1>10
    <3>2. l # n + 1
      BY <2>2, <2>6, <3>1
    <3>3. l \in 1 .. Len(r) /\ n + 1 < l
      BY <1>7, <3>2
    <3>4. B(z, i)
      BY <1>2, <2>1, <2>2, <3>1, <3>3
    <3>5. B(i, z)
      BY <2>5, <2>6 DEF B
    <3> QED
      BY <1>3, <2>3, <3>4, <3>5
  <2> QED
    BY <2>2, <2>5, <2>6
<1>13. left # {} <=> n < Len(r)
  <2>1. ASSUME left # {} PROVE n < Len(r)
    <3>1. PICK j \in left : TRUE
      BY <2>1
    <3>2. PICK l \in n + 1 .. Len(r) : r[l] = j
      BY <1>10
    <3> QED
      BY <1>7
  <2> QED
    BY <1>12, <2>1
<1>14. out.ok => out.hasMore = (left # {}) /\ SearchBytes(list, tools) <= bytes
  <2>1. out.ok => out.hasMore = (n < Len(r)) /\ SearchBytes(list, Prefix(r, n)) <= bytes
    BY DEF CarriesFirst
  <2> QED
    BY <1>1, <1>13, <2>1
<1>15. ~out.ok => tools = <<>> /\ left # {}
  <2> SUFFICES ASSUME ~out.ok PROVE tools = <<>> /\ left # {}
    OBVIOUS
  <2>1. n = 0 /\ r # <<>>
    BY DEF CarriesFirst
  <2>2. n < Len(r)
    BY <1>1, <2>1
  <2> QED
    BY <1>4, <1>13, <2>1, <2>2
<1>16. left # {} /\ Len(tools) < limit =>
          \A i \in best : SearchBytes(list, Append(tools, i)) > bytes
  <2> SUFFICES ASSUME left # {}, Len(tools) < limit, NEW i \in best
               PROVE  SearchBytes(list, Append(tools, i)) > bytes
    OBVIOUS
  <2>1. n < Len(r) /\ n < limit
    BY <1>4, <1>13
  <2>2. i = r[n + 1]
    BY <1>12, <2>1
  <2>3. Append(tools, r[n + 1]) = Prefix(r, n + 1)
    <3>1. PICK m : m = n + 1
      OBVIOUS
    <3>2. m \in 0 .. Len(r) /\ m \in Nat
      BY <1>7, <2>1, <3>1
    <3>3. Prefix(r, m) \in Seq(M) /\ Len(Prefix(r, m)) = m /\ \A k \in 1 .. m : Prefix(r, m)[k] = r[k]
      BY <1>1, <3>2, PrefixTyped
    <3>4. PICK p, q : p = Prefix(r, m) /\ q = Append(tools, r[m])
      OBVIOUS
    <3>5. r[m] \in M
      BY <1>6, <1>7, <2>1, <3>1
    <3>6. q \in Seq(M) /\ Len(q) = m /\ \A k \in 1 .. m : q[k] = r[k]
      BY <1>4, <1>7, <3>1, <3>4, <3>5
    <3>7. p \in Seq(M) /\ Len(p) = m /\ \A k \in 1 .. m : p[k] = q[k]
      BY <3>3, <3>4, <3>6
    <3>8. p = q
      BY <3>6, <3>7
    <3> QED
      BY <3>1, <3>4, <3>8
  <2>4. SearchBytes(list, Prefix(r, n + 1)) > bytes
    BY <2>1 DEF CarriesFirst
  <2> QED
    BY <2>2, <2>3, <2>4
<1> QED
  BY <1>1, <1>4, <1>8, <1>9, <1>11, <1>14, <1>15, <1>16 DEF GivesTheBest, M, B, tools

(***************************************************************************)
(* What the client has found. The names of a catalog that may be searched  *)
(* are distinct from one another and from those of the meta tools.         *)
(***************************************************************************)
FoundHeld ==
    /\ ~catalog.finalized.clash /\ ~catalog.finalized.duplicate =>
          Distinct(catalog.finalized.entries \o MetaTools)
    /\ found.kind = "tools" =>
          /\ ~catalog.finalized.clash /\ ~catalog.finalized.duplicate
          /\ GivesTheBest(catalog.finalized.entries, found.query, found.limit, limits.bytes,
                          found.out)

\* A registration that is neither a duplicate nor a clash has distinct names.
LEMMA ApartFromMetaTools ==
    ASSUME NEW ordinary \in Seq(Names), NEW list \in Seq(Names),
           ~Finalized(ordinary, list).clash, ~Finalized(ordinary, list).duplicate
    PROVE  Distinct(Finalized(ordinary, list).entries \o MetaTools)
<1> DEFINE listed == ordinary \o MetaTools
<1>1. /\ Distinct(list) /\ Finalized(ordinary, list).entries = list
      /\ Elements(listed) \cap Elements(list) = {}
  BY DEF Finalized
<1>2. PICK a, b : MetaTools = <<a, b>> /\ a # b
  BY DEF MetaTools
<1>3. PICK c : c = list \o <<a, b>>
  OBVIOUS
<1>4. a \in Elements(listed) /\ b \in Elements(listed)
  <2>1. PICK n : n = Len(ordinary)
    OBVIOUS
  <2>2. n \in Nat
    BY <2>1
  <2>3. PICK d : d = ordinary \o <<a, b>>
    OBVIOUS
  <2>4. d[n + 1] = a /\ d[n + 2] = b /\ DOMAIN d = 1 .. n + 2
    BY <2>1, <2>2, <2>3
  <2>5. n + 1 \in DOMAIN d /\ n + 2 \in DOMAIN d
    BY <2>2, <2>4
  <2> QED
    BY <1>2, <2>3, <2>4, <2>5 DEF Elements
<1>5. a \notin Elements(list) /\ b \notin Elements(list)
  BY <1>1, <1>4
<1>6. \A k \in 1 .. Len(list) : list[k] # a /\ list[k] # b
  BY <1>5 DEF Elements
<1>7. \A k, l \in 1 .. Len(list) : list[k] = list[l] => k = l
  BY <1>1 DEF Distinct
<1>8. PICK n : n = Len(list) /\ n \in Nat
  OBVIOUS
<1>9. /\ DOMAIN c = 1 .. n + 2 /\ c[n + 1] = a /\ c[n + 2] = b
      /\ \A k \in 1 .. n : c[k] = list[k]
  BY <1>3, <1>8
<1>10. ASSUME NEW k \in 1 .. n + 2, NEW l \in 1 .. n + 2, c[k] = c[l]
       PROVE  k = l
  <2>1. /\ k \in 1 .. n \/ k = n + 1 \/ k = n + 2
        /\ l \in 1 .. n \/ l = n + 1 \/ l = n + 2
    BY <1>8
  <2> QED
    BY <1>2, <1>6, <1>7, <1>8, <1>9, <1>10, <2>1
<1>11. Distinct(c)
  BY <1>9, <1>10 DEF Distinct
<1> QED
  BY <1>1, <1>2, <1>3, <1>11

LEMMA NothingFoundAtFirst ==
    ASSUME Init
    PROVE  FoundHeld
<1>1. PICK r \in Registrations :
         catalog = [finalized |-> Finalized(r.ordinary, r.entries), encodes |-> r.encodes]
  BY DEF Init
<1>2. r.ordinary \in Seq(Names) /\ r.entries \in Seq(Names)
  BY InputsAssumption
<1>3. catalog.finalized = Finalized(r.ordinary, r.entries)
  BY <1>1
<1>4. found.kind = "none"
  BY DEF Init, None
<1> QED
  BY <1>2, <1>3, <1>4, ApartFromMetaTools DEF FoundHeld

\* A search establishes what is found.
LEMMA SearchFindsTheBest ==
    ASSUME BatchInv, FoundHeld, NEW query \in Queries, NEW limit, SearchTools(query, limit)
    PROVE  FoundHeld'
<1>1. UNCHANGED <<catalog, limits>>
  BY DEF SearchTools
<1>2. PICK list, bytes : list = catalog.finalized.entries /\ bytes = limits.bytes
  OBVIOUS
<1>3. list \in Seq(Names) /\ bytes \in Nat /\ Weight.search <= bytes
  <2>1. list \in Seq(Names) /\ bytes \in Nat /\ ByteBounds[1] <= bytes
    BY <1>2 DEF BatchInv, GivenHeld
  <2>2. Weight.search \in Nat /\ ByteBounds[1] \in Nat /\ Weight.search <= ByteBounds[1]
    BY WeightAssumption, BoundsAssumption
  <2> QED
    BY <2>1, <2>2
<1>4. CASE found'.kind = "tools"
  <2>1. /\ ~catalog.finalized.clash /\ ~catalog.finalized.duplicate /\ limit \in 1 .. MaxLimit
        /\ found' = [kind |-> "tools", query |-> query, limit |-> limit,
                     out |-> Search(list, query, limit, bytes)]
    BY <1>2, <1>4 DEF SearchTools, Message
  <2>2. query \in Seq(Elements(query)) /\ limit \in Nat
    BY <2>1, InputsAssumption
  <2>3. PICK out : out = Search(list, query, limit, bytes)
    OBVIOUS
  <2>4. PICK r, n : RanksAll(r, list, query) /\ CarriesFirst(r, n, list, limit, bytes, out)
    BY <1>3, <2>2, <2>3, SearchIs
  <2>5. GivesTheBest(list, query, limit, bytes, out)
    BY <1>3, <2>2, <2>4, FirstAreBest
  <2>6. found'.query = query /\ found'.limit = limit /\ found'.out = out
    BY <2>1, <2>3
  <2> QED
    BY <1>1, <1>2, <2>1, <2>5, <2>6 DEF FoundHeld
<1> QED
  BY <1>1, <1>4 DEF FoundHeld

LEMMA FoundStays ==
    ASSUME FoundHeld, UNCHANGED <<catalog, limits>>, found' = found \/ found' = None
    PROVE  FoundHeld'
<1>1. None.kind # "tools"
  BY DEF None
<1>2. CASE found' = found
  BY <1>2 DEF FoundHeld
<1>3. CASE found' = None
  BY <1>1, <1>3 DEF FoundHeld
<1> QED
  BY <1>2, <1>3

\* Every step keeps what is found, or forgets it.
LEMMA NextKeepsFound ==
    ASSUME BatchInv, FoundHeld, [Next]_vars
    PROVE  FoundHeld'
<1>1. ASSUME Searching PROVE FoundHeld'
  BY <1>1, SearchFindsTheBest DEF Searching
<1>2. ASSUME Asking PROVE FoundHeld'
  BY <1>2, FoundStays DEF Asking, Ask
<1>3. ASSUME Finishing PROVE FoundHeld'
  BY <1>3, FoundStays DEF Finishing, Finish
<1>4. ASSUME NEW again \in BOOLEAN, Receive(again) PROVE FoundHeld'
  BY <1>4, FoundStays DEF Receive
<1>5. ASSUME Start \/ StopForRoom \/ Abandon PROVE FoundHeld'
  BY <1>5, FoundStays DEF Start, StopForRoom, Abandon
<1>6. ASSUME UNCHANGED vars PROVE FoundHeld'
  BY <1>6, FoundStays DEF vars
<1> QED
  BY <1>1, <1>2, <1>3, <1>4, <1>5, <1>6 DEF Next

(***************************************************************************)
(* The theorems.                                                           *)
(***************************************************************************)

\* The inductive invariant holds in every state.
THEOREM BatchInvariant == Spec => []BatchInv
<1>1. Init => BatchInv
  BY InitHolds
<1>2. BatchInv /\ [Next]_vars => BatchInv'
  BY NextHolds
<1> QED
  BY <1>1, <1>2, PTL DEF Spec

\* Every reply of either meta tool is within the limit as the client receives
\* it, the one that reports that a result did not fit among them, although the
\* server measures a copy with placeholders (messageReply, render, failReply).
THEOREM RepliesAreHeldToTheLimit == Spec => []HeldToTheLimit
<1>1. BatchInv => HeldToTheLimit
  BY DEF BatchInv
<1> QED
  BY <1>1, BatchInvariant, PTL

\* What a report says ran is what ran, and a batch stops short for a reason it
\* has: its first call is always run (render, failReply, canReport, Handle).
THEOREM ReportsTellWhatRan == Spec => []ReportTellsWhatRan
<1>1. BatchInv => ReportTellsWhatRan
  BY DEF BatchInv, ReportTellsWhatRan
<1> QED
  BY <1>1, BatchInvariant, PTL

\* A client that goes on the way a report tells it to runs a call again only
\* when a report named it as omitted (catalogExecuteReport).
THEOREM NothingElseRunsAgain == Spec => []OnlyOmittedRunsAgain
<1>1. ASSUME BatchInv PROVE OnlyOmittedRunsAgain
  <2>1. /\ CallsHeld /\ Accounted /\ plan \in Seq(Names)
        /\ ran \in [Calls -> Nat] /\ named \in [Calls -> Nat]
    BY <1>1 DEF BatchInv, CallsHeld, GivenHeld
  <2>2. DOMAIN plan = Calls
    BY <2>1 DEF Calls
  <2>3. ASSUME NEW c \in Calls
        PROVE  /\ ran[c] <= 1 + named[c]
               /\ pc = "idle" =>
                    /\ c \in Elements(todo) /\ named[c] = 0 => ran[c] = 0
                    /\ status[c] = "told" => ran[c] = 1 + named[c]
                    /\ status[c] = "omitted" => ran[c] = named[c]
                    /\ c \notin Elements(todo) /\ status[c] = "open" =>
                         catalog.finalized.clash \/ catalog.finalized.duplicate
    <3>1. ran[c] \in Nat /\ named[c] \in Nat
      BY <2>1
    <3>2. CASE c \in Elements(todo)
      <4>1. /\ ran[c] = named[c] + IF c \in Outstanding THEN 1 ELSE 0
            /\ status[c] \in {"open", "omitted"}
        BY <2>1, <3>2 DEF Accounted
      <4>2. pc = "idle" => c \notin Outstanding
        BY DEF Outstanding
      <4> QED
        BY <3>1, <3>2, <4>1, <4>2
    <3>3. CASE c \notin Elements(todo)
      <4>1. /\ ran[c] \in {named[c], named[c] + 1}
            /\ status[c] = "told" => ran[c] = named[c] + 1
            /\ status[c] = "omitted" => ran[c] = named[c]
            /\ status[c] = "open" => catalog.finalized.clash \/ catalog.finalized.duplicate
        BY <2>1, <3>3 DEF Accounted
      <4> QED
        BY <3>1, <3>3, <4>1
    <3> QED
      BY <3>2, <3>3
  <2> QED
    BY <2>2, <2>3 DEF OnlyOmittedRunsAgain
<1> QED
  BY <1>1, BatchInvariant, PTL

\* A search carries the entries that match best, in order, as many as were
\* asked for and the limit leaves room for, and says whether more matched; it
\* finds nothing in a catalog whose names collide (search, rank,
\* finalizeToolCatalog).
THEOREM SearchesGiveTheBest == Spec => []SearchGivesTheBest
<1>1. Init => BatchInv /\ FoundHeld
  BY InitHolds, NothingFoundAtFirst
<1>2. BatchInv /\ FoundHeld /\ [Next]_vars => BatchInv' /\ FoundHeld'
  BY NextHolds, NextKeepsFound
<1>3. FoundHeld => SearchGivesTheBest
  BY DEF FoundHeld, SearchGivesTheBest, GivesTheBest, Matching, Better, Value
<1> QED
  BY <1>1, <1>2, <1>3, PTL DEF Spec

=============================================================================
