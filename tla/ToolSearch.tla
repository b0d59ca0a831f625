----------------------------- MODULE ToolSearch -----------------------------
(***************************************************************************)
(* The searchable tool catalog of a server (src/server/tool_catalog.go):   *)
(* the limits it is configured with, the tools it is registered with, and  *)
(* the reply of search_tools. A text is the set of terms it contains and a *)
(* size is a number of bytes; wording is left out.                         *)
(***************************************************************************)
EXTENDS Integers, Sequences, FiniteSets

CONSTANTS
    Texts,          \* the names, each a record of what the tool says of itself
    CallBounds,     \* <<floor, ceiling>> of the calls of one batch
    ByteBounds,     \* <<floor, ceiling>> of the bytes of one reply
    MaxTerms,       \* distinct terms of a query that are matched
    Weight          \* bytes of each part of a reply that is the same every time

Names == DOMAIN Texts

(* What a name's record holds: its length, the terms of the name in order,  *)
(* the terms its title, description and schema contain, and the bytes of    *)
(* the definition search_tools returns.                                     *)
ASSUME TextsAssumption ==
    \A n \in Names :
        /\ Texts[n].length \in Nat
        /\ Texts[n].bytes \in Nat

ASSUME BoundsAssumption ==
    /\ CallBounds \in Nat \X Nat /\ CallBounds[1] <= CallBounds[2]
    /\ ByteBounds \in Nat \X Nat /\ ByteBounds[1] <= ByteBounds[2]
    /\ 1 <= CallBounds[1]

(* The floor of the limit leaves room for a message and a search with       *)
(* nothing in it, and a placeholder, an empty object, has a size.           *)
ASSUME WeightAssumption ==
    /\ Weight \in [report : Nat, flag : Nat, record : Nat, entry : Nat, channel : Nat,
                   limit : Nat, encode : Nat, placeholder : Nat \ {0}, marker : Nat,
                   message : Nat, complaint : Nat, search : Nat, escape : Nat]
    /\ Weight.message <= ByteBounds[1] /\ Weight.search <= ByteBounds[1]

(* The sums of the first of a sequence of numbers, and of all.              *)
PartialSums(s) ==
    LET Upto[i \in 0 .. Len(s)] == IF i = 0 THEN 0 ELSE Upto[i - 1] + s[i]
    IN  Upto
Sum(s) == PartialSums(s)[Len(s)]

Least(a, b) == IF a <= b THEN a ELSE b
Largest(a, b) == IF a >= b THEN a ELSE b
Bounded(n, bounds) == Least(Largest(bounds[1], n), bounds[2])

(* The limits that apply for the ones WithToolCatalogLimits is given. *)
Limits(calls, bytes) ==
    [calls |-> Bounded(calls, CallBounds), bytes |-> Bounded(bytes, ByteBounds)]

(***************************************************************************)
(* The largest n of 0..length that is in fits, found by bisection; 0 when  *)
(* none is.                                                                *)
(***************************************************************************)
LongestFit(length, fits) ==
    LET Bisect[lo \in 0 .. length, hi \in 0 .. length] ==
            LET mid == (lo + hi + 1) \div 2
            IN  IF lo >= hi THEN lo
                ELSE IF mid \in fits THEN Bisect[mid, hi] ELSE Bisect[lo, mid - 1]
    IN  Bisect[0, length]

(* What is left of a text of a length clipped to n characters: n of them    *)
(* and the marker, or the whole text.                                       *)
Clipped(length, n) == IF n >= length THEN length ELSE n + Weight.marker

(* The lengths a text of a given length may be sent with.                   *)
Lengths(length) == 0 .. length + Weight.marker

(* The length it is sent with, of those that fit: whole, else as much of it *)
(* as fits before the marker, else nothing.                                 *)
HeldTo(length, fits) ==
    LET cut == Clipped(length, LongestFit(length, {n \in 0 .. length : Clipped(length, n) \in fits}))
    IN  IF length \in fits THEN length ELSE IF cut \in fits THEN cut ELSE 0

(* The bytes of an error result that carries a message. *)
MessageReply(length, limit) ==
    Weight.message + HeldTo(length, {n \in Lengths(length) : Weight.message + n <= limit})

(***************************************************************************)
(* Registration. listed are the tools of the server in order, the two      *)
(* meta tools among them; entries the tools of the catalog. Two names that *)
(* are the same within the catalog, or in the catalog and the list, or in  *)
(* the list, are a misconfiguration both meta tools report.                *)
(***************************************************************************)
MetaTools == <<"search_tools", "execute_tools">>

Distinct(s) == \A i, j \in DOMAIN s : s[i] = s[j] => i = j
Elements(s) == {s[i] : i \in DOMAIN s}

Finalized(ordinary, entries) ==
    LET listed == ordinary \o MetaTools
    IN  [entries |-> IF Distinct(entries) THEN entries ELSE <<>>,
         duplicate |-> ~Distinct(entries),
         clash |-> ~Distinct(listed) \/ Elements(listed) \cap Elements(entries) # {}]

(***************************************************************************)
(* search_tools.                                                           *)
(***************************************************************************)
DistinctTerms(terms) ==
    LET first == {i \in DOMAIN terms : \A j \in 1 .. i - 1 : terms[j] # terms[i]}
        At(k) == CHOOSE i \in first : Cardinality({j \in first : j <= i}) = k
    IN  [k \in 1 .. Cardinality(first) |-> terms[At(k)]]

QueryTerms(query) ==
    LET terms == DistinctTerms(query)
    IN  SubSeq(terms, 1, Least(Len(terms), MaxTerms))

Score(terms, name) ==
    LET Hits(text) == Cardinality(Elements(terms) \cap text)
        t == Texts[name]
    IN  (IF terms # <<>> /\ terms = DistinctTerms(t.terms) THEN 8 ELSE 0)
          + 4 * Hits(Elements(t.terms)) + 3 * Hits(t.title)
          + 2 * Hits(t.description) + Hits(t.schema)

(* The entries a query matches, best first; the order of registration      *)
(* settles a tie, and a query without terms browses the whole catalog.     *)
Rank(entries, query) ==
    LET terms == QueryTerms(query)
        S(i) == Score(terms, entries[i])
        matching == {i \in DOMAIN entries : terms = <<>> \/ S(i) > 0}
        Before(i, j) == S(i) > S(j) \/ (S(i) = S(j) /\ i < j)
        Place(i) == Cardinality({j \in matching : Before(j, i)}) + 1
    IN  [k \in 1 .. Cardinality(matching) |-> CHOOSE i \in matching : Place(i) = k]

(* The bytes of a search reply: every definition is written into a text    *)
(* whose quotes are escaped once more, Weight.escape bytes each.           *)
BytesOf(entries, indexes) ==
    Sum([k \in DOMAIN indexes |-> Texts[entries[indexes[k]]].bytes + Weight.escape])

SearchBytes(entries, indexes) == Weight.search + BytesOf(entries, indexes)

Prefix(s, n) == SubSeq(s, 1, n)

(* The definitions whose own sizes, a lower bound of what they cost in the *)
(* reply, add up to no more than the limit, and no more of them than asked.*)
Fitting(entries, ranked, limit, bytes) ==
    LET Lower(n) == BytesOf(entries, Prefix(ranked, n)) - n * Weight.escape
        counts == {n \in 0 .. Least(limit, Len(ranked)) : Lower(n) <= bytes}
    IN  CHOOSE n \in counts : \A m \in counts : m <= n

NothingFits == [ok |-> FALSE, tools |-> <<>>, hasMore |-> FALSE]

\* Mutant: the reply is weighed by the definitions alone, without what the
\* text they are written into costs.
SearchByLowerBound(entries, query, limit, bytes) ==
    LET ranked == Rank(entries, query)
        n == Fitting(entries, ranked, limit, bytes)
    IN  IF n = 0 /\ ranked # <<>> THEN NothingFits
        ELSE [ok |-> TRUE, tools |-> Prefix(ranked, n), hasMore |-> n < Len(ranked)]

(* The reply of search_tools: the largest number of the best entries that  *)
(* the reply, measured as it is sent, can carry within the limit.          *)
Search(entries, query, limit, bytes) ==
    LET ranked == Rank(entries, query)
        candidates == {n \in 0 .. Fitting(entries, ranked, limit, bytes) :
                          /\ n = 0 => ranked = <<>>
                          /\ SearchBytes(entries, Prefix(ranked, n)) <= bytes}
        n == CHOOSE m \in candidates : \A o \in candidates : o <= m
    IN  IF candidates = {} THEN NothingFits
        ELSE [ok |-> TRUE, tools |-> Prefix(ranked, n), hasMore |-> n < Len(ranked)]
=============================================================================
