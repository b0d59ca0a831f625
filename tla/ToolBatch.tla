------------------------------ MODULE ToolBatch ------------------------------
(***************************************************************************)
(* execute_tools and the client that uses it (src/server/tool_catalog.go): *)
(* a client with a list of calls to make sends them in batches, the server *)
(* runs a batch call by call and reports what ran within the limit on the  *)
(* bytes of a reply, and the client reissues what the report says was not  *)
(* run. A request may be abandoned while a call of it runs. A tool's       *)
(* result is the sizes of its parts.                                       *)
(***************************************************************************)
EXTENDS ToolSearch

CONSTANTS
    Plans,          \* sequences of names: the calls a client may have to make
    Registrations,  \* the catalogs a server may be given, with its other tools
    Configured,     \* the limits it may be given, <<calls, bytes>>
    Outcomes,       \* the results a tool may return
    Queries,        \* the queries a client may search with
    MaxLimit,       \* the most results a search may ask for
    MaxRefusals,    \* bound: batches of a client that the server refuses
    MaxRepeats,     \* bound: omitted calls a client makes again
    MaxAbandoned    \* bound: requests the client gives up on

ASSUME OutcomesAssumption ==
    \A o \in Outcomes :
        /\ o.isError \in BOOLEAN /\ o.encodable \in BOOLEAN
        /\ o.items \in Seq(Nat) /\ o.structured \in Nat /\ o.meta \in Nat

ASSUME InputsAssumption ==
    /\ Plans \subseteq Seq(Names)
    /\ \A r \in Registrations : r.ordinary \in Seq(Names) /\ r.entries \in Seq(Names)
    /\ Configured \subseteq Int \X Int
    /\ \A q \in Queries : q \in Seq(Elements(q))
    /\ {MaxTerms, MaxLimit} \subseteq Nat

(* The floor of the limit leaves room for the smallest report of a failure. *)
ASSUME FloorAssumption ==
    Weight.report + Weight.flag + Weight.flag + Weight.limit + Weight.encode <= ByteBounds[1]

VARIABLES
    catalog,    \* the catalog as finalized, with whether its schemas encode
    limits,     \* the limits that apply
    plan,       \* the calls the client has to make
    todo,       \* the calls, by place in plan, it has not settled, in order
    pc,         \* "idle", "next", "running", "replied": the request in progress
    batch,      \* the calls of the request
    entries,    \* the outcomes the batch holds
    held,       \* the reply the batch holds
    reply,      \* what the handler returned
    progress,   \* the last progress it reported
    abandoned,  \* whether the client has given the request up
    found,      \* what the client's search returned
    ran,        \* history: how often each call was run
    named,      \* history: how often each call was named as omitted
    status,     \* history: what the client was told of each call
    here,       \* history: the places of the batch the server has run
    last,       \* history: the result of the call that ran last
    spent       \* refusals, repeats and abandoned requests so far

vars == <<catalog, limits, plan, todo, pc, batch, entries, held, reply, progress,
          abandoned, found, ran, named, status, here, last, spent>>

None == [kind |-> "none"]

(***************************************************************************)
(* The bytes of a reply that carries a report and the results kept.        *)
(***************************************************************************)
Record(e) ==
    Weight.record + Texts[e.name].length + e.structured + Sum(e.items)
      + IF e.meta = 0 THEN 0 ELSE Weight.entry + Texts[e.name].length + e.meta

Weighed(rep, kept) ==
    Weight.report
      + (IF rep.ok THEN 0 ELSE Weight.flag) + (IF rep.complete THEN 0 ELSE Weight.flag)
      + (IF rep.error = "none" THEN 0 ELSE Weight[rep.error] + rep.omitted.length)
      + Sum([i \in DOMAIN kept |-> Record(kept[i])])
      + (IF \E i \in DOMAIN kept : kept[i].meta > 0 THEN Weight.channel ELSE 0)

(* What the client receives. *)
Sent(r) == Weighed(r.rep, r.kept)

(* What render measures: a copy with placeholders, and what was held back. *)
Placeholder(e) ==
    [e EXCEPT !.items = [i \in DOMAIN @ |-> Weight.placeholder],
              !.meta = IF @ = 0 THEN 0 ELSE Weight.placeholder]

Held(e) ==
    Sum([i \in DOMAIN e.items |-> e.items[i] - Weight.placeholder])
      + IF e.meta = 0 THEN 0 ELSE e.meta - Weight.placeholder

Measured(rep, kept) ==
    Weighed(rep, [i \in DOMAIN kept |-> Placeholder(kept[i])])
      + Sum([i \in DOMAIN kept |-> Held(kept[i])])

\* Mutant: a batch that ran every call is complete, whatever it carries.
RenderCompleteWhenRun(requested, attempted, ok, error, omitted, kept) ==
    LET rep == [ok |-> ok, error |-> error, omitted |-> omitted, requested |-> requested,
                attempted |-> attempted, reported |-> Len(kept),
                complete |-> attempted = requested]
    IN  [kind |-> "report", rep |-> rep, kept |-> kept,
         renders |-> \A i \in DOMAIN kept : kept[i].encodable,
         size |-> Measured(rep, kept)]

(***************************************************************************)
(* render: the count of the records and the completeness follow from the   *)
(* counters. A result that does not encode leaves nothing to send.         *)
(***************************************************************************)
Render(requested, attempted, ok, error, omitted, kept) ==
    LET rep == [ok |-> ok, error |-> error, omitted |-> omitted, requested |-> requested,
                attempted |-> attempted, reported |-> Len(kept),
                complete |-> attempted = requested /\ Len(kept) = attempted]
    IN  [kind |-> "report", rep |-> rep, kept |-> kept,
         renders |-> \A i \in DOMAIN kept : kept[i].encodable,
         size |-> Measured(rep, kept)]

NotOmitted == [length |-> 0, index |-> 0]

Report(requested, ok, kept) == Render(requested, Len(kept), ok, "none", NotOmitted, kept)

Fits(r) == r.renders /\ r.size <= limits.bytes

\* Mutant: the omitted call is not counted among the attempted ones.
FailReplyNotCounting(requested, kept, kind, name, index) ==
    LET Of(length) == Render(requested, index - 1, FALSE, kind, [length |-> length, index |-> index], kept)
    IN  Of(HeldTo(Texts[name].length, {n \in Lengths(Texts[name].length) : Fits(Of(n))}))

(***************************************************************************)
(* failReply: everything the batch holds and the name of the call whose    *)
(* result it cannot carry, clipped when the limit asks for it.             *)
(***************************************************************************)
FailReply(requested, kept, kind, name, index) ==
    LET Of(length) == Render(requested, index, FALSE, kind, [length |-> length, index |-> index], kept)
    IN  Of(HeldTo(Texts[name].length, {n \in Lengths(Texts[name].length) : Fits(Of(n))}))

(* worstFailure: the room is reserved for the costlier of the two failures. *)
WorstFailure == IF Weight.encode >= Weight.limit THEN "encode" ELSE "limit"

\* Mutant: a call is run whether or not its failure could be reported.
CanReportAnything(requested, kept, name, index) == TRUE

CanReport(requested, kept, name, index) ==
    Fits(FailReply(requested, kept, WorstFailure, name, index))

(***************************************************************************)
(* invoke: a name the catalog does not have is a failed call.              *)
(***************************************************************************)
NotFound(name) ==
    [isError |-> TRUE, encodable |-> TRUE, items |-> <<Weight.message + Texts[name].length>>,
     structured |-> 0, meta |-> 0]

Invoke(name) == IF name \in Elements(catalog.finalized.entries) THEN Outcomes ELSE {NotFound(name)}

EntryFor(index, name, o) ==
    [index |-> index, name |-> name, isError |-> o.isError, items |-> o.items,
     structured |-> o.structured, meta |-> o.meta, encodable |-> o.encodable]

(***************************************************************************)
(* The server and its client at the start: limits, tools and a list.       *)
(***************************************************************************)
Init ==
    /\ catalog \in {[finalized |-> Finalized(r.ordinary, r.entries), encodes |-> r.encodes]
                        : r \in Registrations}
    /\ limits \in {Limits(c[1], c[2]) : c \in Configured}
    /\ plan \in Plans
    /\ todo = [k \in 1 .. Len(plan) |-> k]
    /\ pc = "idle" /\ batch = <<>> /\ entries = <<>> /\ held = None /\ reply = None
    /\ progress = 0 /\ abandoned = FALSE /\ found = None
    /\ ran = [k \in 1 .. Len(plan) |-> 0] /\ named = ran
    /\ status = [k \in 1 .. Len(plan) |-> "open"]
    /\ here = {} /\ last = None
    /\ spent = [refusals |-> 0, repeats |-> 0, abandoned |-> 0]

Message(length) == [kind |-> "message", size |-> MessageReply(length, limits.bytes)]

(* search_tools: a misconfigured catalog, an argument that is not valid or *)
(* a catalog that does not encode is answered with a message.              *)
SearchTools(query, limit) ==
    /\ pc = "idle" /\ found = None /\ Len(todo) = Len(plan) /\ spent.refusals = 0
    /\ found' = IF \/ catalog.finalized.clash
                   \/ limit \notin 1 .. MaxLimit
                   \/ catalog.finalized.duplicate
                   \/ ~catalog.encodes
                THEN Message(Weight.complaint)
                ELSE [kind |-> "tools", query |-> query, limit |-> limit,
                      out |-> Search(catalog.finalized.entries, query, limit, limits.bytes)]
    /\ UNCHANGED <<catalog, limits, plan, todo, pc, batch, entries, held, reply, progress,
                   abandoned, ran, named, status, here, last, spent>>

Refused(k, wellFormed) ==
    \/ catalog.finalized.clash \/ catalog.finalized.duplicate
    \/ k > limits.calls
    \/ ~wellFormed

(* A batch is asked for: the first k calls of the list. One that is too    *)
(* long or not well formed is refused with a message that is as long as    *)
(* the batch, before a call of it runs.                                    *)
Ask(k, wellFormed) ==
    /\ pc = "idle"
    /\ k \in 1 .. Len(todo)
    /\ batch' = SubSeq(todo, 1, k)
    /\ entries' = <<>> /\ progress' = 0 /\ abandoned' = FALSE
    /\ here' = {} /\ last' = None /\ found' = None
    /\ IF Refused(k, wellFormed)
       THEN /\ spent.refusals < MaxRefusals
            /\ spent' = [spent EXCEPT !.refusals = @ + 1]
            /\ pc' = "replied"
            /\ reply' = Message(k * Weight.complaint)
            /\ held' = None
       ELSE /\ pc' = "next"
            /\ held' = Report(k, TRUE, <<>>)
            /\ reply' = None
            /\ UNCHANGED spent
    /\ UNCHANGED <<catalog, limits, plan, todo, ran, named, status>>

Following == Len(entries) + 1
NameOf(i) == plan[batch[i]]

(* The next call is run only when a failure of it could still be reported. *)
Start ==
    /\ pc = "next"
    /\ CanReport(Len(batch), entries, NameOf(Following), Following)
    /\ pc' = "running"
    /\ ran' = [ran EXCEPT ![batch[Following]] = @ + 1]
    /\ here' = here \cup {Following}
    /\ UNCHANGED <<catalog, limits, plan, todo, batch, entries, held, reply, progress,
                   abandoned, found, named, status, last, spent>>

StopForRoom ==
    /\ pc = "next"
    /\ ~CanReport(Len(batch), entries, NameOf(Following), Following)
    /\ pc' = "replied"
    /\ reply' = held
    /\ UNCHANGED <<catalog, limits, plan, todo, batch, entries, held, progress, abandoned,
                   found, ran, named, status, here, last, spent>>

(* A batch ends with the first call that fails, with its last call, and     *)
(* with the call during which the request was abandoned.                   *)
Ends(o, i) == o.isError \/ abandoned \/ i = Len(batch)

(* The call has run. Its result is carried, or dropped and named when the  *)
(* reply with it does not encode or does not fit.                          *)
Finish(o) ==
    LET i == Following
        kept == Append(entries, EntryFor(i, NameOf(i), o))
        next == Report(Len(batch), ~o.isError, kept)
        kind == IF next.renders THEN "limit" ELSE "encode"
    IN  /\ pc = "running"
        /\ o \in Invoke(NameOf(i))
        /\ progress' = i
        /\ last' = o
        /\ IF Fits(next)
           THEN /\ entries' = kept /\ held' = next
                /\ IF Ends(o, i)
                   THEN pc' = "replied" /\ reply' = next
                   ELSE pc' = "next" /\ UNCHANGED reply
                /\ UNCHANGED named
           ELSE /\ pc' = "replied"
                /\ reply' = FailReply(Len(batch), entries, kind, NameOf(i), i)
                /\ named' = [named EXCEPT ![batch[i]] = @ + 1]
                /\ UNCHANGED <<entries, held>>
        /\ UNCHANGED <<catalog, limits, plan, todo, batch, abandoned, found, ran, status,
                       here, spent>>

(* The client cancels the request while the batch is under way. *)
Abandon ==
    /\ pc \in {"next", "running"}
    /\ ~abandoned
    /\ spent.abandoned < MaxAbandoned
    /\ abandoned' = TRUE
    /\ spent' = [spent EXCEPT !.abandoned = @ + 1]
    /\ UNCHANGED <<catalog, limits, plan, todo, pc, batch, entries, held, reply, progress,
                   found, ran, named, status, here, last>>

(***************************************************************************)
(* The client reads the reply the way the tool's description tells it to:  *)
(* it goes on with the calls from the attempted ones on, and it may make   *)
(* the one named as omitted again. Of a request it abandoned it is told    *)
(* nothing, and it lets those calls go.                                    *)
(***************************************************************************)
Beyond(n) == SubSeq(todo, n + 1, Len(todo))

ReadReport(again) ==
    LET rep == reply.rep
        told == {batch[reply.kept[i].index] : i \in DOMAIN reply.kept}
        omitted == IF rep.error = "none" THEN {} ELSE {batch[rep.omitted.index]}
    IN  /\ again => omitted # {} /\ spent.repeats < MaxRepeats
        /\ todo' = (IF again THEN <<batch[rep.omitted.index]>> ELSE <<>>) \o Beyond(rep.attempted)
        /\ spent' = IF again THEN [spent EXCEPT !.repeats = @ + 1] ELSE spent
        /\ status' = [c \in DOMAIN status |->
                        IF c \in told THEN "told"
                        ELSE IF c \in omitted THEN "omitted" ELSE status[c]]

Receive(again) ==
    /\ pc = "replied"
    /\ pc' = "idle"
    /\ \/ /\ abandoned /\ ~again
          /\ todo' = Beyond(Len(batch))
          /\ status' = [c \in DOMAIN status |->
                          IF c \in Elements(batch) THEN "let go" ELSE status[c]]
          /\ UNCHANGED spent
       \/ ~abandoned /\ reply.kind = "report" /\ ReadReport(again)
       \/ /\ ~abandoned /\ reply.kind = "message" /\ ~again
          /\ todo' = IF catalog.finalized.clash \/ catalog.finalized.duplicate THEN <<>> ELSE todo
          /\ UNCHANGED <<status, spent>>
    /\ UNCHANGED <<catalog, limits, plan, batch, entries, held, reply, progress, abandoned,
                   found, ran, named, here, last>>

Searching == \E query \in Queries, limit \in 0 .. MaxLimit + 1 : SearchTools(query, limit)
Asking == \E k \in 1 .. Len(todo), wellFormed \in BOOLEAN : Ask(k, wellFormed)
Finishing == \E o \in Outcomes \cup {NotFound(n) : n \in Names} : Finish(o)

Next ==
    \/ Searching
    \/ Asking
    \/ Start \/ StopForRoom \/ Finishing
    \/ Abandon
    \/ \E again \in BOOLEAN : Receive(again)

Spec == Init /\ [][Next]_vars

(***************************************************************************)
(* The type of what the request and its client hold.                       *)
(***************************************************************************)
ToolBatchTypeOK ==
    /\ pc \in {"idle", "next", "running", "replied"}
    /\ Len(entries) <= Len(batch) /\ Len(batch) <= Len(plan)
    /\ progress \in 0 .. Len(batch) /\ here \subseteq DOMAIN batch
    /\ Elements(todo) \subseteq DOMAIN plan /\ Distinct(todo)

Answered == pc = "replied" /\ reply.kind = "report"

(* Every reply of either meta tool is within the limit as the client       *)
(* receives it, the reply that reports that a result did not fit among     *)
(* them (toolCatalog.messageReply, catalogBatch.render, failReply).        *)
HeldToTheLimit ==
    /\ Answered => reply.renders /\ Sent(reply) <= limits.bytes
    /\ pc = "replied" /\ reply.kind = "message" => reply.size <= limits.bytes
    /\ found.kind = "message" => found.size <= limits.bytes

(* The counters and flags of a report tell what the server did: the calls  *)
(* before attempted ran and no other, every one of them has its record or  *)
(* is the one named, and complete and ok say no more than that; a batch    *)
(* that was refused ran nothing (catalogBatch.render, failReply, Handle).  *)
CountersTellWhatRan ==
    /\ pc = "replied" /\ reply.kind = "message" => here = {}
    /\ Answered =>
        LET rep == reply.rep
            failed == \E i \in DOMAIN reply.kept : reply.kept[i].isError
        IN  /\ here = 1 .. rep.attempted /\ progress = rep.attempted
            /\ rep.reported = Len(reply.kept)
            /\ \A i \in DOMAIN reply.kept : reply.kept[i].index = i
                                            /\ reply.kept[i].name = NameOf(i)
            /\ IF rep.error = "none" THEN rep.attempted = rep.reported
               ELSE rep.attempted = rep.reported + 1 /\ rep.omitted.index = rep.attempted
            /\ rep.complete <=> here = DOMAIN batch /\ rep.reported = Len(batch)
            /\ rep.ok <=> rep.error = "none" /\ ~failed

(* A batch does not stop short for nothing: a result is only left out of a *)
(* report when it does not encode or cannot be carried beside the ones     *)
(* before it, and a call is only left unrun when an earlier one failed, the*)
(* client gave up, or its failure could not be reported even without a     *)
(* name; the first call is always run (Handle, canReport).                 *)
StopsForAReason ==
    Answered =>
        LET rep == reply.rep
            n == Len(batch)
            With(o) == Report(n, ~o.isError,
                              Append(reply.kept, EntryFor(rep.attempted, NameOf(rep.attempted), o)))
            Nameless == Render(n, rep.attempted + 1, FALSE, WorstFailure,
                               [length |-> 0, index |-> rep.attempted + 1], reply.kept)
        IN  /\ rep.attempted >= 1
            /\ rep.error # "none" => ~last.encodable \/ Sent(With(last)) > limits.bytes
            /\ rep.error = "none" /\ ~rep.complete =>
                  \/ abandoned
                  \/ ~rep.ok /\ last.isError
                  \/ Sent(Nameless) > limits.bytes

(* A client that reads a report knows what ran, and that the rest was left *)
(* for a reason a batch has (catalogBatch, Handle).                        *)
ReportTellsWhatRan == CountersTellWhatRan /\ StopsForAReason

(* A client that goes on the way the report tells it to runs a call twice  *)
(* only when the report named it as omitted, and a call it still has to    *)
(* make that was never named has never run (catalogExecuteReport).         *)
OnlyOmittedRunsAgain ==
    /\ \A c \in DOMAIN plan : ran[c] <= 1 + named[c]
    /\ pc = "idle" =>
        \A c \in DOMAIN plan :
            /\ c \in Elements(todo) /\ named[c] = 0 => ran[c] = 0
            /\ status[c] = "told" => ran[c] = 1 + named[c]
            /\ status[c] = "omitted" => ran[c] = named[c]
            /\ c \notin Elements(todo) /\ status[c] = "open" =>
                  catalog.finalized.clash \/ catalog.finalized.duplicate

(* A search carries the entries that match best, in order, as many as the  *)
(* client asked for and the limit leaves room for, says whether more       *)
(* matched, and finds nothing in a catalog whose names collide (search,    *)
(* rank, finalizeToolCatalog).                                             *)
SearchGivesTheBest ==
    found # None /\ found.kind = "tools" =>
        LET names == catalog.finalized.entries
            terms == QueryTerms(found.query)
            Value(i) == Score(terms, names[i])
            matching == {i \in DOMAIN names : terms = <<>> \/ Value(i) > 0}
            tools == found.out.tools
            left == matching \ Elements(tools)
            Better(i, j) == Value(i) > Value(j) \/ (Value(i) = Value(j) /\ i < j)
            best == {i \in left : \A j \in left \ {i} : Better(i, j)}
        IN  /\ Distinct(names \o MetaTools)
            /\ Elements(tools) \subseteq matching
            /\ \A i, j \in DOMAIN tools : i < j => Better(tools[i], tools[j])
            /\ \A i \in Elements(tools), j \in left : Better(i, j)
            /\ found.out.ok => found.out.hasMore = (left # {})
            /\ found.out.ok => SearchBytes(names, tools) <= limits.bytes
            /\ ~found.out.ok => tools = <<>> /\ left # {}
            /\ Len(tools) <= found.limit
            /\ left # {} /\ Len(tools) < found.limit =>
                  \A i \in best : SearchBytes(names, Append(tools, i)) > limits.bytes

=============================================================================
