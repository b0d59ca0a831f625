--------------------------- MODULE StdioTransport ---------------------------
(***************************************************************************)
(* The client's stdio transport: client/transport_stdio.go.                *)
(*                                                                         *)
(* A server runs as a subprocess.  A reader goroutine of its own takes the *)
(* frames out of its output pipe into a bounded channel, as far as the     *)
(* backlog allows; the holder of the engine's exchange gate connects,      *)
(* sends and receives, one call at a time; and Disconnect may come from    *)
(* anywhere, from inside a failing call too.  A call copies the fields of  *)
(* the transport under its mutex and works on the copies, so each process  *)
(* here has channels of its own and a call remembers the process it is on. *)
(*                                                                         *)
(* A frame is its number in the output of its process and a size counted   *)
(* in units of the bound: a frame larger than MaxHeld is one the client    *)
(* does not read to its end.                                               *)
(***************************************************************************)
EXTENDS Naturals, Sequences, SequencesExt

CONSTANTS
    User,               \* the holder of the exchange gate
    Closers,            \* goroutines calling Disconnect
    Sizes,              \* sizes a frame may have
    Lines,              \* capacity of the channel of lines (16)
    MaxHeld,            \* maxFrameBytes
    PipeRoom,           \* frames the pipe of a subprocess holds
    MaxProcesses,       \* bound: subprocesses started
    MaxFrames           \* bound: frames the subprocesses write in all

ASSUME UserAssumption == User \notin Closers
ASSUME BoundsAssumption ==
    /\ Sizes \subseteq Nat \ {0}
    /\ {Lines, MaxHeld, PipeRoom, MaxProcesses, MaxFrames} \subseteq Nat \ {0}

Processes == 1..MaxProcesses
Actors == Closers \cup {User}

VARIABLES
    adopted,            \* the process the transport holds (cmd), 0 for none
    proc,               \* each process: "none", "running", "mute" (its output
                        \* closed) or "exited"
    written,            \* the frames each process wrote
    pipe,               \* its output, not yet read
    reader,             \* readLoop: its step, and the frame in its hands
    lines, end,         \* what it handed on: frames, and its terminating error
    held, closed,       \* the backlog
    done,               \* closed once the process is given up
    reaped,             \* its pipes are closed on the client's side too
    user,               \* the call of the gate's holder
    stop,               \* each call of Disconnect: its stage and its process
    got,                \* the last frame of each process that was received
    broken              \* a frame was possibly written in part to the process

processVars == <<proc, written, pipe, reaped>>
channelVars == <<lines, end, held, closed, done>>
callVars    == <<adopted, user, stop, got, broken>>
vars == <<processVars, reader, channelVars, callVars>>

Frame == [n : 1..MaxFrames, size : Sizes]
NoFrame == [n |-> 0, size |-> 0]
NotStopping == [stage |-> "none", on |-> 0]

Init ==
    /\ adopted = 0
    /\ proc = [p \in Processes |-> "none"]
    /\ written = [p \in Processes |-> 0]
    /\ pipe = [p \in Processes |-> <<>>]
    /\ reader = [p \in Processes |-> [step |-> "gone", frame |-> NoFrame]]
    /\ lines = [p \in Processes |-> <<>>]
    /\ end = [p \in Processes |-> "none"]
    /\ held = [p \in Processes |-> 0]
    /\ closed = [p \in Processes |-> FALSE]
    /\ done = [p \in Processes |-> FALSE]
    /\ reaped = [p \in Processes |-> FALSE]
    /\ user = [step |-> "idle", on |-> 0]
    /\ stop = [a \in Actors |-> NotStopping]
    /\ got = [p \in Processes |-> 0]
    /\ broken = [p \in Processes |-> FALSE]

-----------------------------------------------------------------------------
(* The server.                                                              *)

\* It blocks while its pipe is full.
Write(p, size) ==
    /\ proc[p] = "running"
    /\ FoldFunction(+, 0, written) < MaxFrames
    /\ Len(pipe[p]) < PipeRoom
    /\ written' = [written EXCEPT ![p] = @ + 1]
    /\ pipe' = [pipe EXCEPT ![p] = Append(@, [n |-> written'[p], size |-> size])]
    /\ UNCHANGED <<proc, reaped, reader, channelVars, callVars>>

CloseOutput(p) ==
    /\ proc[p] = "running"
    /\ proc' = [proc EXCEPT ![p] = "mute"]
    /\ UNCHANGED <<written, pipe, reaped, reader, channelVars, callVars>>

Exit(p) ==
    /\ proc[p] \in {"running", "mute"}
    /\ proc' = [proc EXCEPT ![p] = "exited"]
    /\ UNCHANGED <<written, pipe, reaped, reader, channelVars, callVars>>

-----------------------------------------------------------------------------
(* readLoop and the backlog.                                                *)

Reading(p, step) == reader[p].step = step

Goes(p, step) == reader' = [reader EXCEPT ![p].step = step]

OutputEnded(p) == reaped[p] \/ (pipe[p] = <<>> /\ proc[p] \in {"mute", "exited"})

\* Mutant: a frame that is too large is left out.
SkipLarge(p) ==
    /\ Reading(p, "read")
    /\ ~reaped[p] /\ pipe[p] # <<>>
    /\ pipe' = [pipe EXCEPT ![p] = Tail(@)]
    /\ \/ /\ Head(pipe[p]).size <= MaxHeld
          /\ reader' = [reader EXCEPT ![p] = [step |-> "take", frame |-> Head(pipe[p])]]
       \/ /\ Head(pipe[p]).size > MaxHeld
          /\ UNCHANGED reader
    /\ UNCHANGED <<proc, written, reaped, channelVars, callVars>>

\* A frame larger than the bound ends the delivery.
ReadFrame(p) ==
    /\ Reading(p, "read")
    /\ ~reaped[p] /\ pipe[p] # <<>>
    /\ pipe' = [pipe EXCEPT ![p] = Tail(@)]
    /\ \/ /\ Head(pipe[p]).size <= MaxHeld
          /\ reader' = [reader EXCEPT ![p] = [step |-> "take", frame |-> Head(pipe[p])]]
       \/ /\ Head(pipe[p]).size > MaxHeld
          /\ Goes(p, "refuse")
    /\ UNCHANGED <<proc, written, reaped, channelVars, callVars>>

\* The terminating error is handed on, for whoever receives it first; past a
\* frame that is too large the output is read on and dropped.
ReadEnd(p) ==
    /\ \/ Reading(p, "read") /\ OutputEnded(p) /\ Goes(p, "gone")
       \/ Reading(p, "refuse") /\ Goes(p, "drain")
    /\ end' = [end EXCEPT ![p] = "pending"]
    /\ UNCHANGED <<processVars, lines, held, closed, done, callVars>>

Room(p) == held[p] = 0 \/ held[p] + reader[p].frame.size <= MaxHeld

\* backlog.take
TakeRoom(p) ==
    /\ Reading(p, "take")
    /\ ~closed[p]
    /\ Room(p)
    /\ held' = [held EXCEPT ![p] = @ + reader[p].frame.size]
    /\ Goes(p, "push")
    /\ UNCHANGED <<processVars, lines, end, closed, done, callVars>>

Push(p) ==
    /\ Reading(p, "push")
    /\ Len(lines[p]) < Lines
    /\ lines' = [lines EXCEPT ![p] = Append(@, reader[p].frame)]
    /\ reader' = [reader EXCEPT ![p] = [step |-> "read", frame |-> NoFrame]]
    /\ UNCHANGED <<processVars, end, held, closed, done, callVars>>

\* The process was given up: nobody receives any more.
Abandoned(p) ==
    /\ \/ Reading(p, "take") /\ closed[p]
       \/ Reading(p, "push") /\ done[p]
    /\ reader' = [reader EXCEPT ![p] = [step |-> "drain", frame |-> NoFrame]]
    /\ UNCHANGED <<processVars, channelVars, callVars>>

\* io.Copy(io.Discard, reader)
Drain(p) ==
    /\ Reading(p, "drain")
    /\ \/ /\ ~reaped[p] /\ pipe[p] # <<>>
          /\ pipe' = [pipe EXCEPT ![p] = Tail(@)]
          /\ UNCHANGED reader
       \/ /\ OutputEnded(p)
          /\ Goes(p, "gone")
          /\ UNCHANGED pipe
    /\ UNCHANGED <<proc, written, reaped, channelVars, callVars>>

-----------------------------------------------------------------------------
(* Connect, Send and Receive, called by the holder of the gate.             *)

\* Idempotent: it changes nothing while a process is adopted.
Connect ==
    /\ user.step = "idle"
    /\ adopted = 0
    /\ \E p \in Processes :
          /\ proc[p] = "none"
          /\ \A q \in 1..(p - 1) : proc[q] # "none"
          /\ adopted' = p
          /\ proc' = [proc EXCEPT ![p] = "running"]
          /\ reader' = [reader EXCEPT ![p].step = "read"]
    /\ UNCHANGED <<written, pipe, reaped, channelVars, user, stop, got, broken>>

Call(step) ==
    /\ user.step = "idle"
    /\ adopted # 0
    /\ user' = [step |-> step, on |-> adopted]
    /\ UNCHANGED <<processVars, reader, channelVars, adopted, stop, got, broken>>

Send == Call("send")
Receive == Call("receive")

Finish(step) == user' = [user EXCEPT !.step = step]

Sent ==
    /\ user.step = "send"
    /\ proc[user.on] # "exited" /\ ~done[user.on]
    /\ Finish("idle")
    /\ UNCHANGED <<processVars, reader, channelVars, adopted, stop, got, broken>>

\* The write fails, or takes longer than its bound: the process is given up.
SendFails ==
    /\ user.step = "send"
    /\ broken' = [broken EXCEPT ![user.on] = TRUE]
    /\ Finish("closing")
    /\ UNCHANGED <<processVars, reader, channelVars, adopted, stop, got>>

\* Mutant: the frame that was received is still counted.
TakeLineHolding(p) ==
    /\ lines' = [lines EXCEPT ![p] = Tail(@)]
    /\ got' = [got EXCEPT ![p] = Head(lines[p]).n]
    /\ UNCHANGED held

TakeLine(p) ==
    /\ lines' = [lines EXCEPT ![p] = Tail(@)]
    /\ held' = [held EXCEPT ![p] = @ - Head(lines[p]).size]
    /\ got' = [got EXCEPT ![p] = Head(lines[p]).n]

ReceiveLine ==
    /\ user.step = "receive"
    /\ lines[user.on] # <<>>
    /\ TakeLine(user.on)
    /\ Finish("idle")
    /\ UNCHANGED <<processVars, reader, end, closed, done, adopted, stop, broken>>

\* The terminating error is received: a line buffered alongside is returned in
\* its place, and otherwise the process is given up, unless it was before.
ReceiveEnd ==
    /\ user.step = "receive"
    /\ end[user.on] = "pending"
    /\ end' = [end EXCEPT ![user.on] = "taken"]
    /\ \/ /\ lines[user.on] # <<>>
          /\ TakeLine(user.on)
          /\ Finish("idle")
       \/ /\ lines[user.on] = <<>>
          /\ Finish(IF done[user.on] THEN "idle" ELSE "closing")
          /\ UNCHANGED <<lines, held, got>>
    /\ UNCHANGED <<processVars, reader, closed, done, adopted, stop, broken>>

ReceiveGivenUp ==
    /\ user.step = "receive"
    /\ done[user.on]
    /\ Finish("idle")
    /\ UNCHANGED <<processVars, reader, channelVars, adopted, stop, got, broken>>

\* The timeout or the context of the call: the process is left running.
ReceiveTimesOut ==
    /\ user.step = "receive"
    /\ Finish("idle")
    /\ UNCHANGED <<processVars, reader, channelVars, adopted, stop, got, broken>>

-----------------------------------------------------------------------------
(* Disconnect, called by a closer or from inside a failing call.            *)

Stage(a, stage) == stop' = [stop EXCEPT ![a].stage = stage]

\* Mutant: the fields are copied and left in place.
GiveUpCopied(a) ==
    /\ stop[a] = NotStopping
    /\ a = User => user.step = "closing"
    /\ adopted # 0
    /\ stop' = [stop EXCEPT ![a] = [stage |-> "taken", on |-> adopted]]
    /\ UNCHANGED <<processVars, reader, channelVars, adopted, user, got, broken>>

\* The fields are taken, so that no other call of Disconnect stops the process.
GiveUp(a) ==
    /\ stop[a] = NotStopping
    /\ a = User => user.step = "closing"
    /\ adopted # 0
    /\ stop' = [stop EXCEPT ![a] = [stage |-> "taken", on |-> adopted]]
    /\ adopted' = 0
    /\ UNCHANGED <<processVars, reader, channelVars, user, got, broken>>

\* Another call of Disconnect came first.
NothingToGiveUp ==
    /\ user.step = "closing"
    /\ stop[User] = NotStopping
    /\ adopted = 0
    /\ Finish("idle")
    /\ UNCHANGED <<processVars, reader, channelVars, adopted, stop, got, broken>>

\* Mutant: whoever waits for room in the backlog goes on waiting.
ReleaseReceive(a) ==
    /\ stop[a].stage = "taken"
    /\ done' = [done EXCEPT ![stop[a].on] = TRUE]
    /\ Stage(a, "asked")
    /\ UNCHANGED <<processVars, reader, lines, end, held, closed, adopted, user, got,
                   broken>>

\* Whoever waits on the process is released, and its input is closed.
Release(a) ==
    /\ stop[a].stage = "taken"
    /\ done' = [done EXCEPT ![stop[a].on] = TRUE]
    /\ closed' = [closed EXCEPT ![stop[a].on] = TRUE]
    /\ Stage(a, "asked")
    /\ UNCHANGED <<processVars, reader, lines, end, held, adopted, user, got, broken>>

\* Mutant: a server that does not exit when asked is waited for.
AskAgain(a) ==
    /\ stop[a].stage \in {"asked", "told"}
    /\ Stage(a, "told")
    /\ UNCHANGED <<processVars, reader, channelVars, adopted, user, got, broken>>

\* A grace is over: the server is told to terminate, and then killed.
GraceOver(a) ==
    /\ \/ /\ stop[a].stage = "asked"
          /\ \/ Stage(a, "told") /\ UNCHANGED proc
             \/ Stage(a, "killed") /\ proc' = [proc EXCEPT ![stop[a].on] = "exited"]
       \/ /\ stop[a].stage = "told"
          /\ Stage(a, "killed")
          /\ proc' = [proc EXCEPT ![stop[a].on] = "exited"]
    /\ UNCHANGED <<written, pipe, reaped, reader, channelVars, adopted, user, got, broken>>

\* cmd.Wait returns, having closed the pipes; Disconnect returns with it.
Reap(a) ==
    /\ stop[a].stage \in {"asked", "told", "killed"}
    /\ proc[stop[a].on] = "exited"
    /\ reaped' = [reaped EXCEPT ![stop[a].on] = TRUE]
    /\ stop' = [stop EXCEPT ![a] = NotStopping]
    /\ user' = IF a = User THEN [user EXCEPT !.step = "idle"] ELSE user
    /\ UNCHANGED <<proc, written, pipe, reader, channelVars, adopted, got, broken>>

ReaderStep(p) ==
    ReadFrame(p) \/ ReadEnd(p) \/ TakeRoom(p) \/ Push(p) \/ Abandoned(p) \/ Drain(p)

Disconnect(a) == Release(a) \/ GraceOver(a) \/ Reap(a)

Next ==
    \/ \E p \in Processes :
          \/ \E size \in Sizes : Write(p, size)
          \/ CloseOutput(p) \/ Exit(p)
          \/ ReaderStep(p)
    \/ Connect \/ Send \/ Receive \/ Sent \/ SendFails
    \/ ReceiveLine \/ ReceiveEnd \/ ReceiveGivenUp \/ ReceiveTimesOut
    \/ NothingToGiveUp
    \/ \E a \in Actors : GiveUp(a) \/ Disconnect(a)

Spec == Init /\ [][Next]_vars

\* Goroutines that can move do, and the graces of a shutdown run out.  Nothing
\* is assumed of the server, which may hang, nor of the timeout of a Receive,
\* which may be as long as its caller likes.
Fairness ==
    /\ \A p \in Processes : WF_vars(ReaderStep(p))
    /\ \A a \in Actors : WF_vars(Disconnect(a))
    /\ WF_vars(GiveUp(User) \/ NothingToGiveUp)
    /\ WF_vars(ReceiveLine \/ ReceiveEnd \/ ReceiveGivenUp)

FairSpec == Spec /\ Fairness

-----------------------------------------------------------------------------
(* Properties.                                                              *)

StdioTypeOK ==
    /\ adopted \in 0..MaxProcesses
    /\ proc \in [Processes -> {"none", "running", "mute", "exited"}]
    /\ written \in [Processes -> 0..MaxFrames]
    /\ reader \in [Processes -> [step  : {"gone", "read", "refuse", "take", "push", "drain"},
                                 frame : Frame \cup {NoFrame}]]
    /\ \A p \in Processes :
          /\ Len(pipe[p]) <= PipeRoom
          /\ Len(lines[p]) <= Lines
          /\ \A i \in DOMAIN pipe[p] : pipe[p][i] \in Frame
          /\ \A i \in DOMAIN lines[p] : lines[p][i] \in Frame
    /\ end \in [Processes -> {"none", "pending", "taken"}]
    /\ held \in [Processes -> Nat]
    /\ closed \in [Processes -> BOOLEAN]
    /\ done \in [Processes -> BOOLEAN]
    /\ reaped \in [Processes -> BOOLEAN]
    /\ user \in [step : {"idle", "send", "receive", "closing"}, on : 0..MaxProcesses]
    /\ stop \in [Actors -> [stage : {"none", "taken", "asked", "told", "killed"},
                            on    : 0..MaxProcesses]]
    /\ got \in [Processes -> 0..MaxFrames]
    /\ broken \in [Processes -> BOOLEAN]

\* Frames are received in the order they were written, each once, and none is
\* left out (readLoop, Receive): not when the channel and the end are ready at
\* once, and not across a Disconnect.
ReceivedInOrder ==
    [][\A p \in Processes : got'[p] # got[p] => got'[p] = got[p] + 1]_vars

\* The end of the output is reported, and the process given up for it, only
\* when everything readable it wrote has been received (Receive).
EndReportedLast ==
    user.step = "closing" /\ ~broken[user.on] /\ ~done[user.on]
    => lines[user.on] = <<>> /\ reader[user.on].step \in {"gone", "drain"}

\* A process that may have been sent part of a frame is never used again: the
\* next Connect starts another (Send).
BrokenNotReused ==
    \A p \in Processes : broken[p] /\ user.step # "closing" => adopted # p

\* A process that was started is the transport's until one call of Disconnect
\* takes it, and that one's until it is reaped, however many come at once and
\* whatever Connect starts in between (Disconnect): its channels are never closed
\* a second time, and none is left running with nobody to stop it.
StoppedOnce ==
    \A p \in Processes :
        LET stopping == {a \in Actors : stop[a] # NotStopping /\ stop[a].on = p}
        IN  proc[p] # "none" /\ ~reaped[p]
            => IF adopted = p THEN stopping = {} ELSE \E a \in Actors : stopping = {a}

\* What is read of a server and waits to be received never exceeds the bound, the
\* frame about to be handed on counted with those that were (backlog.take).
HeldWithinBound ==
    \A p \in Processes :
        LET inHand == IF Reading(p, "push") THEN <<reader[p].frame>> ELSE <<>>
        IN  FoldSeq(LAMBDA frame, sum : frame.size + sum, 0, lines[p] \o inHand) <= MaxHeld

\* Once a process is given up its reader comes to an end, wherever it was
\* waiting (readLoop, backlog.close).
ReadersEnd == \A p \in Processes : done[p] ~> Reading(p, "gone")

\* A server that was given up is made to exit, whatever it does, and every
\* Disconnect returns (Disconnect).
ServersStopped ==
    \A a \in Actors : (stop[a].stage = "taken") ~> (stop[a] = NotStopping)

\* Whoever waits while the reader has a frame in its hands does not wait for
\* long: a reader held at the bound is let go on by what is received (Receive,
\* backlog.release).
WaitEndsWithAFrame ==
    \A p \in Processes :
        (user = [step |-> "receive", on |-> p] /\ reader[p].step \in {"take", "push"})
        ~> (user # [step |-> "receive", on |-> p])

\* Receive blocks "until one arrives or the context/timeout elapses or the
\* subprocess closes its output": one that waits over an output read to its end
\* still has that end to receive.
EndIsNoticed ==
    user.step = "receive" /\ lines[user.on] = <<>>
        /\ reader[user.on].step \in {"gone", "drain"} /\ ~done[user.on]
    => end[user.on] = "pending"

=============================================================================
