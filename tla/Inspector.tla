------------------------------ MODULE Inspector ------------------------------
(***************************************************************************)
(* A run of mcp:inspector (src/console/inspector.go and                    *)
(* inspector_process_*.go): the command writes a configuration file,       *)
(* starts the inspector in its own process group, passes a stop on to what *)
(* the run started, and ends all of it before it returns. The processes of *)
(* the group, the inspector's and others', start processes, exit and leave *)
(* the group as they please, and go on doing so while the group is listed. *)
(* A process id is not given out twice, and what exits is gone at once.    *)
(***************************************************************************)
EXTENDS Integers

CONSTANTS
    Self,               \* the command
    Npx,                \* the inspector
    Peer,               \* a process that shares the group with the command
    Pool,               \* the processes that are started later
    Reaper,             \* the process orphans are handed to, in another session
    Nobody,             \* no parent: the process is not in the listing
    Quit, Stops,        \* the quit signal, and the signals that end a run
    MaxRounds,          \* the rounds of the end of a run (200 in the code)
    MaxSignals,         \* bound: stops sent
    MaxLeaves,          \* bound: processes that leave their group
    MaxFailures         \* bound: listings that fail once a run has started

ASSUME ProcessesAssumption ==
    /\ Self \notin {Npx, Peer, Reaper, Nobody} /\ Npx \notin {Peer, Reaper, Nobody}
    /\ Peer \notin {Reaper, Nobody} /\ Reaper # Nobody
    /\ {Self, Npx, Peer, Reaper, Nobody} \cap Pool = {}

ASSUME RunAssumption ==
    /\ Quit \in Stops /\ "none" \notin Stops
    /\ MaxRounds \in Nat /\ MaxRounds > MaxFailures /\ MaxFailures \in Nat

Processes == {Self, Npx, Peer} \cup Pool

VARIABLES
    pc,         \* where the command is
    config,     \* whether the configuration file is there
    before,     \* the group before the inspector; Nil when it has its own group
    alive,      \* the processes that run
    parent,     \* who started each, or the reaper
    group,      \* "job", the group of the command; "own", of the inspector; "left"
    elsewhere,  \* the processes in a session of their own
    told,       \* whether a stop has reached the inspector
    copy,       \* the stop on its way to the command
    cause,      \* the stop that cancelled the run
    exit,       \* how the inspector ended
    relay,      \* how far the stop is passed on
    scan,       \* how far a listing is: "none", "read" or "judge"
    names,      \* the processes a listing has yet to look up, or to judge
    shown,      \* the parent a listing shows for each process in it
    picked,     \* the processes a listing has picked
    rounds,     \* rounds of the end of the run so far
    result,     \* what the run reports
    born,       \* history: the processes started so far
    ours,       \* history: the ones the run started, in all generations
    adrift,     \* history: the processes below one that died or took a session
    missed,     \* history: the ones the last listing of a round need not show
    strangers,  \* history: the others the command has signalled
    typed,      \* history: whether a stop typed at the terminal reached the inspector
    spent       \* signals, leaves and failures so far

process == <<alive, parent, group, elsewhere, born, ours, adrift>>
stop == <<told, copy, cause, typed>>
run == <<config, before, result>>
scanning == <<relay, scan, names, shown, picked, rounds>>
listing == <<scanning, missed>>
vars == <<pc, exit, strangers, spent, process, stop, run, listing>>

Nil == {}
Nothing == [p \in Processes |-> Nobody]

Init ==
    /\ pc = "start" /\ config = FALSE /\ before = Nil
    /\ alive = {Self, Peer} /\ born = alive
    /\ parent = [p \in Processes |-> Reaper]
    /\ group = [p \in Processes |-> "job"]
    /\ elsewhere = {} /\ told = FALSE /\ typed = FALSE /\ copy = "none" /\ cause = "none"
    /\ exit = "none" /\ relay = "none" /\ rounds = 0
    /\ scan = "none" /\ names = {} /\ shown = Nothing /\ picked = {}
    /\ result = "none" /\ ours = {} /\ adrift = {} /\ missed = {} /\ strangers = {}
    /\ spent = [signals |-> 0, leaves |-> 0, failures |-> 0]

Over == pc \in {"done", "quit", "killed"}
Spend(what, bound) == spent[what] < bound /\ spent' = [spent EXCEPT ![what] = @ + 1]
In(g) == {p \in alive : group[p] = g}

(***************************************************************************)
(* What the processes do of their own.                                     *)
(***************************************************************************)
(* A process is on the line of parents of another, or is that one: it is   *)
(* in all that holds the other and the parents of what it holds.           *)
Descends(p, q) ==
    \A S \in SUBSET (Processes \cup {Reaper}) :
        p \in S /\ (\A r \in S \ {Reaper} : parent[r] \in S) => q \in S

\* What has one of them above it.
Below(those) == {p \in alive : \E q \in those : Descends(parent[p], q)}

(* What dies leaves its children to the reaper. *)
Die(dead) ==
    /\ alive' = alive \ dead
    /\ parent' = [p \in Processes |-> IF parent[p] \in dead THEN Reaper ELSE parent[p]]
    /\ adrift' = adrift \cup (Below(dead) \ dead)
    /\ missed' = IF pc = "listing" THEN missed \cup (Below(dead) \ dead) ELSE missed
    /\ UNCHANGED <<group, elsewhere, born, ours>>

Join(c, p) ==
    /\ alive' = alive \cup {c} /\ born' = born \cup {c}
    /\ parent' = [parent EXCEPT ![c] = p]

Fork(p, c) ==
    /\ ~Over
    /\ p \in alive \ {Self} /\ c \in Pool \ born
    /\ Join(c, p)
    /\ group' = [group EXCEPT ![c] = group[p]]
    /\ elsewhere' = IF p \in elsewhere THEN elsewhere \cup {c} ELSE elsewhere
    /\ ours' = IF p \in ours THEN ours \cup {c} ELSE ours
    /\ adrift' = IF p \in adrift \cup elsewhere THEN adrift \cup {c} ELSE adrift
    /\ missed' = IF p \in missed THEN missed \cup {c} ELSE missed
    /\ UNCHANGED <<pc, exit, strangers, spent, stop, run, scanning>>

Exit(p) ==
    /\ ~Over
    /\ p \in alive \ {Self, Npx}
    /\ Die({p})
    /\ UNCHANGED <<pc, exit, strangers, spent, stop, run, scanning>>

InspectorExits(how) ==
    /\ Npx \in alive
    /\ how = "stop" => told
    /\ Die({Npx})
    /\ exit' = how
    /\ UNCHANGED <<pc, strangers, spent, stop, run, scanning>>

(* A process moves to a group of its own, with or without a session.       *)
Leave(p, session) ==
    /\ ~Over
    /\ p \in alive \ {Self} /\ group[p] # "left"
    /\ Spend("leaves", MaxLeaves)
    /\ group' = [group EXCEPT ![p] = "left"]
    /\ elsewhere' = IF session THEN elsewhere \cup {p} ELSE elsewhere
    /\ adrift' = IF session THEN adrift \cup Below({p}) ELSE adrift
    /\ missed' = IF pc = "listing" THEN missed \cup Below({p}) ELSE missed
    /\ UNCHANGED <<pc, exit, strangers, alive, parent, born, ours, stop, run, scanning>>

(***************************************************************************)
(* Stops: typed at the terminal, which signals the whole job and hands the *)
(* command its copy when it gets to it; sent to the command alone; sent to *)
(* the inspector alone.                                                    *)
(***************************************************************************)
TypeStop(sig) ==
    /\ ~Over /\ copy = "none"
    /\ Spend("signals", MaxSignals)
    /\ told' = (told \/ Npx \in In("job"))
    /\ copy' = sig /\ typed' = (typed \/ Npx \in In("job"))
    /\ UNCHANGED <<pc, exit, strangers, process, cause, run, listing>>

StopCommand(sig) ==
    /\ ~Over /\ copy = "none"
    /\ Spend("signals", MaxSignals)
    /\ copy' = sig
    /\ UNCHANGED <<pc, exit, strangers, process, told, typed, cause, run, listing>>

StopInspector ==
    /\ Npx \in alive /\ ~told
    /\ Spend("signals", MaxSignals)
    /\ told' = TRUE
    /\ UNCHANGED <<pc, exit, strangers, process, copy, cause, typed, run, listing>>

(* A stop that is caught cancels the run, the first of them; one that comes *)
(* when none is caught ends the command.                                   *)
Caught == pc \notin {"start", "written", "unwatched", "removed"}

Deliver ==
    /\ ~Over /\ copy # "none"
    /\ copy' = "none"
    /\ IF Caught
       THEN cause' = (IF cause = "none" THEN copy ELSE cause) /\ UNCHANGED pc
       ELSE pc' = "killed" /\ UNCHANGED cause
    /\ UNCHANGED <<exit, strangers, spent, process, told, typed, run, listing>>

(***************************************************************************)
(* A listing (listStartedProcesses): the ids are read, the processes are   *)
(* looked up one after the other, and each that is in the group is judged  *)
(* by what the listing shows. Its own entry plays no part.                 *)
(***************************************************************************)
Members == {p \in Processes : shown[p] # Nobody}

Begin ==
    /\ scan = "none"
    /\ scan' = "read" /\ names' = alive \ {Self} /\ shown' = Nothing /\ picked' = {}

LookUp(p) ==
    /\ scan = "read" /\ p \in names
    /\ names' = names \ {p}
    /\ shown' = IF p \in In("job") THEN [shown EXCEPT ![p] = parent[p]] ELSE shown
    /\ UNCHANGED <<pc, exit, strangers, spent, process, stop, run, relay, scan, picked, rounds, missed>>

Compare ==
    /\ scan = "read" /\ names = {}
    /\ scan' = "judge" /\ names' = Members \ (before \cup {Self})
    /\ UNCHANGED <<pc, exit, strangers, spent, process, stop, run, relay, shown, picked, rounds, missed>>

\* A process that is gone has no session to be asked for (isReaper).
IsReaper(p) == p = Reaper \/ p \in elsewhere \cap alive

\* Mutant: descent from a process that was there before is not looked at.
StartedByAnyone(p) == p \notin before

(* startedProcesses: the line of parents, followed within the listing and  *)
(* past nothing that was there before, comes to the command or a reaper.   *)
Started(p) ==
    \E line \in SUBSET (Members \ (before \cup {Self})) :
        /\ p \in line
        /\ \A q \in line :
              \/ shown[q] \in line \cup {Self}
              \/ shown[q] \notin Members /\ IsReaper(shown[q])

Consider(p) ==
    /\ scan = "judge" /\ p \in names
    /\ names' = names \ {p}
    /\ picked' = IF Started(p) THEN picked \cup {p} ELSE picked
    /\ UNCHANGED <<pc, exit, strangers, spent, process, stop, run, relay, scan, shown, rounds, missed>>

End == scan = "judge" /\ names = {} /\ scan' = "none" /\ shown' = Nothing

ListingFails ==
    /\ Spend("failures", MaxFailures) /\ picked' = {}
    /\ UNCHANGED <<scan, names, shown>>

(***************************************************************************)
(* The command, up to the start of the inspector.                          *)
(***************************************************************************)
WriteConfig ==
    /\ pc = "start"
    /\ pc' = "written" /\ config' = TRUE
    /\ UNCHANGED <<exit, strangers, spent, process, stop, before, result, listing>>

Watch ==
    /\ pc = "written"
    /\ pc' = "watched"
    /\ UNCHANGED <<exit, strangers, spent, process, stop, run, listing>>

(* placeInspector: the group as it is, or none where it cannot be listed.  *)
Place ==
    /\ pc = "watched"
    /\ pc' = "placed"
    /\ \/ before' = In("job") /\ UNCHANGED spent
       \/ before' = Nil /\ Spend("failures", MaxFailures)
    /\ UNCHANGED <<exit, strangers, process, stop, config, result, listing>>

Start ==
    /\ pc = "placed" /\ cause = "none"
    /\ pc' = "running"
    /\ Join(Npx, Self)
    /\ group' = [group EXCEPT ![Npx] = IF before = Nil THEN "own" ELSE "job"]
    /\ ours' = {Npx}
    /\ UNCHANGED <<exit, strangers, spent, elsewhere, adrift, stop, run, listing>>

StartFails ==
    /\ pc = "placed"
    /\ pc' = "returned"
    /\ result' = IF cause = "none" THEN "failed" ELSE "stopped"
    /\ UNCHANGED <<exit, strangers, spent, process, stop, config, before, listing>>

(***************************************************************************)
(* The stop is passed on, by the goroutine that waits for it while the     *)
(* command waits for the inspector (interruptInspector).                   *)
(***************************************************************************)
RelayToInspector ==
    /\ pc = "running" /\ cause # "none" /\ relay = "none"
    /\ told' = (told \/ (Npx \in alive /\ (before = Nil => group[Npx] = "own")))
    /\ strangers' = IF before = Nil THEN strangers \cup (In("own") \ ours) ELSE strangers
    /\ relay' = IF before = Nil THEN "done" ELSE "told"
    /\ UNCHANGED <<pc, exit, spent, process, copy, cause, typed, run, scan, names, shown,
                   picked, rounds, missed>>

RelayLists ==
    /\ relay = "told" /\ Begin
    /\ relay' = "listing"
    /\ UNCHANGED <<pc, exit, strangers, spent, process, stop, run, rounds, missed>>

RelayFails ==
    /\ relay = "told" /\ ListingFails
    /\ relay' = "done"
    /\ UNCHANGED <<pc, exit, strangers, process, stop, run, rounds, missed>>

RelayListed ==
    /\ relay = "listing" /\ End
    /\ relay' = "sending" /\ picked' = picked \ {Npx}
    /\ UNCHANGED <<pc, exit, strangers, spent, process, stop, run, names, rounds, missed>>

RelaySends(p) ==
    /\ relay = "sending" /\ p \in picked
    /\ picked' = picked \ {p} /\ strangers' = strangers \cup ({p} \cap (alive \ ours))
    /\ UNCHANGED <<pc, exit, spent, process, stop, run, relay, scan, names, shown, rounds, missed>>

RelayEnds ==
    /\ relay = "sending" /\ picked = {}
    /\ relay' = "done"
    /\ UNCHANGED <<pc, exit, strangers, spent, process, stop, run, scan, names, shown, picked,
                   rounds, missed>>

(* The grace period is over: the inspector alone is killed. *)
KillInspector ==
    /\ pc = "running" /\ relay = "done" /\ Npx \in alive
    /\ Die({Npx})
    /\ exit' = "killed"
    /\ UNCHANGED <<pc, strangers, spent, stop, run, scanning>>

Wait ==
    /\ pc = "running" /\ Npx \notin alive /\ relay \in {"none", "done"}
    /\ pc' = "ending"
    /\ UNCHANGED <<exit, strangers, spent, process, stop, run, listing>>

(***************************************************************************)
(* endStartedProcesses: rounds of listing and killing, until a listing     *)
(* picks nothing.                                                          *)
(***************************************************************************)
EndGroup ==
    /\ pc = "ending" /\ before = Nil
    /\ Die(In("own")) /\ strangers' = strangers \cup (In("own") \ ours)
    /\ pc' = "ended"
    /\ UNCHANGED <<exit, spent, stop, run, scanning>>

Another == before # Nil /\ rounds < MaxRounds

\* In a group but not a session of its own: its children are no orphans, nor
\* are they the command's.
Away == {p \in alive : group[p] = "left"} \ elsewhere

RoundLists ==
    /\ pc = "ending" /\ Another /\ Begin
    /\ pc' = "listing" /\ missed' = Below(Away)
    /\ UNCHANGED <<exit, strangers, spent, process, stop, run, relay, rounds>>

RoundListed ==
    /\ pc = "listing" /\ End
    /\ pc' = IF picked = {} THEN "ended" ELSE "killing"
    /\ UNCHANGED <<exit, strangers, spent, process, stop, run, relay, names, picked, rounds, missed>>

\* Mutant: a listing that fails is taken for an empty one.
RoundFailsForGood ==
    /\ pc = "ending" /\ Another
    /\ ListingFails
    /\ pc' = "ended"
    /\ UNCHANGED <<exit, strangers, process, stop, run, relay, rounds, missed>>

RoundFails ==
    /\ pc = "ending" /\ Another
    /\ ListingFails
    /\ rounds' = rounds + 1
    /\ UNCHANGED <<pc, exit, strangers, process, stop, run, relay, missed>>

RoundKills(p) ==
    /\ pc = "killing" /\ p \in picked
    /\ Die({p}) /\ strangers' = strangers \cup ({p} \cap (alive \ ours))
    /\ picked' = picked \ {p}
    /\ UNCHANGED <<pc, exit, spent, stop, run, relay, scan, names, shown, rounds>>

RoundEnds ==
    /\ pc = "killing" /\ picked = {}
    /\ pc' = "ending" /\ rounds' = rounds + 1
    /\ UNCHANGED <<exit, strangers, spent, process, stop, run, relay, scan, names, shown,
                   picked, missed>>

GiveUp ==
    /\ pc = "ending" /\ before # Nil /\ rounds = MaxRounds
    /\ pc' = "ended"
    /\ UNCHANGED <<exit, strangers, spent, process, stop, run, listing>>

(***************************************************************************)
(* What the run reports: an inspector that a stop ended is waited for the  *)
(* copy of the stop, which is taken to arrive within the time it is given. *)
(***************************************************************************)
\* Mutant: the copy of the stop is not waited for.
JudgeAtOnce ==
    /\ pc = "ended"
    /\ result' = IF exit = "ok" THEN "ok" ELSE IF cause # "none" THEN "stopped" ELSE "failed"
    /\ pc' = "returned"
    /\ UNCHANGED <<exit, strangers, spent, process, stop, config, before, listing>>

Judge ==
    /\ pc = "ended"
    /\ exit = "stop" /\ cause = "none" => copy = "none"
    /\ result' = IF exit = "ok" THEN "ok" ELSE IF cause # "none" THEN "stopped" ELSE "failed"
    /\ pc' = "returned"
    /\ UNCHANGED <<exit, strangers, spent, process, stop, config, before, listing>>

(* The signals are let go of, then the file is removed, then the command   *)
(* returns, or ends as the quit signal ends it. A stop that was caught but *)
(* not read is lost.                                                       *)
Unwatch ==
    /\ pc = "returned"
    /\ pc' = "unwatched"
    /\ copy' \in {copy, "none"}
    /\ UNCHANGED <<exit, strangers, spent, process, told, typed, cause, run, listing>>

Remove ==
    /\ pc = "unwatched"
    /\ pc' = "removed" /\ config' = FALSE
    /\ UNCHANGED <<exit, strangers, spent, process, stop, before, result, listing>>

EndAsSignalled ==
    /\ pc = "removed"
    /\ pc' = IF result # "failed" /\ cause = Quit THEN "quit" ELSE "done"
    /\ UNCHANGED <<exit, strangers, spent, process, stop, run, listing>>

Command ==
    \/ WriteConfig \/ Watch \/ Place \/ Start \/ StartFails
    \/ Wait \/ EndGroup \/ RoundLists \/ RoundListed \/ RoundFails \/ RoundEnds \/ GiveUp
    \/ \E p \in Processes : RoundKills(p)
    \/ Judge \/ Unwatch \/ Remove \/ EndAsSignalled

Relay ==
    \/ RelayToInspector \/ RelayLists \/ RelayFails \/ RelayListed \/ RelayEnds \/ KillInspector
    \/ \E p \in Processes : RelaySends(p)

Scan == Compare \/ \E p \in Processes : LookUp(p) \/ Consider(p)

Next ==
    \/ \E p \in Processes, c \in Pool : Fork(p, c)
    \/ \E p \in Processes : Exit(p)
    \/ \E how \in {"ok", "fail", "stop"} : InspectorExits(how)
    \/ \E p \in Processes, session \in BOOLEAN : Leave(p, session)
    \/ \E sig \in Stops : TypeStop(sig) \/ StopCommand(sig)
    \/ StopInspector \/ Deliver
    \/ Command \/ Relay \/ Scan

Spec == Init /\ [][Next]_vars

(***************************************************************************)
(* Properties                                                              *)
(***************************************************************************)
Ended == pc \in {"done", "quit"}

(* What was in the group before the inspector is never signalled, and of   *)
(* what others started only what has lost a process above it: one that     *)
(* died, or one that took a session of its own (startedProcesses).         *)
OnlyTheRunsProcesses ==
    /\ strangers \cap before = {}
    /\ before = Nil => strangers = {}
    /\ strangers \subseteq adrift

(* Nothing the run started is left in the group when the command is done,  *)
(* whatever it started while it was listed, but for what is below a        *)
(* process that has a group and no session of its own, or below one that   *)
(* exited or left while the last listing was made; and but for a group     *)
(* that outlasts the rounds (endStartedProcesses).                         *)
NothingStartedOutlives ==
    Ended /\ rounds < MaxRounds =>
        \A p \in ours \cap alive : group[p] = "left" \/ p \in missed

(* Nothing of the run is left when the command is done, unless one of it   *)
(* left the group or the group outlasts the rounds: what the comments of   *)
(* endStartedProcesses and isReaper say.                                   *)
NothingLeftInTheGroup ==
    Ended /\ rounds < MaxRounds /\ spent.leaves = 0 =>
        ours \cap alive = {}

(* What descends from a process that was in the group before the inspector *)
(* is not signalled: what the comment of startedProcesses says.            *)
DescendantsLeftAlone ==
    \A p \in strangers : \A q \in before : ~Descends(p, q)

(* A run is reported as failed when the inspector failed and no stop was   *)
(* on its way to the command, and never when a stop ended the inspector    *)
(* together with the command's job (runInspectorProcess).                  *)
ResultTellsTheStop ==
    pc \in {"returned", "unwatched", "removed"} =>
        /\ result = "stopped" => cause # "none"
        /\ result = "failed" /\ exit # "none" => exit # "ok"
        /\ result = "failed" /\ exit = "stop" => ~typed

=============================================================================
