-------------------------- MODULE Inspector_proofs --------------------------
(***************************************************************************)
(* The properties of Inspector for any processes, any number of them, and  *)
(* any bounds on rounds, stops, departures and failed listings.            *)
(*                                                                         *)
(* A line of parents is never followed here: it is enough that every set   *)
(* of processes has a member whose parent is not in it (Grounded). A line  *)
(* that passes over what others started would be such a set without one    *)
(* (Others, Seen), and so would what is left of the run when a listing has *)
(* picked nothing (Rounds).                                                *)
(***************************************************************************)
EXTENDS Inspector, TLAPS

ProcessesOK ==
    /\ alive \subseteq born /\ born \subseteq Processes
    /\ adrift \subseteq born /\ missed \subseteq born
    /\ elsewhere \subseteq born /\ ours \subseteq born
    /\ parent \in [Processes -> Processes \cup {Reaper}]
    /\ group \in [Processes -> {"job", "own", "left"}]

TypeOK ==
    /\ ProcessesOK
    /\ pc \in {"start", "written", "watched", "placed", "running", "ending", "listing",
               "killing", "ended", "returned", "unwatched", "removed", "done", "quit", "killed"}
    /\ config \in BOOLEAN
    /\ before \subseteq born /\ names \subseteq born /\ picked \subseteq born
    /\ Members \subseteq born /\ strangers \subseteq born
    /\ shown \in [Processes -> Processes \cup {Reaper, Nobody}]
    /\ told \in BOOLEAN /\ typed \in BOOLEAN
    /\ copy \in Stops \cup {"none"} /\ cause \in Stops \cup {"none"}
    /\ exit \in {"none", "ok", "fail", "stop", "killed"}
    /\ relay \in {"none", "told", "listing", "sending", "done"}
    /\ scan \in {"none", "read", "judge"}
    /\ rounds \in Nat
    /\ result \in {"none", "ok", "failed", "stopped"}
    /\ spent \in [signals : Nat, leaves : Nat, failures : Nat]

Starting == pc \in {"start", "written", "watched", "placed"}
Running == pc \in {"running", "ending", "listing", "killing", "ended"}
Finished == pc \in {"ended", "returned", "unwatched", "removed", "done", "quit"}

\* Where the command is, and what it has in hand there.
Phases ==
    /\ Starting => Npx \notin born
    /\ pc \in {"start", "written", "watched"} => before = Nil
    /\ Npx \notin born =>
          /\ ours = {} /\ exit = "none" /\ relay = "none" /\ ~typed
          /\ Members = {} /\ picked = {} /\ strangers = {} /\ names = {} /\ missed = {}
    /\ relay \in {"told", "listing", "sending"} => pc = "running" /\ before # Nil
    /\ scan # "none" => before # Nil
    /\ pc \in {"listing", "killing"} => before # Nil
    /\ Running => Npx \in born

\* Who started whom.
Kin ==
    /\ Self \in alive /\ parent[Self] = Reaper
    /\ {Self, Peer} \subseteq born \ ours
    /\ Npx \in born => Npx \in ours
    /\ \A p \in Processes : parent[p] \in born \cup {Reaper}
    /\ \A p \in Processes : parent[p] = Self => p = Npx
    /\ \A p \in ours : parent[p] \in ours \cup {Self, Reaper}
    /\ \A p \in alive : parent[p] \in alive \cup {Reaper}
    /\ \A p \in alive : parent[p] \in ours => p \in ours
    /\ \A p \in alive : parent[p] \in missed => p \in missed

\* Every set of processes has one whose parent is not in it.
Grounded == \A S \in SUBSET Processes : S # {} => \E p \in S : parent[p] \notin S

\* Which group each process is in.
Groups ==
    /\ group[Self] = "job"
    /\ \A p \in born \ ours : group[p] # "own"
    /\ \A p \in ours : group[p] # (IF before = Nil THEN "job" ELSE "own")
    /\ before \cap ours = {}
    /\ before # Nil => Self \in before
    /\ before # Nil /\ Peer \in alive /\ group[Peer] = "job" => Peer \in before

\* What others started has all it came from above it still.
Steady == alive \ (ours \cup adrift)
Others == \A p \in Steady \ {Self, Peer} : parent[p] \in Steady \ elsewhere

Family == Kin /\ Grounded /\ Groups /\ Others

\* What a listing shows of what others started, and what came of it.
Seen ==
    /\ \A p \in (Members \cap Steady) \ {Self, Peer} : shown[p] = parent[p]
    /\ before # Nil /\ Peer \in Members /\ Peer \in alive => Peer \in before
    /\ picked \cap before = {}
    /\ picked \cap alive \subseteq ours \cup adrift
    /\ strangers \cap before = {}
    /\ before = Nil => strangers = {}
    /\ strangers \subseteq adrift

\* What a round is to find: the live processes of the run, but for the ones
\* the listing need not show.
Due == (ours \cap alive) \ missed
Found == Members \cup (IF scan = "read" THEN names ELSE {})

Round ==
    /\ scan \in {"read", "judge"}
    /\ \A q \in Members \cap Due : shown[q] = parent[q]
    /\ \A q \in Due \cap Found : parent[q] \in ours => parent[q] \in Found \cup elsewhere
    /\ \A q \in Due \cap Found : parent[q] \notin Away
    /\ \A q \in Due \ Found :
          group[q] = "job" => parent[q] \in Due /\ group[parent[q]] = "job"
    /\ scan = "judge" => (Due \cap Members) \ names \subseteq picked

Rounds == pc = "listing" => Round

\* Once the end of the run is over, what is left of it is out of reach.
Cleared ==
    Finished /\ rounds < MaxRounds => \A p \in ours \cap alive : group[p] = "left" \/ p \in missed

\* How the inspector ended, and what is reported of it.
Judged ==
    /\ exit # "none" => Npx \notin alive
    /\ result # "none" => Npx \notin alive
    /\ Starting \/ Running => result = "none"
    /\ typed /\ (Starting \/ Running \/ pc = "returned") => copy # "none" \/ cause # "none"
    /\ result = "stopped" => cause # "none"
    /\ result = "failed" => exit # "ok" /\ (exit = "stop" => ~typed)
    /\ pc \notin {"start", "written", "watched", "placed", "running", "killed"}
       => Npx \notin alive

Control == Phases /\ Cleared /\ Judged

InspectorInv == TypeOK /\ Family /\ Seen /\ Rounds /\ Control

USE ProcessesAssumption, RunAssumption

LEMMA InspectorInit == Init => InspectorInv
<1> SUFFICES ASSUME Init PROVE InspectorInv
  OBVIOUS
<1>1. Members = {}
  BY DEF Init, Members, Nothing
<1>2. TypeOK
  BY <1>1 DEF Init, TypeOK, ProcessesOK, Processes, Nil, Nothing
<1>3. Kin /\ Groups
  BY DEF Init, Kin, Groups, Processes, Nil
<1>4. Grounded
  BY DEF Init, Grounded, Processes
<1>5. Others /\ Seen /\ Rounds
  BY <1>1 DEF Init, Others, Steady, Seen, Rounds, Nil
<1>6. Control
  BY <1>1 DEF Init, Control, Phases, Cleared, Judged, Starting, Running, Finished, Nil
<1> QED
  BY <1>2, <1>3, <1>4, <1>5, <1>6 DEF InspectorInv, Family

\* What has one above it that is below a process, or that process, is below it.
LEMMA BelowInherited ==
    ASSUME NEW those, NEW q \in alive, parent[q] \in Processes,
           parent[q] \in those \cup Below(those)
    PROVE  q \in Below(those)
<1>1. Reaper \notin Processes
  BY DEF Processes
<1>2. CASE parent[q] \in those
  BY <1>2 DEF Below, Descends
<1>3. CASE parent[q] \in Below(those)
  <2> DEFINE r == parent[q]
  <2>1. PICK d \in those : Descends(parent[r], d)
    BY <1>3 DEF Below
  <2> SUFFICES ASSUME NEW S \in SUBSET (Processes \cup {Reaper}), r \in S,
                      \A x \in S \ {Reaper} : parent[x] \in S
               PROVE  d \in S
    BY <2>1 DEF Below, Descends
  <2>2. parent[r] \in S
    BY <1>1
  <2> QED
    BY <2>1, <2>2 DEF Descends
<1> QED
  BY <1>2, <1>3

\* Nobody joins, dies or leaves.
LEMMA FamilyKept ==
    ASSUME TypeOK, Family, UNCHANGED <<process, before, missed>>
    PROVE  Family' /\ ProcessesOK'
<1>1. Kin' /\ Groups'
  BY DEF Family, Kin, Groups, process
<1>2. Grounded' /\ Others'
  BY DEF Family, Grounded, Others, Steady, process
<1>3. ProcessesOK'
  BY DEF TypeOK, ProcessesOK, process
<1> QED
  BY <1>1, <1>2, <1>3 DEF Family

\* What the command has in hand is as it was, or less of it.
LEMMA SeenKept ==
    ASSUME TypeOK, Seen, UNCHANGED <<process, before, shown>>, picked' \subseteq picked,
           strangers' \subseteq strangers \cup (picked \cap (alive \ ours)),
           before = Nil => strangers' = strangers
    PROVE  Seen' /\ Members' = Members
<1>1. Members' = Members /\ Steady' = Steady
  BY DEF Members, Steady, process
<1>2. \A p \in (Members' \cap Steady') \ {Self, Peer} : shown'[p] = parent'[p]
  BY <1>1 DEF Seen, process
<1>3. picked' \cap alive' \subseteq ours' \cup adrift' /\ strangers' \subseteq adrift'
  BY DEF Seen, process
<1> QED
  BY <1>1, <1>2, <1>3 DEF Seen, process

LEMMA RoundKept ==
    ASSUME TypeOK, Round, UNCHANGED <<process, before, shown, scan, names, missed>>,
           picked \subseteq picked'
    PROVE  Round'
BY DEF Round, Due, Found, Members, Away, process

\* Deaths leave the children to the reaper, and all that is below adrift.
LEMMA Bereaved ==
    ASSUME TypeOK, Family, Seen, Phases, NEW dead, Self \notin dead, Die(dead),
           UNCHANGED <<before, shown>>, picked' \subseteq picked,
           strangers' \subseteq strangers \cup (picked \cap (alive \ ours)),
           before = Nil => strangers' = strangers
    PROVE  Family' /\ Seen' /\ ProcessesOK' /\ alive' \subseteq alive /\ Members' = Members
<1> DEFINE lost == Below(dead) \ dead
<1>1. /\ alive' = alive \ dead
      /\ UNCHANGED <<group, elsewhere, born, ours>>
      /\ \A p \in Processes : parent'[p] = IF parent[p] \in dead THEN Reaper ELSE parent[p]
      /\ adrift' = adrift \cup lost
      /\ missed' \in {missed, missed \cup lost}
  BY DEF Die
<1>2. lost \subseteq alive
  BY DEF Below
<1>3. ASSUME NEW q \in alive \ dead, parent[q] \in Processes, parent[q] \in dead \cup lost
      PROVE  q \in lost
  BY <1>3, BelowInherited
<1> HIDE DEF lost
<1>4. Kin'
  <2>1. ASSUME NEW p \in alive', parent'[p] \in missed' PROVE p \in missed'
    <3>1. p \in Processes /\ p \in alive \ dead /\ parent'[p] \in Processes
      BY <1>1, <1>2, <2>1 DEF TypeOK, ProcessesOK
    <3>2. parent'[p] = parent[p]
      BY <1>1, <3>1, <2>1 DEF Processes
    <3> QED
      BY <1>1, <1>3, <2>1, <3>1, <3>2 DEF Family, Kin
  <2>2. /\ Self \in alive' /\ parent'[Self] = Reaper
        /\ \A p \in Processes : parent'[p] \in {parent[p], Reaper}
    BY <1>1 DEF Family, Kin, TypeOK, ProcessesOK
  <2>3. \A p \in alive' : parent'[p] \in alive' \cup {Reaper}
    BY <1>1 DEF Family, Kin, TypeOK, ProcessesOK
  <2>4. /\ {Self, Peer} \subseteq born' \ ours' /\ (Npx \in born' => Npx \in ours')
        /\ \A p \in Processes : parent'[p] \in born' \cup {Reaper}
        /\ \A p \in Processes : parent'[p] = Self => p = Npx
        /\ \A p \in ours' : parent'[p] \in ours' \cup {Self, Reaper}
    BY <1>1, <2>2 DEF Family, Kin, TypeOK, ProcessesOK, Processes
  <2>5. \A p \in alive' : parent'[p] \in ours' => p \in ours'
    BY <1>1, <2>2 DEF Family, Kin, TypeOK, ProcessesOK, Processes
  <2> QED
    BY <2>1, <2>2, <2>3, <2>4, <2>5 DEF Kin
<1>5. Grounded'
  <2> SUFFICES ASSUME NEW S \in SUBSET Processes, S # {} PROVE \E p \in S : parent'[p] \notin S
    BY DEF Grounded
  <2>1. PICK p \in S : parent[p] \notin S
    BY DEF Family, Grounded
  <2>2. parent'[p] \in {parent[p], Reaper} /\ Reaper \notin Processes
    BY <1>1 DEF Processes
  <2> QED
    BY <2>1, <2>2
<1>6. Groups'
  BY <1>1 DEF Family, Groups
<1>7. ASSUME NEW p \in Steady' \ {Self, Peer}
      PROVE  p \in Steady /\ parent'[p] = parent[p] /\ parent[p] \in Steady' \ elsewhere'
  <2>1. p \in Steady /\ p \in alive \ dead /\ p \notin lost /\ p \in Processes
    BY <1>1 DEF Steady, TypeOK, ProcessesOK
  <2>2. parent[p] \in Steady \ elsewhere /\ parent[p] \in Processes
    BY <2>1 DEF Family, Others, Steady, TypeOK, ProcessesOK
  <2>3. parent[p] \notin dead \cup lost
    BY <1>3, <2>1, <2>2
  <2> QED
    BY <1>1, <2>1, <2>2, <2>3 DEF Steady
<1>8. Others'
  BY <1>7 DEF Others
<1>9. Seen'
  <2>1. Members' = Members
    BY DEF Members
  <2>2. ASSUME NEW p \in (Members' \cap Steady') \ {Self, Peer} PROVE shown'[p] = parent'[p]
    BY <1>7, <2>1 DEF Seen
  <2>3. picked' \cap alive' \subseteq ours' \cup adrift' /\ strangers' \subseteq adrift'
    BY <1>1 DEF Seen
  <2>4. picked' \cap before' = {} /\ strangers' \cap before' = {}
        /\ (before' = Nil => strangers' = {})
    BY DEF Seen
  <2>5. before' # Nil /\ Peer \in Members' /\ Peer \in alive' => Peer \in before'
    BY <1>1, <2>1 DEF Seen
  <2> QED
    BY <2>2, <2>3, <2>4, <2>5 DEF Seen
<1>10. ProcessesOK'
  BY <1>1, <1>2 DEF TypeOK, ProcessesOK, Die
<1>11. Members' = Members
  BY DEF Members
<1> QED
  BY <1>1, <1>4, <1>5, <1>6, <1>8, <1>9, <1>10, <1>11 DEF Family

LEMMA RoundBereaved ==
    ASSUME TypeOK, Family, Round, pc = "listing", NEW dead, Self \notin dead, Die(dead),
           UNCHANGED <<before, shown, scan, names, picked>>
    PROVE  Round'
<1> DEFINE lost == Below(dead) \ dead
<1>1. /\ alive' = alive \ dead
      /\ UNCHANGED <<group, elsewhere, born, ours>>
      /\ \A p \in Processes : parent'[p] = IF parent[p] \in dead THEN Reaper ELSE parent[p]
      /\ missed' = missed \cup lost
  BY DEF Die
<1>2. ASSUME NEW q \in alive \ dead, parent[q] \in Processes, parent[q] \in dead \cup lost
      PROVE  q \in lost
  BY <1>2, BelowInherited
<1> HIDE DEF lost
<1>3. ASSUME NEW q \in Due'
      PROVE  /\ q \in Due /\ parent'[q] = parent[q] /\ q \in alive \ dead
             /\ parent[q] \in Due => parent[q] \in Due'
  <2>1. q \in Due /\ q \in alive \ dead /\ q \notin lost /\ q \in Processes
    BY <1>1 DEF Due, TypeOK, ProcessesOK
  <2>2. parent[q] \in Processes => parent[q] \notin dead \cup lost
    BY <1>2, <2>1
  <2>3. parent'[q] = parent[q]
    BY <1>1, <2>1, <2>2 DEF TypeOK, ProcessesOK
  <2>4. parent[q] \in Due => parent[q] \in Due'
    BY <1>1, <2>2 DEF Due, TypeOK, ProcessesOK
  <2> QED
    BY <2>1, <2>3, <2>4
<1>4. Members' = Members /\ Found' = Found /\ Away' \subseteq Away
  BY <1>1 DEF Members, Found, Away
<1>5. \A q \in Members' \cap Due' : shown'[q] = parent'[q]
  BY <1>3, <1>4 DEF Round
<1>6. \A q \in Due' \cap Found' : parent'[q] \in ours' => parent'[q] \in Found' \cup elsewhere'
  BY <1>1, <1>3, <1>4 DEF Round
<1>7. \A q \in Due' \cap Found' : parent'[q] \notin Away'
  BY <1>3, <1>4 DEF Round
<1>8. \A q \in Due' \ Found' :
         group'[q] = "job" => parent'[q] \in Due' /\ group'[parent'[q]] = "job"
  BY <1>1, <1>3, <1>4 DEF Round
<1>9. scan' = "judge" => (Due' \cap Members') \ names' \subseteq picked'
  BY <1>3, <1>4 DEF Round
<1> QED
  BY <1>5, <1>6, <1>7, <1>8, <1>9 DEF Round

\* Who joins is below who started it.
LEMMA GroundedJoined ==
    ASSUME TypeOK, Family, NEW p \in Processes, NEW c \in Processes \ born, p # c,
           parent' = [parent EXCEPT ![c] = p]
    PROVE  Grounded'
<1> SUFFICES ASSUME NEW S \in SUBSET Processes, S # {} PROVE \E q \in S : parent'[q] \notin S
  BY DEF Grounded
<1>1. \A q \in Processes : parent'[q] = IF q = c THEN p ELSE parent[q]
  BY DEF TypeOK, ProcessesOK
<1>2. CASE S = {c}
  BY <1>1, <1>2
<1>3. CASE S # {c}
  <2>1. PICK q \in S \ {c} : parent[q] \notin S \ {c}
    BY <1>3 DEF Family, Grounded
  <2>2. parent[q] # c
    BY <2>1 DEF Family, Kin, Processes
  <2> QED
    BY <1>1, <2>1, <2>2
<1> QED
  BY <1>2, <1>3

\* A process is born of another, below whatever that one is below.
LEMMA Forked ==
    ASSUME TypeOK, Family, Seen, NEW p \in Processes, NEW c \in Pool, Fork(p, c)
    PROVE  Family' /\ Seen' /\ ProcessesOK' /\ (pc = "listing" /\ Round => Round')
<1>1. /\ p \in alive \ {Self} /\ p # c /\ c \in Processes \ born /\ c \notin {Self, Npx, Peer}
      /\ alive' = alive \cup {c} /\ born' = born \cup {c}
      /\ parent' = [parent EXCEPT ![c] = p]
      /\ group' = [group EXCEPT ![c] = group[p]]
      /\ elsewhere' = IF p \in elsewhere THEN elsewhere \cup {c} ELSE elsewhere
      /\ ours' = IF p \in ours THEN ours \cup {c} ELSE ours
      /\ adrift' = IF p \in adrift \cup elsewhere THEN adrift \cup {c} ELSE adrift
      /\ missed' = IF p \in missed THEN missed \cup {c} ELSE missed
      /\ UNCHANGED <<before, picked, strangers, shown, names, scan, pc>>
  BY DEF Fork, Join, Processes, run, scanning, TypeOK, ProcessesOK
<1>2. /\ \A q \in Processes : parent'[q] = IF q = c THEN p ELSE parent[q]
      /\ \A q \in Processes : group'[q] = IF q = c THEN group[p] ELSE group[q]
  BY <1>1 DEF TypeOK, ProcessesOK
<1>3. Grounded'
  BY <1>1, GroundedJoined
<1>4. Kin'
  <2>1. \A q \in Processes : parent[q] \in born \cup {Reaper} /\ parent[q] # c
    BY <1>1 DEF Family, Kin, Processes
  <2>2. \A q \in alive' : parent'[q] \in missed' => q \in missed'
    BY <1>1, <1>2, <2>1 DEF Family, Kin, TypeOK, ProcessesOK
  <2>3. \A q \in alive' : parent'[q] \in ours' => q \in ours'
    BY <1>1, <1>2, <2>1 DEF Family, Kin, TypeOK, ProcessesOK
  <2>4. \A q \in ours' : parent'[q] \in ours' \cup {Self, Reaper}
    BY <1>1, <1>2, <2>1 DEF Family, Kin, TypeOK, ProcessesOK
  <2>5. /\ Self \in alive' /\ parent'[Self] = Reaper
        /\ {Self, Peer} \subseteq born' \ ours' /\ (Npx \in born' => Npx \in ours')
        /\ \A q \in Processes : parent'[q] \in born' \cup {Reaper}
        /\ \A q \in Processes : parent'[q] = Self => q = Npx
        /\ \A q \in alive' : parent'[q] \in alive' \cup {Reaper}
    BY <1>1, <1>2, <2>1 DEF Family, Kin, TypeOK, ProcessesOK, Processes
  <2> QED
    BY <2>2, <2>3, <2>4, <2>5 DEF Kin
<1>5. Groups'
  BY <1>1, <1>2 DEF Family, Groups, Kin, TypeOK, ProcessesOK
<1>6. Steady \subseteq Steady' /\ Steady' \subseteq Steady \cup {c}
      /\ Steady' \cap (elsewhere' \ elsewhere) \subseteq {c}
      /\ (c \in Steady' => p \in Steady \ elsewhere)
  BY <1>1 DEF Steady, TypeOK, ProcessesOK
<1>7. Others'
  BY <1>1, <1>2, <1>6 DEF Family, Others, Steady, TypeOK, ProcessesOK, Processes
<1>8. Members' = Members /\ c \notin Members
  BY <1>1 DEF Members, TypeOK, ProcessesOK
<1>9. Seen'
  <2>1. \A q \in (Members' \cap Steady') \ {Self, Peer} : shown'[q] = parent'[q]
    BY <1>1, <1>2, <1>6, <1>8 DEF Seen, Steady, TypeOK, ProcessesOK
  <2>2. picked' \cap alive' \subseteq ours' \cup adrift' /\ strangers' \subseteq adrift'
    BY <1>1 DEF Seen, TypeOK, ProcessesOK
  <2>3. picked' \cap before' = {} /\ strangers' \cap before' = {}
        /\ (before' = Nil => strangers' = {})
    BY <1>1 DEF Seen
  <2>4. before' # Nil /\ Peer \in Members' /\ Peer \in alive' => Peer \in before'
    BY <1>1, <1>8 DEF Seen
  <2> QED
    BY <2>1, <2>2, <2>3, <2>4 DEF Seen
<1>10. ASSUME Round PROVE Round'
  <2>1. Found' = Found /\ c \notin Found
    BY <1>1, <1>8 DEF Found, TypeOK, ProcessesOK
  <2>2. Due \subseteq Due' /\ Due' \subseteq Due \cup {c}
        /\ (c \in Due' => p \in Due) /\ Due \subseteq Processes
    BY <1>1 DEF Due, TypeOK, ProcessesOK
  <2>3. \A q \in Due : parent'[q] = parent[q] /\ q # c /\ q \in Processes /\ parent[q] # c
    BY <1>1, <1>2, <2>2 DEF Due, Family, Kin, TypeOK, ProcessesOK, Processes
  <2>4. \A q \in Members' \cap Due' : shown'[q] = parent'[q]
    BY <1>1, <1>8, <1>10, <2>2, <2>3 DEF Round
  <2>5. \A q \in Due' \cap Found' : parent'[q] \in ours' => parent'[q] \in Found' \cup elsewhere'
    BY <1>1, <1>10, <2>1, <2>2, <2>3 DEF Round
  <2>6. \A q \in Due' \cap Found' : parent'[q] \notin Away'
    <3>1. ASSUME NEW q \in Due \cap Found PROVE parent[q] \notin Away'
      <4>1. parent[q] \notin Away /\ parent[q] # c
        BY <1>10, <2>3, <3>1 DEF Round
      <4>2. Away' \subseteq Away \cup {c}
        BY <1>1, <1>2 DEF Away, TypeOK, ProcessesOK
      <4> QED
        BY <4>1, <4>2
    <3> QED
      BY <2>1, <2>2, <2>3, <3>1
  <2>7. \A q \in Due' \ Found' :
           group'[q] = "job" => parent'[q] \in Due' /\ group'[parent'[q]] = "job"
    <3>1. ASSUME NEW q \in Due \ Found, group'[q] = "job"
          PROVE  parent'[q] \in Due' /\ group'[parent'[q]] = "job"
      <4>1. q \in Processes /\ q # c /\ parent'[q] = parent[q] /\ group[q] = "job"
        BY <1>2, <2>2, <2>3, <3>1
      <4>2. parent[q] \in Due /\ group[parent[q]] = "job"
        BY <1>10, <3>1, <4>1 DEF Round
      <4>3. parent[q] \in Processes /\ parent[q] # c
        BY <2>2, <2>3, <4>2
      <4> QED
        BY <1>2, <2>2, <4>1, <4>2, <4>3
    <3>2. ASSUME c \in Due', group'[c] = "job"
          PROVE  parent'[c] \in Due' /\ group'[parent'[c]] = "job"
      BY <1>1, <1>2, <2>2, <3>2
    <3> QED
      BY <2>1, <2>2, <3>1, <3>2
  <2>8. scan' = "judge" => (Due' \cap Members') \ names' \subseteq picked'
    BY <1>1, <1>8, <1>10, <2>2 DEF Round
  <2> QED
    BY <1>1, <1>10, <2>4, <2>5, <2>6, <2>7, <2>8 DEF Round
<1>11. ProcessesOK'
  BY <1>1 DEF TypeOK, ProcessesOK
<1> QED
  BY <1>3, <1>4, <1>5, <1>7, <1>9, <1>10, <1>11 DEF Family

\* What leaves its group may leave all that is below it adrift, or missed.
LEMMA Left ==
    ASSUME TypeOK, Family, Seen, NEW p \in Processes, NEW session \in BOOLEAN,
           Leave(p, session)
    PROVE  Family' /\ Seen' /\ ProcessesOK' /\ (pc = "listing" /\ Round => Round')
<1>1. /\ p \in alive \ {Self}
      /\ group' = [group EXCEPT ![p] = "left"]
      /\ elsewhere' = IF session THEN elsewhere \cup {p} ELSE elsewhere
      /\ adrift' = IF session THEN adrift \cup Below({p}) ELSE adrift
      /\ missed' = IF pc = "listing" THEN missed \cup Below({p}) ELSE missed
      /\ UNCHANGED <<alive, parent, born, ours, before, picked, strangers, shown, names, scan, pc>>
  BY DEF Leave, run, scanning
<1>2. Below({p}) \subseteq alive
  BY DEF Below
<1>3. ASSUME NEW q \in alive, parent[q] \in Processes, parent[q] \in {p} \cup Below({p})
      PROVE  q \in Below({p})
  BY <1>3, BelowInherited
<1> DEFINE below == Below({p})
<1> HIDE DEF below
<1>4. Kin'
  <2>1. ASSUME NEW q \in alive', parent'[q] \in missed' PROVE q \in missed'
    <3>1. parent[q] \in missed => q \in missed
      BY <1>1, <2>1 DEF Family, Kin
    <3>2. parent[q] \in Below({p}) => q \in Below({p})
      BY <1>1, <1>2, <1>3, <2>1 DEF TypeOK, ProcessesOK
    <3> QED
      BY <1>1, <2>1, <3>1, <3>2
  <2> QED
    BY <1>1, <2>1 DEF Family, Kin
<1>5. Grounded'
  BY <1>1 DEF Family, Grounded
<1>6. Groups'
  BY <1>1 DEF Family, Groups, TypeOK, ProcessesOK
<1>7. Steady' \subseteq Steady
  BY <1>1 DEF Steady
<1>8. Others'
  <2> SUFFICES ASSUME NEW q \in Steady' \ {Self, Peer}
               PROVE  parent[q] \in Steady' \ elsewhere'
    BY <1>1 DEF Others
  <2>1. q \in Steady /\ q \in alive /\ parent[q] \in Steady \ elsewhere
        /\ parent[q] \in Processes
    BY <1>7 DEF Family, Others, Steady, TypeOK, ProcessesOK
  <2>2. session => q \notin Below({p})
    BY <1>1 DEF Steady
  <2>3. session => parent[q] \notin {p} \cup Below({p})
    BY <1>3, <2>1, <2>2
  <2> QED
    BY <1>1, <2>1, <2>3 DEF Steady
<1>9. Seen'
  <2>1. Members' = Members /\ adrift \subseteq adrift'
    BY <1>1 DEF Members
  <2> QED
    BY <1>1, <1>7, <2>1 DEF Seen
<1>10. ASSUME Round, pc = "listing" PROVE Round'
  <2>1. Found' = Found /\ Members' = Members
    BY <1>1 DEF Found, Members
  <2>2. ASSUME NEW q \in Due'
        PROVE  /\ q \in Due /\ q \in alive /\ q \in Processes /\ parent[q] # p
               /\ parent[q] \in Due => parent[q] \in Due'
    <3>1. q \in Due /\ q \in alive /\ q \notin Below({p}) /\ q \in Processes
      BY <1>1, <1>10 DEF Due, TypeOK, ProcessesOK
    <3>2. parent[q] \in Processes => parent[q] \notin {p} \cup Below({p})
      BY <1>3, <3>1
    <3> QED
      BY <1>1, <3>1, <3>2 DEF Due, TypeOK, ProcessesOK
  <2>3. Away' \subseteq Away \cup {p} /\ \A q \in Processes \ {p} : group'[q] = group[q]
    BY <1>1 DEF Away, TypeOK, ProcessesOK
  <2>4. \A q \in Members' \cap Due' : shown'[q] = parent'[q]
    BY <1>1, <1>10, <2>1, <2>2 DEF Round
  <2>5. \A q \in Due' \cap Found' : parent'[q] \in ours' => parent'[q] \in Found' \cup elsewhere'
    BY <1>1, <1>10, <2>1, <2>2 DEF Round
  <2>6. \A q \in Due' \cap Found' : parent'[q] \notin Away'
    BY <1>1, <1>10, <2>1, <2>2, <2>3 DEF Round
  <2>7. ASSUME NEW q \in Due' \ Found', group'[q] = "job"
        PROVE  parent'[q] \in Due' /\ group'[parent'[q]] = "job"
    <3>1. q # p
      BY <1>1, <2>7 DEF TypeOK, ProcessesOK
    <3>2. group[q] = "job" /\ q \in Due \ Found
      BY <2>1, <2>2, <2>3, <2>7, <3>1
    <3>3. parent[q] \in Due /\ group[parent[q]] = "job"
      BY <1>10, <3>2 DEF Round
    <3>4. parent[q] \in Processes
      BY <3>3 DEF Due, TypeOK, ProcessesOK
    <3> QED
      BY <1>1, <2>2, <2>3, <3>3, <3>4
  <2>8. scan' = "judge" => (Due' \cap Members') \ names' \subseteq picked'
    BY <1>1, <1>10, <2>1, <2>2 DEF Round
  <2> QED
    BY <1>1, <1>10, <2>4, <2>5, <2>6, <2>7, <2>8 DEF Round
<1>11. ProcessesOK'
  BY <1>1, <1>2 DEF TypeOK, ProcessesOK
<1> QED
  BY <1>4, <1>5, <1>6, <1>8, <1>9, <1>10, <1>11 DEF Family

\* The group is as it was before the inspector, or could not be listed.
LEMMA Placed ==
    ASSUME TypeOK, Family, Seen, ours = {}, picked = {}, strangers = {}, Members = {},
           UNCHANGED <<process, missed, picked, strangers, shown>>, before' \in {In("job"), Nil}
    PROVE  Family' /\ Seen' /\ ProcessesOK' /\ before' \subseteq born'
<1>1. In("job") \subseteq alive /\ \A p \in alive : group[p] = "job" => p \in In("job")
  BY DEF In
<1>2. Self \in In("job") /\ (Peer \in alive /\ group[Peer] = "job" => Peer \in In("job"))
  BY <1>1 DEF Family, Kin, Groups
<1>3. Kin' /\ Grounded' /\ Others'
  BY DEF Family, Kin, Grounded, Others, Steady, process
<1>4. Groups'
  BY <1>1, <1>2 DEF Family, Groups, Kin, process, Nil
<1>5. Members' = {}
  BY DEF Members
<1>6. Seen'
  BY <1>5 DEF Seen
<1> QED
  BY <1>1, <1>3, <1>4, <1>6 DEF Family, TypeOK, ProcessesOK, process, Nil

\* The inspector is the first of the run's processes.
LEMMA FirstStarted ==
    ASSUME TypeOK, Family, Seen, Start, Npx \notin born, ours = {}, Members = {}, picked = {},
           missed = {}
    PROVE  Family' /\ Seen' /\ ProcessesOK'
<1>1. /\ alive' = alive \cup {Npx} /\ born' = born \cup {Npx} /\ ours' = {Npx}
      /\ parent' = [parent EXCEPT ![Npx] = Self]
      /\ group' = [group EXCEPT ![Npx] = IF before = Nil THEN "own" ELSE "job"]
      /\ UNCHANGED <<adrift, elsewhere, missed, before, picked, strangers, shown>>
      /\ Npx \in Processes \ born /\ Self \in Processes /\ Npx \notin {Self, Peer}
  BY DEF Start, Join, run, scanning, listing, Processes
<1>2. /\ \A q \in Processes : parent'[q] = IF q = Npx THEN Self ELSE parent[q]
      /\ \A q \in Processes \ {Npx} : group'[q] = group[q]
      /\ group'[Npx] = IF before = Nil THEN "own" ELSE "job"
      /\ \A q \in Processes : parent[q] # Npx
  BY <1>1 DEF TypeOK, ProcessesOK, Family, Kin, Processes
<1>3. Grounded'
  BY <1>1, GroundedJoined
<1>4. Kin'
  BY <1>1, <1>2 DEF Family, Kin, TypeOK, ProcessesOK
<1>5. Groups'
  BY <1>1, <1>2 DEF Family, Groups, Kin, TypeOK, ProcessesOK
<1>6. Steady' = Steady
  BY <1>1 DEF Steady, TypeOK, ProcessesOK
<1>7. Others'
  BY <1>1, <1>2, <1>6 DEF Family, Others, Steady, TypeOK, ProcessesOK
<1>8. Seen'
  <2>1. Members' = {}
    BY <1>1 DEF Members
  <2> QED
    BY <1>1, <2>1 DEF Seen
<1>9. ProcessesOK'
  BY <1>1 DEF TypeOK, ProcessesOK
<1> QED
  BY <1>3, <1>4, <1>5, <1>7, <1>8, <1>9 DEF Family

\* A round begins with all that is due, but for what need not be shown.
LEMMA RoundBegun ==
    ASSUME TypeOK, Family, Npx \notin alive, before # Nil, Begin,
           missed' = Below(Away), UNCHANGED <<process, before>>
    PROVE  Round'
<1>1. /\ scan' = "read" /\ names' = alive \ {Self} /\ shown' = Nothing
      /\ UNCHANGED <<alive, parent, group, elsewhere, born, ours>>
  BY DEF Begin, process
<1>2. Members' = {}
  BY <1>1 DEF Members, Nothing
<1>3. Found' = alive \ {Self}
  BY <1>1, <1>2 DEF Found
<1>4. Due' = (ours \cap alive) \ Below(Away) /\ Away' = Away
  BY <1>1 DEF Due, Away
<1>5. Due' \subseteq Found'
  BY <1>3, <1>4 DEF Family, Kin
<1>6. ASSUME NEW q \in Due' PROVE parent[q] \in ours => parent[q] \in Found'
  BY <1>3, <1>4, <1>6 DEF Family, Kin, TypeOK, ProcessesOK, Processes
<1>7. ASSUME NEW q \in Due' PROVE parent[q] \notin Away
  BY <1>4, <1>7, BelowInherited DEF Away, TypeOK, ProcessesOK
<1> QED
  BY <1>1, <1>2, <1>3, <1>4, <1>5, <1>6, <1>7 DEF Round

LEMMA SeenBegun ==
    ASSUME TypeOK, Seen, Begin, UNCHANGED <<process, before, strangers>>
    PROVE  /\ Seen' /\ Members' = {} /\ picked' = {} /\ names' \subseteq born
           /\ shown' \in [Processes -> Processes \cup {Reaper, Nobody}]
<1>1. /\ Members' = {} /\ picked' = {}
      /\ shown' \in [Processes -> Processes \cup {Reaper, Nobody}]
  BY DEF Begin, Members, Nothing
<1>2. names' \subseteq born
  BY DEF Begin, TypeOK, ProcessesOK
<1> QED
  BY <1>1, <1>2 DEF Seen, process

\* A process is looked up: what the listing shows of it is so.
LEMMA LookedUp ==
    ASSUME TypeOK, Family, Seen, Phases, NEW p \in Processes, LookUp(p)
    PROVE  /\ Seen' /\ Members \subseteq Members' /\ Members' \subseteq born
           /\ shown' \in [Processes -> Processes \cup {Reaper, Nobody}]
           /\ pc = "listing" /\ Round => Round'
<1>1. /\ scan = "read" /\ p \in names /\ names' = names \ {p}
      /\ shown' = IF p \in In("job") THEN [shown EXCEPT ![p] = parent[p]] ELSE shown
      /\ UNCHANGED <<pc, strangers, process, before, scan, picked, missed>>
  BY DEF LookUp, run
<1>2. p \in In("job") <=> p \in alive /\ group[p] = "job"
  BY DEF In
<1>3. \A q \in Processes : shown'[q] = IF q = p /\ p \in In("job") THEN parent[p] ELSE shown[q]
  BY <1>1 DEF TypeOK, ProcessesOK
<1>4. Nobody \notin Processes /\ parent[p] # Nobody
  BY DEF TypeOK, ProcessesOK, Processes
<1>5. Members' = IF p \in In("job") THEN Members \cup {p} ELSE Members
  BY <1>3, <1>4 DEF Members
<1>6. Seen'
  <2>1. Steady' = Steady
    BY <1>1 DEF Steady, process
  <2>2. \A q \in (Members' \cap Steady') \ {Self, Peer} : shown'[q] = parent'[q]
    BY <1>1, <1>3, <1>5, <2>1 DEF Seen, Members, process
  <2>3. before' # Nil /\ Peer \in Members' /\ Peer \in alive' => Peer \in before'
    BY <1>1, <1>2, <1>5 DEF Seen, Family, Groups, process
  <2> QED
    BY <1>1, <2>2, <2>3 DEF Seen, process
<1>7. Members' \subseteq born /\ shown' \in [Processes -> Processes \cup {Reaper, Nobody}]
  BY <1>1, <1>2, <1>5 DEF TypeOK, ProcessesOK
<1>8. ASSUME Round, pc = "listing" PROVE Round'
  <2>1. Due' = Due /\ Away' = Away /\ Found = Members \cup names
    BY <1>1 DEF Due, Away, Found, process
  <2>2. Found' = IF p \in In("job") THEN Found ELSE Members \cup (names \ {p})
    BY <1>1, <1>5, <2>1 DEF Found
  <2>3. Found' \subseteq Found /\ Found \subseteq Found' \cup {p} /\ (p \notin Found' => p \notin In("job"))
    BY <1>1, <2>1, <2>2
  <2>4. \A q \in Members' \cap Due' : shown'[q] = parent'[q]
    BY <1>1, <1>3, <1>5, <1>8, <2>1 DEF Round, Members, process
  <2>5. ASSUME NEW q \in Due \cap Found', parent[q] \in ours
        PROVE  parent[q] \in Found' \cup elsewhere
    <3>1. q \in Due \cap Found /\ parent[q] \in Found \cup elsewhere /\ parent[q] \notin Away
      BY <1>8, <2>3, <2>5 DEF Round
    <3>2. CASE parent[q] = p /\ p \notin In("job")
      <4>1. p \in alive /\ p \in ours
        BY <2>5, <3>2 DEF Due, Family, Kin, TypeOK, ProcessesOK, Processes
      <4>2. before # Nil
        BY <1>1 DEF Phases
      <4>3. group[p] = "left"
        BY <1>2, <3>2, <4>1, <4>2 DEF Family, Groups, TypeOK, ProcessesOK
      <4> QED
        BY <3>1, <3>2, <4>1, <4>3 DEF Away
    <3> QED
      BY <2>3, <3>1, <3>2
  <2>6. \A q \in Due' \cap Found' : parent'[q] \notin Away'
    BY <1>1, <1>8, <2>1, <2>3 DEF Round, process
  <2>7. ASSUME NEW q \in Due \ Found', group[q] = "job"
        PROVE  parent[q] \in Due /\ group[parent[q]] = "job"
    <3>1. q \notin Found
      BY <1>2, <2>3, <2>7 DEF Due
    <3> QED
      BY <1>8, <2>7, <3>1 DEF Round
  <2> QED
    BY <1>1, <1>8, <2>1, <2>4, <2>5, <2>6, <2>7 DEF Round, process
<1> QED
  BY <1>5, <1>6, <1>7, <1>8

LEMMA Compared ==
    ASSUME TypeOK, Family, Seen, Compare
    PROVE  Seen' /\ Members' = Members /\ (Round => Round')
<1>1. /\ scan = "read" /\ names = {} /\ scan' = "judge"
      /\ names' = Members \ (before \cup {Self})
      /\ UNCHANGED <<strangers, process, before, shown, picked, missed>>
  BY DEF Compare, run
<1>2. Seen' /\ Members' = Members
  BY <1>1, SeenKept DEF Members
<1>3. ASSUME Round PROVE Round'
  <2>1. Due' = Due /\ Away' = Away /\ Found' = Found
    BY <1>1, <1>2 DEF Due, Away, Found, process
  <2>2. Due \cap (before \cup {Self}) = {}
    BY DEF Due, Family, Groups, Kin
  <2> QED
    BY <1>1, <1>2, <1>3, <2>1, <2>2 DEF Round, process
<1> QED
  BY <1>2, <1>3

\* What others started is not taken for the run's, as long as all it came from
\* is above it.
LEMMA OthersNotStarted ==
    ASSUME TypeOK, Family, Seen, before # Nil, NEW p \in Steady, Started(p)
    PROVE  FALSE
<1>1. PICK line \in SUBSET (Members \ (before \cup {Self})) :
         /\ p \in line
         /\ \A q \in line :
               \/ shown[q] \in line \cup {Self}
               \/ shown[q] \notin Members /\ IsReaper(shown[q])
  BY DEF Started
<1> DEFINE K == line \cap Steady
<1>2. ASSUME NEW q \in K PROVE parent[q] \in K
  <2>1. q \in Members /\ q \in alive /\ q \notin {Self, Peer} /\ q \in Steady
    BY <1>1 DEF Seen, Steady
  <2>2. shown[q] = parent[q] /\ parent[q] \in Steady \ elsewhere
    BY <2>1 DEF Seen, Family, Others
  <2>3. parent[q] # Reaper /\ parent[q] # Self
    BY <2>1, <2>2 DEF Steady, TypeOK, ProcessesOK, Processes, Family, Kin
  <2>4. ~IsReaper(shown[q])
    BY <2>2, <2>3 DEF IsReaper
  <2> QED
    BY <1>1, <2>2, <2>3, <2>4
<1>3. K \in SUBSET Processes /\ K # {}
  BY <1>1 DEF Members
<1> HIDE DEF K
<1> QED
  BY <1>2, <1>3 DEF Family, Grounded

\* What is due and shown is taken for the run's.
LEMMA DueIsStarted ==
    ASSUME TypeOK, Family, Round, scan = "judge", Npx \notin alive, NEW p \in Due \cap Members
    PROVE  Started(p)
<1> DEFINE line == Due \cap Members
<1>1. line \in SUBSET (Members \ (before \cup {Self}))
  BY DEF Due, Family, Groups, Kin
<1>2. ASSUME NEW q \in line
      PROVE  \/ shown[q] \in line \cup {Self}
             \/ shown[q] \notin Members /\ IsReaper(shown[q])
  <2>1. shown[q] = parent[q] /\ q \in ours /\ q \in alive /\ q \notin missed
    BY DEF Round, Due
  <2>2. CASE parent[q] = Self
    BY <2>1, <2>2
  <2>3. CASE parent[q] = Reaper
    BY <2>1, <2>3 DEF IsReaper, Members, Processes
  <2>4. CASE parent[q] \in ours
    <3>1. parent[q] \in Due
      BY <2>1, <2>4 DEF Due, Family, Kin, TypeOK, ProcessesOK, Processes
    <3>2. parent[q] \in Members \cup elsewhere
      BY <2>4 DEF Round, Found
    <3> QED
      BY <2>1, <3>1, <3>2 DEF IsReaper, Due
  <2> QED
    BY <2>1, <2>2, <2>3, <2>4 DEF Family, Kin
<1> HIDE DEF line
<1>3. p \in line
  BY DEF line
<1> QED
  BY <1>1, <1>2, <1>3 DEF Started

LEMMA Considered ==
    ASSUME TypeOK, Family, Seen, Phases, NEW p \in Processes, Consider(p)
    PROVE  /\ Seen' /\ Members' = Members
           /\ Round /\ Npx \notin alive => Round'
<1>1. /\ scan = "judge" /\ p \in names /\ names' = names \ {p} /\ before # Nil
      /\ picked' = IF Started(p) THEN picked \cup {p} ELSE picked
      /\ UNCHANGED <<scan, strangers, process, before, shown, missed>>
  BY DEF Consider, run, Phases
<1>2. Started(p) => p \notin before /\ p \notin Steady
  BY <1>1, OthersNotStarted DEF Started
<1>3. Members' = Members /\ Steady' = Steady
  BY <1>1 DEF Members, Steady, process
<1>4. Seen'
  <2>1. picked' \cap before' = {} /\ picked' \cap alive' \subseteq ours' \cup adrift'
    BY <1>1, <1>2 DEF Seen, Steady, process
  <2> QED
    BY <1>1, <1>3, <2>1 DEF Seen, process
<1>5. ASSUME Round, Npx \notin alive PROVE Round'
  <2>1. Due' = Due /\ Away' = Away /\ Found' = Found
    BY <1>1, <1>3 DEF Due, Away, Found, process
  <2>2. (Due \cap Members) \ names' \subseteq picked'
    BY <1>1, <1>5, DueIsStarted DEF Round
  <2> QED
    BY <1>1, <1>3, <1>5, <2>1, <2>2 DEF Round, process
<1> QED
  BY <1>3, <1>4, <1>5

\* A round that picked nothing has nothing left to find in the group.
LEMMA NothingDue ==
    ASSUME TypeOK, Family, Round, scan = "judge", names = {}, picked = {}
    PROVE  \A p \in ours \cap alive : group[p] # "job" \/ p \in missed
<1> DEFINE T == {p \in Due : group[p] = "job"}
<1>1. Due \cap Members = {} /\ Found = Members
  BY DEF Round, Found
<1>2. ASSUME NEW q \in T PROVE parent[q] \in T
  BY <1>1 DEF Round
<1>3. T \in SUBSET Processes
  BY DEF Due, TypeOK, ProcessesOK
<1> HIDE DEF T
<1>4. T = {}
  BY <1>2, <1>3 DEF Family, Grounded
<1> QED
  BY <1>4 DEF T, Due

LEMMA InspectorStep == InspectorInv /\ [Next]_vars => InspectorInv'
<1> SUFFICES ASSUME InspectorInv, [Next]_vars PROVE InspectorInv'
  OBVIOUS
<1> USE DEF InspectorInv, Control
<1>1. ASSUME NEW p \in Processes, NEW c \in Pool, Fork(p, c) PROVE InspectorInv'
  <2>1. Family' /\ Seen' /\ ProcessesOK'
    BY <1>1, Forked
  <2>2. Rounds'
    BY <1>1, Forked DEF Rounds, Fork
  <2>3. TypeOK'
    BY <1>1, <2>1 DEF TypeOK, Fork, Join, Over, stop, run, scanning, Processes, Members
  <2>4. Phases' /\ Cleared'
    BY <1>1, <2>1 DEF TypeOK, ProcessesOK, Family, Kin, Phases, Cleared, Starting,
       Running, Finished, Fork, Join, Over, stop, run, scanning, Processes, Members
  <2>5. Judged'
    BY <1>1, <2>1 DEF TypeOK, ProcessesOK, Phases, Judged, Starting, Running, Fork, Join,
       Over, stop, run, scanning, Processes, Members
  <2> QED
    BY <2>1, <2>2, <2>3, <2>4, <2>5
<1>2. ASSUME NEW p \in Processes, Exit(p) PROVE InspectorInv'
  <2>1. Family' /\ Seen' /\ ProcessesOK' /\ alive' \subseteq alive /\ Members' = Members
    BY <1>2, Bereaved DEF Exit, Over, stop, run, scanning
  <2>2. Rounds'
    BY <1>2, RoundBereaved DEF Rounds, Exit, stop, run, scanning
  <2>3. TypeOK'
    BY <1>2, <2>1 DEF TypeOK, Exit, Over, Die, stop, run, scanning
  <2>4. Phases' /\ Cleared'
    BY <1>2, <2>1 DEF TypeOK, ProcessesOK, Family, Kin, Phases, Cleared, Starting,
       Running, Finished, Exit, Over, Die, stop, run, scanning
  <2>5. Judged'
    BY <1>2, <2>1 DEF TypeOK, ProcessesOK, Phases, Judged, Starting, Running, Exit, Over,
       Die, stop, run, scanning
  <2> QED
    BY <2>1, <2>2, <2>3, <2>4, <2>5
<1>3. ASSUME NEW how \in {"ok", "fail", "stop"}, InspectorExits(how) PROVE InspectorInv'
  <2>1. Family' /\ Seen' /\ ProcessesOK' /\ alive' \subseteq alive /\ Members' = Members
    BY <1>3, Bereaved DEF InspectorExits, stop, run, scanning
  <2>2. Rounds'
    BY <1>3, RoundBereaved DEF Rounds, InspectorExits, stop, run, scanning
  <2>3. TypeOK'
    BY <1>3, <2>1 DEF TypeOK, InspectorExits, Die, stop, run, scanning
  <2>4. Phases' /\ Cleared'
    BY <1>3, <2>1 DEF TypeOK, ProcessesOK, Family, Kin, Phases, Cleared, Starting,
       Running, Finished, InspectorExits, Die, stop, run, scanning
  <2>5. Judged'
    BY <1>3, <2>1 DEF TypeOK, ProcessesOK, Phases, Judged, Starting, Running,
       InspectorExits, Die, stop, run, scanning
  <2> QED
    BY <2>1, <2>2, <2>3, <2>4, <2>5
<1>4. ASSUME NEW p \in Processes, NEW session \in BOOLEAN, Leave(p, session) PROVE InspectorInv'
  <2>1. Family' /\ Seen' /\ ProcessesOK'
    BY <1>4, Left
  <2>2. Rounds'
    BY <1>4, Left DEF Rounds, Leave
  <2>3. TypeOK'
    BY <1>4, <2>1 DEF TypeOK, Leave, Over, Spend, stop, run, scanning, Members
  <2>4. Phases' /\ Cleared'
    BY <1>4, <2>1 DEF TypeOK, ProcessesOK, Family, Kin, Phases, Cleared, Starting,
       Running, Finished, Leave, Over, Spend, stop, run, scanning, Members
  <2>5. Judged'
    BY <1>4, <2>1 DEF TypeOK, ProcessesOK, Phases, Judged, Starting, Running, Leave, Over,
       Spend, stop, run, scanning, Members
  <2> QED
    BY <2>1, <2>2, <2>3, <2>4, <2>5
<1>5. ASSUME NEW sig \in Stops, TypeStop(sig) PROVE InspectorInv'
  <2>1. Family' /\ Seen' /\ ProcessesOK' /\ Members' = Members
    BY <1>5, FamilyKept, SeenKept DEF TypeStop, Over, Spend, In, process, stop, run,
       scanning, listing
  <2>2. Rounds'
    BY <1>5, RoundKept DEF Rounds, TypeStop, Over, Spend, In, process, stop, run,
       scanning, listing
  <2>3. TypeOK'
    BY <1>5, <2>1 DEF TypeOK, TypeStop, Over, Spend, In, process, stop, run, scanning,
       listing
  <2>4. Phases' /\ Cleared'
    BY <1>5, <2>1 DEF TypeOK, ProcessesOK, Family, Kin, Phases, Cleared, Starting,
       Running, Finished, TypeStop, Over, Spend, In, process, stop, run, scanning, listing
  <2>5. Judged'
    BY <1>5, <2>1 DEF TypeOK, ProcessesOK, Phases, Judged, Starting, Running, TypeStop,
       Over, Spend, In, process, stop, run, scanning, listing
  <2> QED
    BY <2>1, <2>2, <2>3, <2>4, <2>5
<1>6. ASSUME NEW sig \in Stops, StopCommand(sig) PROVE InspectorInv'
  <2>1. Family' /\ Seen' /\ ProcessesOK' /\ Members' = Members
    BY <1>6, FamilyKept, SeenKept DEF StopCommand, Over, Spend, process, stop, run,
       scanning, listing
  <2>2. Rounds'
    BY <1>6, RoundKept DEF Rounds, StopCommand, Over, Spend, process, stop, run, scanning,
       listing
  <2>3. TypeOK'
    BY <1>6, <2>1 DEF TypeOK, StopCommand, Over, Spend, process, stop, run, scanning,
       listing
  <2>4. Phases' /\ Cleared'
    BY <1>6, <2>1 DEF TypeOK, ProcessesOK, Family, Kin, Phases, Cleared, Starting,
       Running, Finished, StopCommand, Over, Spend, process, stop, run, scanning, listing
  <2>5. Judged'
    BY <1>6, <2>1 DEF TypeOK, ProcessesOK, Phases, Judged, Starting, Running, StopCommand,
       Over, Spend, process, stop, run, scanning, listing
  <2> QED
    BY <2>1, <2>2, <2>3, <2>4, <2>5
<1>7. ASSUME StopInspector PROVE InspectorInv'
  <2>1. Family' /\ Seen' /\ ProcessesOK' /\ Members' = Members
    BY <1>7, FamilyKept, SeenKept DEF StopInspector, Spend, process, stop, run, scanning,
       listing
  <2>2. Rounds'
    BY <1>7, RoundKept DEF Rounds, StopInspector, Spend, process, stop, run, scanning,
       listing
  <2>3. TypeOK'
    BY <1>7, <2>1 DEF TypeOK, StopInspector, Spend, process, stop, run, scanning, listing
  <2>4. Phases' /\ Cleared'
    BY <1>7, <2>1 DEF TypeOK, ProcessesOK, Family, Kin, Phases, Cleared, Starting,
       Running, Finished, StopInspector, Spend, process, stop, run, scanning, listing
  <2>5. Judged'
    BY <1>7, <2>1 DEF TypeOK, ProcessesOK, Phases, Judged, Starting, Running,
       StopInspector, Spend, process, stop, run, scanning, listing
  <2> QED
    BY <2>1, <2>2, <2>3, <2>4, <2>5
<1>8. ASSUME Deliver PROVE InspectorInv'
  <2>1. Family' /\ Seen' /\ ProcessesOK' /\ Members' = Members
    BY <1>8, FamilyKept, SeenKept DEF Deliver, Over, Caught, process, stop, run, scanning,
       listing
  <2>2. Rounds'
    BY <1>8, RoundKept DEF Rounds, Deliver, Over, Caught, process, stop, run, scanning,
       listing
  <2>3. TypeOK'
    BY <1>8, <2>1 DEF TypeOK, Deliver, Over, Caught, process, stop, run, scanning, listing
  <2>4. Phases' /\ Cleared'
    BY <1>8, <2>1 DEF TypeOK, ProcessesOK, Family, Kin, Phases, Cleared, Starting,
       Running, Finished, Deliver, Over, Caught, process, stop, run, scanning, listing
  <2>5. Judged'
    BY <1>8, <2>1 DEF TypeOK, ProcessesOK, Phases, Judged, Starting, Running, Deliver,
       Over, Caught, process, stop, run, scanning, listing
  <2> QED
    BY <2>1, <2>2, <2>3, <2>4, <2>5
<1>9. ASSUME WriteConfig PROVE InspectorInv'
  <2>1. Family' /\ Seen' /\ ProcessesOK' /\ Members' = Members
    BY <1>9, FamilyKept, SeenKept DEF WriteConfig, process, stop, run, scanning, listing
  <2>2. Rounds'
    BY <1>9, RoundKept DEF Rounds, WriteConfig, process, stop, run, scanning, listing
  <2>3. TypeOK'
    BY <1>9, <2>1 DEF TypeOK, WriteConfig, process, stop, run, scanning, listing
  <2>4. Phases' /\ Cleared'
    BY <1>9, <2>1 DEF TypeOK, ProcessesOK, Family, Kin, Phases, Cleared, Starting,
       Running, Finished, WriteConfig, process, stop, run, scanning, listing
  <2>5. Judged'
    BY <1>9, <2>1 DEF TypeOK, ProcessesOK, Phases, Judged, Starting, Running, WriteConfig,
       process, stop, run, scanning, listing
  <2> QED
    BY <2>1, <2>2, <2>3, <2>4, <2>5
<1>10. ASSUME Watch PROVE InspectorInv'
  <2>1. Family' /\ Seen' /\ ProcessesOK' /\ Members' = Members
    BY <1>10, FamilyKept, SeenKept DEF Watch, process, stop, run, scanning, listing
  <2>2. Rounds'
    BY <1>10, RoundKept DEF Rounds, Watch, process, stop, run, scanning, listing
  <2>3. TypeOK'
    BY <1>10, <2>1 DEF TypeOK, Watch, process, stop, run, scanning, listing
  <2>4. Phases' /\ Cleared'
    BY <1>10, <2>1 DEF TypeOK, ProcessesOK, Family, Kin, Phases, Cleared, Starting,
       Running, Finished, Watch, process, stop, run, scanning, listing
  <2>5. Judged'
    BY <1>10, <2>1 DEF TypeOK, ProcessesOK, Phases, Judged, Starting, Running, Watch,
       process, stop, run, scanning, listing
  <2> QED
    BY <2>1, <2>2, <2>3, <2>4, <2>5
<1>11. ASSUME Place PROVE InspectorInv'
  <2>1. Family' /\ Seen' /\ ProcessesOK' /\ before' \subseteq born'
    BY <1>11, Placed DEF Place, scanning, listing, Phases, Starting
  <2>2. Rounds'
    BY <1>11 DEF Rounds, Place
  <2>3. TypeOK'
    BY <1>11, <2>1 DEF TypeOK, Place, Spend, In, process, stop, scanning, listing, Members
  <2>4. Phases' /\ Cleared'
    BY <1>11, <2>1 DEF TypeOK, ProcessesOK, Family, Kin, Phases, Cleared, Starting,
       Running, Finished, Place, Spend, In, process, stop, scanning, listing, Members
  <2>5. Judged'
    BY <1>11, <2>1 DEF TypeOK, ProcessesOK, Phases, Judged, Starting, Running, Place,
       Spend, In, process, stop, scanning, listing, Members
  <2> QED
    BY <2>1, <2>2, <2>3, <2>4, <2>5
<1>12. ASSUME Start PROVE InspectorInv'
  <2>1. Family' /\ Seen' /\ ProcessesOK'
    BY <1>12, FirstStarted DEF Start, Phases, Starting
  <2>2. Rounds'
    BY <1>12 DEF Rounds, Start
  <2>3. TypeOK'
    BY <1>12, <2>1 DEF TypeOK, Start, Join, stop, run, scanning, listing, Processes, Members
  <2>4. Phases' /\ Cleared'
    BY <1>12, <2>1 DEF TypeOK, ProcessesOK, Family, Kin, Phases, Cleared, Starting,
       Running, Finished, Start, Join, stop, run, scanning, listing, Processes, Members
  <2>5. Judged'
    BY <1>12, <2>1 DEF TypeOK, ProcessesOK, Phases, Judged, Starting, Running, Start,
       Join, stop, run, scanning, listing, Processes, Members
  <2> QED
    BY <2>1, <2>2, <2>3, <2>4, <2>5
<1>13. ASSUME StartFails PROVE InspectorInv'
  <2>1. Family' /\ Seen' /\ ProcessesOK' /\ Members' = Members
    BY <1>13, FamilyKept, SeenKept DEF StartFails, process, stop, run, scanning, listing
  <2>2. Rounds'
    BY <1>13, RoundKept DEF Rounds, StartFails, process, stop, run, scanning, listing
  <2>3. TypeOK'
    BY <1>13, <2>1 DEF TypeOK, StartFails, process, stop, run, scanning, listing
  <2>4. Phases' /\ Cleared'
    BY <1>13, <2>1 DEF TypeOK, ProcessesOK, Family, Kin, Phases, Cleared, Starting,
       Running, Finished, StartFails, process, stop, run, scanning, listing
  <2>5. Judged'
    BY <1>13, <2>1 DEF TypeOK, ProcessesOK, Phases, Judged, Starting, Running, StartFails,
       process, stop, run, scanning, listing
  <2> QED
    BY <2>1, <2>2, <2>3, <2>4, <2>5
<1>14. ASSUME Wait PROVE InspectorInv'
  <2>1. Family' /\ Seen' /\ ProcessesOK' /\ Members' = Members
    BY <1>14, FamilyKept, SeenKept DEF Wait, process, stop, run, scanning, listing
  <2>2. Rounds'
    BY <1>14, RoundKept DEF Rounds, Wait, process, stop, run, scanning, listing
  <2>3. TypeOK'
    BY <1>14, <2>1 DEF TypeOK, Wait, process, stop, run, scanning, listing
  <2>4. Phases' /\ Cleared'
    BY <1>14, <2>1 DEF TypeOK, ProcessesOK, Family, Kin, Phases, Cleared, Starting,
       Running, Finished, Wait, process, stop, run, scanning, listing
  <2>5. Judged'
    BY <1>14, <2>1 DEF TypeOK, ProcessesOK, Phases, Judged, Starting, Running, Wait,
       process, stop, run, scanning, listing
  <2> QED
    BY <2>1, <2>2, <2>3, <2>4, <2>5
<1>15. ASSUME EndGroup PROVE InspectorInv'
  <2>0. /\ In("own") \subseteq ours /\ Self \notin In("own")
        /\ \A p \in ours \cap alive : p \in In("own") \/ group[p] = "left"
    BY <1>15 DEF EndGroup, In, Family, Kin, Groups, TypeOK, ProcessesOK
  <2>1. Family' /\ Seen' /\ ProcessesOK' /\ alive' \subseteq alive /\ Members' = Members
    BY <1>15, <2>0, Bereaved DEF EndGroup, In, stop, run, scanning
  <2>2. Rounds'
    BY <1>15 DEF Rounds, EndGroup
  <2>3. TypeOK'
    BY <1>15, <2>0, <2>1 DEF TypeOK, EndGroup, In, Die, stop, run, scanning
  <2>4. Phases' /\ Cleared'
    BY <1>15, <2>0, <2>1 DEF TypeOK, ProcessesOK, Family, Kin, Phases, Cleared, Starting,
       Running, Finished, EndGroup, In, Die, stop, run, scanning
  <2>5. Judged'
    BY <1>15, <2>0, <2>1 DEF TypeOK, ProcessesOK, Phases, Judged, Starting, Running,
       EndGroup, In, Die, stop, run, scanning
  <2> QED
    BY <2>1, <2>2, <2>3, <2>4, <2>5
<1>16. ASSUME RoundLists PROVE InspectorInv'
  <2>1. /\ Family' /\ Seen' /\ ProcessesOK' /\ Members' = {} /\ picked' = {} /\ names' \subseteq born
        /\ shown' \in [Processes -> Processes \cup {Reaper, Nobody}]
    <3>1. Kin'
      <4>1. \A p \in alive : parent[p] \in Below(Away) => p \in Below(Away)
        BY BelowInherited DEF Below, TypeOK, ProcessesOK
      <4> QED
        BY <1>16, <4>1 DEF Family, Kin, RoundLists, process
    <3>2. Grounded' /\ Groups' /\ Others'
      BY <1>16 DEF Family, Grounded, Groups, Others, Steady, RoundLists, process, run
    <3>3. ProcessesOK'
      BY <1>16 DEF TypeOK, ProcessesOK, RoundLists, process, Below
    <3> QED
      BY <1>16, <3>1, <3>2, <3>3, SeenBegun DEF Family, RoundLists, run
  <2>2. Rounds'
    BY <1>16, RoundBegun DEF Rounds, RoundLists, Another, run, Judged
  <2>3. TypeOK'
    BY <1>16, <2>1 DEF TypeOK, RoundLists, Another, Begin, process, stop, run
  <2>4. Phases' /\ Cleared'
    BY <1>16, <2>1 DEF TypeOK, ProcessesOK, Family, Kin, Phases, Cleared, Starting,
       Running, Finished, RoundLists, Another, Begin, process, stop, run
  <2>5. Judged'
    BY <1>16, <2>1 DEF TypeOK, ProcessesOK, Phases, Judged, Starting, Running, RoundLists,
       Another, Begin, process, stop, run
  <2> QED
    BY <2>1, <2>2, <2>3, <2>4, <2>5
<1>17. ASSUME RoundListed PROVE InspectorInv'
  <2>0. picked = {} => \A p \in ours \cap alive : group[p] = "left" \/ p \in missed
    <3>1. picked = {} => \A p \in ours \cap alive : group[p] # "job" \/ p \in missed
      BY <1>17, NothingDue DEF RoundListed, End, Rounds
    <3> QED
      BY <1>17, <3>1 DEF RoundListed, Phases, Family, Groups, TypeOK, ProcessesOK
  <2>1. Family' /\ Seen' /\ ProcessesOK' /\ Members' = {}
    <3>1. Members' = {}
      BY <1>17 DEF RoundListed, End, Members, Nothing
    <3>2. Seen'
      BY <1>17, <3>1 DEF RoundListed, Seen, Steady, process, run
    <3> QED
      BY <1>17, <3>1, <3>2, FamilyKept DEF RoundListed, run
  <2>2. Rounds'
    BY <1>17 DEF Rounds, RoundListed
  <2>3. TypeOK'
    BY <1>17, <2>0, <2>1 DEF TypeOK, RoundListed, End, process, stop, run, Members, Nothing
  <2>4. Phases' /\ Cleared'
    BY <1>17, <2>0, <2>1 DEF TypeOK, ProcessesOK, Family, Kin, Phases, Cleared, Starting,
       Running, Finished, RoundListed, End, process, stop, run, Members, Nothing
  <2>5. Judged'
    BY <1>17, <2>0, <2>1 DEF TypeOK, ProcessesOK, Phases, Judged, Starting, Running,
       RoundListed, End, process, stop, run, Members, Nothing
  <2> QED
    BY <2>1, <2>2, <2>3, <2>4, <2>5
<1>18. ASSUME RoundFails PROVE InspectorInv'
  <2>1. Family' /\ Seen' /\ ProcessesOK' /\ Members' = Members
    BY <1>18, FamilyKept, SeenKept DEF RoundFails, Another, ListingFails, Spend, run, Phases
  <2>2. Rounds'
    BY <1>18 DEF Rounds, Phases, RoundFails
  <2>3. TypeOK'
    BY <1>18, <2>1 DEF TypeOK, RoundFails, Another, ListingFails, Spend, process, stop, run
  <2>4. Phases' /\ Cleared'
    BY <1>18, <2>1 DEF TypeOK, ProcessesOK, Family, Kin, Phases, Cleared, Starting,
       Running, Finished, RoundFails, Another, ListingFails, Spend, process, stop, run
  <2>5. Judged'
    BY <1>18, <2>1 DEF TypeOK, ProcessesOK, Phases, Judged, Starting, Running, RoundFails,
       Another, ListingFails, Spend, process, stop, run
  <2> QED
    BY <2>1, <2>2, <2>3, <2>4, <2>5
<1>19. ASSUME NEW p \in Processes, RoundKills(p) PROVE InspectorInv'
  <2>0. Self \notin picked
    BY <1>19 DEF Seen, RoundKills, Phases, Family, Groups
  <2>1. Family' /\ Seen' /\ ProcessesOK' /\ alive' \subseteq alive /\ Members' = Members
    BY <1>19, <2>0, Bereaved DEF RoundKills, stop, run, scanning, Phases
  <2>2. Rounds'
    BY <1>19 DEF Rounds, RoundKills
  <2>3. TypeOK'
    BY <1>19, <2>0, <2>1 DEF TypeOK, RoundKills, Die, stop, run, scanning
  <2>4. Phases' /\ Cleared'
    BY <1>19, <2>0, <2>1 DEF TypeOK, ProcessesOK, Family, Kin, Phases, Cleared, Starting,
       Running, Finished, RoundKills, Die, stop, run, scanning
  <2>5. Judged'
    BY <1>19, <2>0, <2>1 DEF TypeOK, ProcessesOK, Phases, Judged, Starting, Running,
       RoundKills, Die, stop, run, scanning
  <2> QED
    BY <2>1, <2>2, <2>3, <2>4, <2>5
<1>20. ASSUME RoundEnds PROVE InspectorInv'
  <2>1. Family' /\ Seen' /\ ProcessesOK' /\ Members' = Members
    BY <1>20, FamilyKept, SeenKept DEF RoundEnds, run, Phases
  <2>2. Rounds'
    BY <1>20 DEF Rounds, Phases, RoundEnds
  <2>3. TypeOK'
    BY <1>20, <2>1 DEF TypeOK, RoundEnds, process, stop, run
  <2>4. Phases' /\ Cleared'
    BY <1>20, <2>1 DEF TypeOK, ProcessesOK, Family, Kin, Phases, Cleared, Starting,
       Running, Finished, RoundEnds, process, stop, run
  <2>5. Judged'
    BY <1>20, <2>1 DEF TypeOK, ProcessesOK, Phases, Judged, Starting, Running, RoundEnds,
       process, stop, run
  <2> QED
    BY <2>1, <2>2, <2>3, <2>4, <2>5
<1>21. ASSUME GiveUp PROVE InspectorInv'
  <2>1. Family' /\ Seen' /\ ProcessesOK' /\ Members' = Members
    BY <1>21, FamilyKept, SeenKept DEF GiveUp, process, stop, run, scanning, listing
  <2>2. Rounds'
    BY <1>21, RoundKept DEF Rounds, GiveUp, process, stop, run, scanning, listing
  <2>3. TypeOK'
    BY <1>21, <2>1 DEF TypeOK, GiveUp, process, stop, run, scanning, listing
  <2>4. Phases' /\ Cleared'
    BY <1>21, <2>1 DEF TypeOK, ProcessesOK, Family, Kin, Phases, Cleared, Starting,
       Running, Finished, GiveUp, process, stop, run, scanning, listing
  <2>5. Judged'
    BY <1>21, <2>1 DEF TypeOK, ProcessesOK, Phases, Judged, Starting, Running, GiveUp,
       process, stop, run, scanning, listing
  <2> QED
    BY <2>1, <2>2, <2>3, <2>4, <2>5
<1>22. ASSUME Judge PROVE InspectorInv'
  <2>1. Family' /\ Seen' /\ ProcessesOK' /\ Members' = Members
    BY <1>22, FamilyKept, SeenKept DEF Judge, process, stop, run, scanning, listing
  <2>2. Rounds'
    BY <1>22, RoundKept DEF Rounds, Judge, process, stop, run, scanning, listing
  <2>3. TypeOK'
    BY <1>22, <2>1 DEF TypeOK, Judge, process, stop, run, scanning, listing
  <2>4. Phases' /\ Cleared'
    BY <1>22, <2>1 DEF TypeOK, ProcessesOK, Family, Kin, Phases, Cleared, Starting,
       Running, Finished, Judge, process, stop, run, scanning, listing
  <2>5. Judged'
    BY <1>22, <2>1 DEF TypeOK, ProcessesOK, Phases, Judged, Starting, Running, Judge,
       process, stop, run, scanning, listing
  <2> QED
    BY <2>1, <2>2, <2>3, <2>4, <2>5
<1>23. ASSUME Unwatch PROVE InspectorInv'
  <2>1. Family' /\ Seen' /\ ProcessesOK' /\ Members' = Members
    BY <1>23, FamilyKept, SeenKept DEF Unwatch, process, stop, run, scanning, listing
  <2>2. Rounds'
    BY <1>23, RoundKept DEF Rounds, Unwatch, process, stop, run, scanning, listing
  <2>3. TypeOK'
    BY <1>23, <2>1 DEF TypeOK, Unwatch, process, stop, run, scanning, listing
  <2>4. Phases' /\ Cleared'
    BY <1>23, <2>1 DEF TypeOK, ProcessesOK, Family, Kin, Phases, Cleared, Starting,
       Running, Finished, Unwatch, process, stop, run, scanning, listing
  <2>5. Judged'
    BY <1>23, <2>1 DEF TypeOK, ProcessesOK, Phases, Judged, Starting, Running, Unwatch,
       process, stop, run, scanning, listing
  <2> QED
    BY <2>1, <2>2, <2>3, <2>4, <2>5
<1>24. ASSUME Remove PROVE InspectorInv'
  <2>1. Family' /\ Seen' /\ ProcessesOK' /\ Members' = Members
    BY <1>24, FamilyKept, SeenKept DEF Remove, process, stop, run, scanning, listing
  <2>2. Rounds'
    BY <1>24, RoundKept DEF Rounds, Remove, process, stop, run, scanning, listing
  <2>3. TypeOK'
    <3>1. config' \in BOOLEAN
      BY <1>24 DEF Remove
    <3> QED
      BY <1>24, <2>1, <3>1 DEF TypeOK, Remove, process, stop, run, scanning, listing
  <2>4. Phases' /\ Cleared'
    BY <1>24, <2>1 DEF TypeOK, ProcessesOK, Family, Kin, Phases, Cleared, Starting,
       Running, Finished, Remove, process, stop, run, scanning, listing
  <2>5. Judged'
    BY <1>24, <2>1 DEF TypeOK, ProcessesOK, Phases, Judged, Starting, Running, Remove,
       process, stop, run, scanning, listing
  <2> QED
    BY <2>1, <2>2, <2>3, <2>4, <2>5
<1>25. ASSUME EndAsSignalled PROVE InspectorInv'
  <2>1. Family' /\ Seen' /\ ProcessesOK' /\ Members' = Members
    BY <1>25, FamilyKept, SeenKept DEF EndAsSignalled, process, stop, run, scanning, listing
  <2>2. Rounds'
    BY <1>25, RoundKept DEF Rounds, EndAsSignalled, process, stop, run, scanning, listing
  <2>3. TypeOK'
    BY <1>25, <2>1 DEF TypeOK, EndAsSignalled, process, stop, run, scanning, listing
  <2>4. Phases' /\ Cleared'
    BY <1>25, <2>1 DEF TypeOK, ProcessesOK, Family, Kin, Phases, Cleared, Starting,
       Running, Finished, EndAsSignalled, process, stop, run, scanning, listing
  <2>5. Judged'
    BY <1>25, <2>1 DEF TypeOK, ProcessesOK, Phases, Judged, Starting, Running,
       EndAsSignalled, process, stop, run, scanning, listing
  <2> QED
    BY <2>1, <2>2, <2>3, <2>4, <2>5
<1>26. ASSUME RelayToInspector PROVE InspectorInv'
  <2>0. In("own") \subseteq ours /\ strangers' = strangers
    BY <1>26 DEF RelayToInspector, In, Family, Groups, TypeOK, ProcessesOK
  <2>1. Family' /\ Seen' /\ ProcessesOK' /\ Members' = Members
    BY <1>26, <2>0, FamilyKept, SeenKept DEF RelayToInspector, run
  <2>2. Rounds'
    BY <1>26 DEF Rounds, RelayToInspector
  <2>3. TypeOK'
    BY <1>26, <2>0, <2>1 DEF TypeOK, RelayToInspector, In, process, run
  <2>4. Phases' /\ Cleared'
    BY <1>26, <2>0, <2>1 DEF TypeOK, ProcessesOK, Family, Kin, Phases, Cleared, Starting,
       Running, Finished, RelayToInspector, In, process, run
  <2>5. Judged'
    BY <1>26, <2>0, <2>1 DEF TypeOK, ProcessesOK, Phases, Judged, Starting, Running,
       RelayToInspector, In, process, run
  <2> QED
    BY <2>1, <2>2, <2>3, <2>4, <2>5
<1>27. ASSUME RelayLists PROVE InspectorInv'
  <2>1. /\ Family' /\ Seen' /\ ProcessesOK' /\ Members' = {} /\ picked' = {} /\ names' \subseteq born
        /\ shown' \in [Processes -> Processes \cup {Reaper, Nobody}]
    BY <1>27, FamilyKept, SeenBegun DEF RelayLists, run
  <2>2. Rounds'
    BY <1>27 DEF Rounds, Phases, RelayLists
  <2>3. TypeOK'
    BY <1>27, <2>1 DEF TypeOK, RelayLists, Begin, process, stop, run
  <2>4. Phases' /\ Cleared'
    BY <1>27, <2>1 DEF TypeOK, ProcessesOK, Family, Kin, Phases, Cleared, Starting,
       Running, Finished, RelayLists, Begin, process, stop, run
  <2>5. Judged'
    BY <1>27, <2>1 DEF TypeOK, ProcessesOK, Phases, Judged, Starting, Running, RelayLists,
       Begin, process, stop, run
  <2> QED
    BY <2>1, <2>2, <2>3, <2>4, <2>5
<1>28. ASSUME RelayFails PROVE InspectorInv'
  <2>1. Family' /\ Seen' /\ ProcessesOK' /\ Members' = Members
    BY <1>28, FamilyKept, SeenKept DEF RelayFails, ListingFails, Spend, run, Phases
  <2>2. Rounds'
    BY <1>28 DEF Rounds, Phases, RelayFails
  <2>3. TypeOK'
    BY <1>28, <2>1 DEF TypeOK, RelayFails, ListingFails, Spend, process, stop, run
  <2>4. Phases' /\ Cleared'
    BY <1>28, <2>1 DEF TypeOK, ProcessesOK, Family, Kin, Phases, Cleared, Starting,
       Running, Finished, RelayFails, ListingFails, Spend, process, stop, run
  <2>5. Judged'
    BY <1>28, <2>1 DEF TypeOK, ProcessesOK, Phases, Judged, Starting, Running, RelayFails,
       ListingFails, Spend, process, stop, run
  <2> QED
    BY <2>1, <2>2, <2>3, <2>4, <2>5
<1>29. ASSUME RelayListed PROVE InspectorInv'
  <2>1. Family' /\ Seen' /\ ProcessesOK' /\ Members' = {}
    <3>1. Members' = {}
      BY <1>29 DEF RelayListed, End, Members, Nothing
    <3>2. Seen'
      BY <1>29, <3>1 DEF RelayListed, Seen, Steady, process, run
    <3> QED
      BY <1>29, <3>1, <3>2, FamilyKept DEF RelayListed, run
  <2>2. Rounds'
    BY <1>29 DEF Rounds, Phases, RelayListed
  <2>3. TypeOK'
    BY <1>29, <2>1 DEF TypeOK, RelayListed, End, process, stop, run, Members, Nothing
  <2>4. Phases' /\ Cleared'
    BY <1>29, <2>1 DEF TypeOK, ProcessesOK, Family, Kin, Phases, Cleared, Starting,
       Running, Finished, RelayListed, End, process, stop, run, Members, Nothing
  <2>5. Judged'
    BY <1>29, <2>1 DEF TypeOK, ProcessesOK, Phases, Judged, Starting, Running,
       RelayListed, End, process, stop, run, Members, Nothing
  <2> QED
    BY <2>1, <2>2, <2>3, <2>4, <2>5
<1>30. ASSUME NEW p \in Processes, RelaySends(p) PROVE InspectorInv'
  <2>1. Family' /\ Seen' /\ ProcessesOK' /\ Members' = Members
    BY <1>30, FamilyKept, SeenKept DEF RelaySends, run, Phases
  <2>2. Rounds'
    BY <1>30 DEF Rounds, Phases, RelaySends
  <2>3. TypeOK'
    BY <1>30, <2>1 DEF TypeOK, RelaySends, process, stop, run
  <2>4. Phases' /\ Cleared'
    BY <1>30, <2>1 DEF TypeOK, ProcessesOK, Family, Kin, Phases, Cleared, Starting,
       Running, Finished, RelaySends, process, stop, run
  <2>5. Judged'
    BY <1>30, <2>1 DEF TypeOK, ProcessesOK, Phases, Judged, Starting, Running, RelaySends,
       process, stop, run
  <2> QED
    BY <2>1, <2>2, <2>3, <2>4, <2>5
<1>31. ASSUME RelayEnds PROVE InspectorInv'
  <2>1. Family' /\ Seen' /\ ProcessesOK' /\ Members' = Members
    BY <1>31, FamilyKept, SeenKept DEF RelayEnds, run, Phases
  <2>2. Rounds'
    BY <1>31 DEF Rounds, Phases, RelayEnds
  <2>3. TypeOK'
    BY <1>31, <2>1 DEF TypeOK, RelayEnds, process, stop, run
  <2>4. Phases' /\ Cleared'
    BY <1>31, <2>1 DEF TypeOK, ProcessesOK, Family, Kin, Phases, Cleared, Starting,
       Running, Finished, RelayEnds, process, stop, run
  <2>5. Judged'
    BY <1>31, <2>1 DEF TypeOK, ProcessesOK, Phases, Judged, Starting, Running, RelayEnds,
       process, stop, run
  <2> QED
    BY <2>1, <2>2, <2>3, <2>4, <2>5
<1>32. ASSUME KillInspector PROVE InspectorInv'
  <2>1. Family' /\ Seen' /\ ProcessesOK' /\ alive' \subseteq alive /\ Members' = Members
    BY <1>32, Bereaved DEF KillInspector, stop, run, scanning
  <2>2. Rounds'
    BY <1>32 DEF Rounds, KillInspector
  <2>3. TypeOK'
    BY <1>32, <2>1 DEF TypeOK, KillInspector, Die, stop, run, scanning
  <2>4. Phases' /\ Cleared'
    BY <1>32, <2>1 DEF TypeOK, ProcessesOK, Family, Kin, Phases, Cleared, Starting,
       Running, Finished, KillInspector, Die, stop, run, scanning
  <2>5. Judged'
    BY <1>32, <2>1 DEF TypeOK, ProcessesOK, Phases, Judged, Starting, Running,
       KillInspector, Die, stop, run, scanning
  <2> QED
    BY <2>1, <2>2, <2>3, <2>4, <2>5
<1>33. ASSUME Compare PROVE InspectorInv'
  <2>1. Family' /\ Seen' /\ ProcessesOK' /\ Members' = Members
    BY <1>33, FamilyKept, Compared DEF Compare, run
  <2>2. Rounds'
    BY <1>33, Compared DEF Rounds, Compare
  <2>3. TypeOK'
    BY <1>33, <2>1 DEF TypeOK, Compare, process, stop, run
  <2>4. Phases' /\ Cleared'
    BY <1>33, <2>1 DEF TypeOK, ProcessesOK, Family, Kin, Phases, Cleared, Starting,
       Running, Finished, Compare, process, stop, run
  <2>5. Judged'
    BY <1>33, <2>1 DEF TypeOK, ProcessesOK, Phases, Judged, Starting, Running, Compare,
       process, stop, run
  <2> QED
    BY <2>1, <2>2, <2>3, <2>4, <2>5
<1>34. ASSUME NEW p \in Processes, LookUp(p) PROVE InspectorInv'
  <2>1. /\ Family' /\ Seen' /\ ProcessesOK' /\ Members' \subseteq born
        /\ shown' \in [Processes -> Processes \cup {Reaper, Nobody}]
    BY <1>34, FamilyKept, LookedUp DEF LookUp, run
  <2>2. Rounds'
    BY <1>34, LookedUp DEF Rounds, LookUp
  <2>3. TypeOK'
    BY <1>34, <2>1 DEF TypeOK, LookUp, process, stop, run
  <2>4. Phases' /\ Cleared'
    BY <1>34, <2>1 DEF TypeOK, ProcessesOK, Family, Kin, Phases, Cleared, Starting,
       Running, Finished, LookUp, process, stop, run
  <2>5. Judged'
    BY <1>34, <2>1 DEF TypeOK, ProcessesOK, Phases, Judged, Starting, Running, LookUp,
       process, stop, run
  <2> QED
    BY <2>1, <2>2, <2>3, <2>4, <2>5
<1>35. ASSUME NEW p \in Processes, Consider(p) PROVE InspectorInv'
  <2>1. Family' /\ Seen' /\ ProcessesOK' /\ Members' = Members
    BY <1>35, FamilyKept, Considered DEF Consider, run
  <2>2. Rounds'
    BY <1>35, Considered DEF Rounds, Consider, Judged
  <2>3. TypeOK'
    BY <1>35, <2>1 DEF TypeOK, Consider, process, stop, run
  <2>4. Phases' /\ Cleared'
    BY <1>35, <2>1 DEF TypeOK, ProcessesOK, Family, Kin, Phases, Cleared, Starting,
       Running, Finished, Consider, process, stop, run
  <2>5. Judged'
    BY <1>35, <2>1 DEF TypeOK, ProcessesOK, Phases, Judged, Starting, Running, Consider,
       process, stop, run
  <2> QED
    BY <2>1, <2>2, <2>3, <2>4, <2>5
<1>36. ASSUME UNCHANGED vars PROVE InspectorInv'
  <2>1. Family' /\ Seen' /\ ProcessesOK' /\ Members' = Members
    BY <1>36, FamilyKept, SeenKept DEF vars, process, stop, run, scanning, listing
  <2>2. Rounds'
    BY <1>36, RoundKept DEF Rounds, vars, process, stop, run, scanning, listing
  <2>3. TypeOK'
    BY <1>36, <2>1 DEF TypeOK, vars, process, stop, run, scanning, listing
  <2>4. Phases' /\ Cleared'
    BY <1>36, <2>1 DEF TypeOK, ProcessesOK, Family, Kin, Phases, Cleared, Starting,
       Running, Finished, vars, process, stop, run, scanning, listing
  <2>5. Judged'
    BY <1>36, <2>1 DEF TypeOK, ProcessesOK, Phases, Judged, Starting, Running, vars,
       process, stop, run, scanning, listing
  <2> QED
    BY <2>1, <2>2, <2>3, <2>4, <2>5
<1> QED
  BY <1>1, <1>2, <1>3, <1>4, <1>5, <1>6, <1>7, <1>8, <1>9, <1>10, <1>11, <1>12, <1>13,
     <1>14, <1>15, <1>16, <1>17, <1>18, <1>19, <1>20, <1>21, <1>22, <1>23, <1>24, <1>25,
     <1>26, <1>27, <1>28, <1>29, <1>30, <1>31, <1>32, <1>33, <1>34, <1>35, <1>36 DEF Next,
     Command, Relay, Scan

\* What is known of the processes, the groups and the listings holds whatever
\* the processes start, end and leave between any two steps of a listing, and
\* wherever a stop comes in between (runInspectorProcess, endStartedProcesses,
\* startedProcesses, isReaper).
THEOREM InspectorInvariant == Spec => []InspectorInv
BY InspectorInit, InspectorStep, PTL DEF Spec

\* Nothing that was in the group before is ever signalled, and of what others
\* started only what has lost a process above it, for groups of any size and
\* shape and whatever changes while they are listed (startedProcesses,
\* isReaper).
THEOREM OthersAreLeftAlone == Spec => []OnlyTheRunsProcesses
<1>1. InspectorInv => OnlyTheRunsProcesses
  BY DEF InspectorInv, Seen, OnlyTheRunsProcesses
<1> QED
  BY <1>1, InspectorInvariant, PTL

\* What the run started is gone from the group when the command is done, but
\* for what the last listing need not show, however many generations there were
\* and whatever they started while they were listed (endStartedProcesses).
THEOREM NothingIsLeftBehind == Spec => []NothingStartedOutlives
<1>1. InspectorInv => NothingStartedOutlives
  BY DEF InspectorInv, Control, Cleared, Finished, NothingStartedOutlives, Ended
<1> QED
  BY <1>1, InspectorInvariant, PTL

\* A stop is not reported as a failure, nor a failure as a stop, in whichever
\* order the command and the inspector come to know of it
\* (runInspectorProcess).
THEOREM StopsAreTold == Spec => []ResultTellsTheStop
<1>1. InspectorInv => ResultTellsTheStop
  BY DEF InspectorInv, Control, Judged, ResultTellsTheStop
<1> QED
  BY <1>1, InspectorInvariant, PTL
=============================================================================
