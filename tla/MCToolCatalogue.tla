-------------------------- MODULE MCToolCatalogue --------------------------
(***************************************************************************)
(* ToolCatalogue for TLC: callers and credentials are interchangeable.     *)
(* Two callers at once are followed where pages do not go stale, listings  *)
(* are whole, calls are mirrored from something and nobody asks for the    *)
(* excluded tools, one after the other where the server's catalogue stays  *)
(* as it is, with the pages of a capped listing going stale at one moment. *)
(***************************************************************************)
EXTENDS ToolCatalogue, TLC

Symmetry == Permutations(Callers) \cup Permutations(Credentials)

AtWork == {c \in Callers : work[c].kind # "none"}
Lasting(s) == s = NoStatement \/ s.until > 0

\* The catalogue is what one whole listing states, if anything.
Whole(cat) ==
    cat.tools = [n \in 1..Pages |-> IF cat.whole = <<>> THEN NoStatement ELSE cat.whole[n]]

TogetherWhileFresh ==
    /\ now = 0 /\ \A r \in Readers : asking[r] = NotAsking
    /\ Whole(catalogue)
    /\ \A n \in 1..Pages : Lasting(catalogue.tools[n])
    /\ \A c \in AtWork :
          /\ work[c].kind \in {"whole", "call"} /\ Lasting(work[c].composed)
          /\ At(c, "sent") => work[c].basis # {}
          /\ \A i \in DOMAIN work[c].pages : Lasting(work[c].pages[i])

OneByOne ==
    /\ Cardinality(AtWork) <= 1 /\ revision = 0
    /\ \A c \in AtWork : work[c].kind = "capped" =>
          \A i \in DOMAIN work[c].pages : work[c].pages[i].until = 1
    /\ Whole(catalogue) \/ \A r \in Readers : asking[r] = NotAsking

Scenarios == TogetherWhileFresh \/ OneByOne

=============================================================================
