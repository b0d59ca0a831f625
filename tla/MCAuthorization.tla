-------------------------- MODULE MCAuthorization --------------------------
(***************************************************************************)
(* Authorization for TLC: the configurations and the metadata that make    *)
(* each way to a client id and each place of a document happen.            *)
(***************************************************************************)
EXTENDS Authorization, TLC

Config(id, secret, bound, pinned, store, capacity) ==
    [id |-> id, secret |-> secret, bound |-> bound, pinned |-> pinned, store |-> store,
     capacity |-> capacity]

\* No credentials, or confidential ones of Home with the issuer stated or not.
MCConfigurations ==
    {Config(FALSE, FALSE, FALSE, TRUE, "memory", 1), Config(FALSE, FALSE, FALSE, FALSE, "memory", 2),
     Config(FALSE, FALSE, FALSE, TRUE, "session", 2),
     Config(TRUE, TRUE, TRUE, TRUE, "memory", 2), Config(TRUE, FALSE, FALSE, TRUE, "memory", 2)}

\* A server that registers clients, and promises iss or not; one that reads the
\* client ID metadata document.
Registering(iss) == [pkce |-> TRUE, document |-> FALSE, registers |-> TRUE, iss |-> iss]
Reading == [pkce |-> TRUE, document |-> TRUE, registers |-> FALSE, iss |-> FALSE]

MCOffers ==
    {[s \in Servers |-> Registering(TRUE)],
     [s \in Servers |-> IF s = Origin THEN Reading ELSE Registering(FALSE)]}

\* A resource that declares another server than its origin, or none.
MCResources ==
    {[at |-> at, declares |-> s] : at \in {"named", "root"}, s \in Servers \ {Origin}}
    \cup {[at |-> "nowhere", declares |-> Origin]}

Interchangeable == Permutations(Flows) \cup Permutations(Visits) \cup Permutations(Browsers)
=============================================================================
