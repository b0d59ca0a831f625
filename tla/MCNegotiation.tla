---------------------------- MODULE MCNegotiation -----------------------------
(* The peers Negotiation is checked with: this server as it is configured by    *)
(* default and narrowed to a revision to come, and others of either era, of     *)
(* both and of none the client speaks.                                          *)
EXTENDS Negotiation

This(http, meta) ==
    [own |-> TRUE, http |-> http, meta |-> meta, init |-> InitializeSupported, n |-> 0]
Other(http, meta, init) ==
    [own |-> FALSE, http |-> http, meta |-> meta, init |-> init, n |-> 0]

MCPeers ==
    {This(http, meta) : http \in BOOLEAN, meta \in {{Discovery}, {"2027-01-01"}}}
    \cup {Other(http, {}, init) : http \in BOOLEAN,
             init \in {{"2025-11-25"}, {"2025-06-18"}, {"2024-11-05"}}}
    \cup {Other(TRUE, {Discovery}, {}), Other(TRUE, {Discovery}, {"2025-11-25"}),
          Other(TRUE, {"2027-01-01"}, {"2025-06-18"}), Other(TRUE, {"2027-01-01"}, {})}
===============================================================================
