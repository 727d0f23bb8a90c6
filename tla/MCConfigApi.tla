---------------------------- MODULE MCConfigApi ----------------------------
(* Small instances of ConfigApi for TLC. *)
EXTENDS ConfigApi

MCHandler ==
    [r \in Requests |-> IF r \in Writes THEN "/flex/config/write"
                        ELSE IF r \in Summaries THEN "/flex/config/summary"
                        ELSE IF r = "probe" THEN "/health"
                        ELSE IF r = "scrape" THEN "/metrics" ELSE "unmatched"]

Accepted(named, accounts, default, init) ==
    [identity |-> TRUE, token |-> FALSE, named |-> named, accounts |-> accounts,
     default |-> default, init |-> init]

\* Half writes of either field (a negative number becomes one day), replacing writes with
\* and without range days; a refused one.
SomeBodies ==
    {Accepted({"default"}, {}, {-1}, {}),
     Accepted({"init"}, {}, {}, {4}),
     Accepted({"accounts"}, {2, 3}, {}, {}),
     Accepted({"accounts", "default", "init"}, {2}, {5}, {6}),
     [Accepted({"accounts"}, {2}, {}, {}) EXCEPT !.token = TRUE]}
=============================================================================
