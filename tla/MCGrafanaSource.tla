--------------------------- MODULE MCGrafanaSource ---------------------------
EXTENDS GrafanaSource

\* One of the initial states that differ in the names of their values only.
MCInit ==
    /\ Init
    /\ leader = CHOOSE g \in Grafanas : TRUE
    /\ url = [a \in Apps |-> CHOOSE x \in Urls : TRUE]

MCSpec == MCInit /\ [][Next]_vars /\ Fairness
=============================================================================
