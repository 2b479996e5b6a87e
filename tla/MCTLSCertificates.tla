-------------------------- MODULE MCTLSCertificates --------------------------
EXTENDS TLSCertificates

\* One unit's usual start: the relation exists and one certificate is wanted.
MCInit ==
    /\ Init
    /\ related
    /\ wanted = {CHOOSE a \in Attributes : TRUE}

MCSpec == MCInit /\ [][Next]_vars /\ Fairness
=============================================================================
