--------------------------- MODULE MCTraefikRoute ---------------------------
EXTENDS TraefikRoute

\* Addresses that share a host or a scheme; and with Traefik's load balancer
\* gone, there is a scheme and no host.
MCWithHost == [host : Hosts, scheme : Schemes]
MCGateways == MCWithHost \cup [host : {Empty}, scheme : {"http"}]
=============================================================================
