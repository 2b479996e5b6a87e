------------------------- MODULE MCPyroscopeCluster -------------------------
EXTENDS PyroscopeCluster, TLC

CONSTANTS w1, w2, w3, w4, monolith, spread, ingester, storeGateway, all,
          day, week, quarter

MCRoleOrder == <<all, ingester, storeGateway>>

\* One application with three units, one with a single one.
MCAppOf == [w \in Workers |-> IF w = w4 THEN spread ELSE monolith]

\* A default, a disabled, and two mistaken configurations: one in the
\* retention itself, one beside a valid retention.
MCSettings ==
    { [retention |-> day, delay |-> day, interval |-> quarter],
      [retention |-> Zero, delay |-> day, interval |-> Zero],
      [retention |-> Malformed, delay |-> day, interval |-> quarter],
      [retention |-> week, delay |-> Malformed, interval |-> quarter] }

\* Those that ask for a delay before anything is deleted, or try to.
MCPositiveSettings == {o \in MCSettings : o.interval # Zero}

\* A good configuration, and a mistake beside a good retention.
MCGoodRetention == {o \in MCPositiveSettings : o.retention # Malformed}

MCRoleChoices == {{all}, {ingester, storeGateway}, {ingester}}

\* Applications start with {all}: one may be left with a part of the roles.
MCPartialRoles == MCRoleChoices \ {{all}}

\* The units of one application may be exchanged for each other.
MCSymmetry == Permutations(Workers \ {w4})
=============================================================================
