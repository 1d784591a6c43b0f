------------------------------ MODULE MCRelay -------------------------------
(***************************************************************************)
(* The instances of Relay that TLC checks.                                 *)
(***************************************************************************)
EXTENDS Relay

MCCustomer == {"A", "B"}

Scenario(limit, conns, clients, customers, ops) ==
  [limit |-> limit, maxStreams |-> 1, conns |-> conns, clients |-> clients,
   customers |-> customers, ops |-> ops]

\* The agents of a customer come, go and are deleted while the relay stops.
Churn == Scenario(1, 3, 0, {"A"}, {"die", "delete", "stop"})
Tenants == Scenario(1, 2, 0, {"A", "B"}, {"delete", "stop"})
\* Two agents share a customer whose limit is above one.
Shared == Scenario(2, 2, 0, {"A"}, {"delete"})
\* A port changes hands while a client uses it.
Remapped == Scenario(1, 2, 1, {"A", "B"}, {"remap"})
\* The copies of two clients end in every way.
Copies == Scenario(1, 1, 2, {"A"}, {"close", "reset", "die", "stop"})

All == {Churn, Tenants, Shared, Remapped, Copies}

Dies == {Scenario(1, 1, 0, {"A"}, {"die"})}
=============================================================================
