---------------------------- MODULE MCPortAdmin -----------------------------
(***************************************************************************)
(* The instances of PortAdmin that TLC checks: two ports, two customers.   *)
(***************************************************************************)
EXTENDS PortAdmin

E(customerID, service, maxStreams) ==
  [customerID |-> customerID, service |-> service, maxStreams |-> maxStreams]
PortsOf(p, e) == [q \in {p} |-> e]
NoPorts == [q \in {} |-> 0]

MCPort == {1, 2}
MCCustomer == {"A", "B"}
MCService == {"web", "ssh"}

Cfg(ports, limit) ==
  [ports |-> ports, limits |-> [c \in MCCustomer |-> IF c = "A" THEN limit ELSE 0],
   valid |-> TRUE]
Bad == [Cfg(NoPorts, 0) EXCEPT !.valid = FALSE]

WebA == E("A", "web", 0)
WebB == E("B", "web", 0)
ToSsh == [service |-> "ssh", maxStreams |-> {}]
ToOne == [service |-> "", maxStreams |-> {1}]

\* One request at a time, on a port of the file and on one that is not; the
\* process may die.
Requests ==
  [workers |-> 1, store |-> TRUE, overwrite |-> FALSE,
   creates |-> {<<1, WebA>>, <<2, WebA>>}, updates |-> {<<2, ToSsh>>, <<2, ToOne>>},
   deletes |-> {1, 2}, foreign |-> {}, configs |-> {Cfg(PortsOf(1, WebA), 1)},
   crashes |-> 1, edits |-> 0]

\* Port 2 is held by another program.
Taken == [Requests EXCEPT !.foreign = {2}]

\* Reloads of a file that moves its port to the other customer, drops it for
\* the port of the API, or is broken.
Reloads ==
  [Requests EXCEPT !.creates = {<<2, WebA>>}, !.updates = {}, !.deletes = {1},
     !.configs = {Cfg(PortsOf(1, WebA), 1), Cfg(PortsOf(1, WebB), 2),
                  Cfg(PortsOf(2, E("A", "ssh", 1)), 0), Bad},
     !.edits = 2]

\* Two requests at a time.
Concurrent ==
  [Requests EXCEPT !.workers = 2, !.overwrite = TRUE,
     !.creates = {<<2, WebA>>, <<2, E("B", "ssh", 0)>>}, !.updates = {<<2, ToSsh>>},
     !.deletes = {2}, !.configs = {Cfg(NoPorts, 1), Cfg(PortsOf(2, WebA), 0)},
     !.crashes = 0, !.edits = 1]

All == {Requests, Taken, Reloads, Concurrent}

\* A port POSTed for one customer, then added to the file for another.
PostThenFile ==
  {[Requests EXCEPT !.creates = {<<1, WebA>>}, !.updates = {}, !.deletes = {},
      !.configs = {Cfg(NoPorts, 0), Cfg(PortsOf(1, WebB), 0)},
      !.crashes = 0, !.edits = 1]}
=============================================================================
