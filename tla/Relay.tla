------------------------------- MODULE Relay --------------------------------
(***************************************************************************)
(* The relay between its agents and its clients: MemoryRegistry            *)
(* (registry_impl.go) and its LiveConnections (connection.go), the         *)
(* AgentListener (listener.go), the ClientListener's handleClient          *)
(* (client_listener.go), PortRouter.Route and copyBidirectional            *)
(* (router_impl.go), DELETE /agents (admin.go) and Relay.Stop              *)
(* (server_impl.go).                                                       *)
(*                                                                         *)
(* Processes: handleConnection of each agent connection; handleClient of   *)
(* each client connection with the three goroutines of its                 *)
(* copyBidirectional; one admin request; the main goroutine, which shuts   *)
(* down.  Agents, clients and the network are the environment.             *)
(*                                                                         *)
(* A MuxSession (module MuxSession) is here open or closed, with its       *)
(* goingAway flag and the set of client connections that have a stream in  *)
(* its map.  The port table changes under the clients' feet; how it does   *)
(* is the subject of module PortAdmin.                                     *)
(***************************************************************************)
EXTENDS Naturals, FiniteSets

CONSTANTS
  Customer,
  MaxConn,   \* bound: agent connections
  MaxClient, \* bound: client connections
  Scenarios  \* the environments a run explores; see app

ASSUME RelayAssumption ==
  /\ MaxConn \in Nat /\ MaxClient \in Nat
  /\ \A s \in Scenarios :
       /\ s.limit \in Nat \ {0} /\ s.maxStreams \in Nat
       /\ s.conns \in Nat /\ s.clients \in Nat /\ s.customers \subseteq Customer

Conn == 1 .. MaxConn
Client == 1 .. MaxClient

VARIABLES
  agents,   \* MemoryRegistry.agents; 0: no entry
  conn,     \* the agent connections
  client,   \* the client connections
  mapping,  \* PortRouter.portMap: the customer of each port, "" for none; a port
            \* is named after the customer it has at first
  admin,    \* DELETE /agents/{customer}: pc and the connection it removed
  stop,     \* Relay.Stop: pc, the agents it listed, the ones left, the
            \* connection it removed
  ctxDone,  \* the server's context is canceled
  app       \* the scenario: customerLimits and max_streams, the same for all
            \* customers; how many agents and clients connect, for which
            \* customers; ops, what else happens

vars == <<agents, conn, client, mapping, admin, stop, ctxDone, app>>

NewConn == [pc |-> "new", customer |-> "", mux |-> "none", goingAway |-> FALSE,
            streams |-> {}, old |-> 0]
NewClient == [pc |-> "new", port |-> "", customer |-> "", limit |-> 0, conn |-> 0,
              sock |-> "none", fin |-> FALSE, toClient |-> "none",
              toStream |-> "none", canceled |-> FALSE]

Init ==
  /\ app \in Scenarios
  /\ agents = [x \in Customer |-> 0]
  /\ conn = [c \in Conn |-> NewConn]
  /\ client = [k \in Client |-> NewClient]
  /\ mapping = [x \in Customer |-> x]
  /\ admin = [pc |-> "idle", held |-> 0]
  /\ stop = [pc |-> "idle", agents |-> {}, todo |-> {}, held |-> 0]
  /\ ctxDone = FALSE

\* MuxSession.Close: its streams are reset and leave the map.
CloseMux(cs, c) == [cs EXCEPT ![c].mux = "closed", ![c].streams = {}]

-----------------------------------------------------------------------------
\* AgentListener.handleConnection

\* The accept loop hands the connection over; the handshake fails, as it does
\* once the context is canceled, or the certificate names no customer.
RejectAgent(c) ==
  /\ conn[c].pc = "new" /\ c <= app.conns
  /\ conn' = [conn EXCEPT ![c].pc = "rejected"]
  /\ UNCHANGED <<agents, client, mapping, admin, stop, ctxDone, app>>

\* The handshake succeeds, and NewMuxSession.
Handshake(c, x) ==
  /\ conn[c].pc = "new" /\ c <= app.conns /\ x \in app.customers
  /\ ~ ctxDone
  /\ conn' = [conn EXCEPT ![c].pc = "wait", ![c].customer = x, ![c].mux = "open"]
  /\ UNCHANGED <<agents, client, mapping, admin, stop, ctxDone, app>>

\* The service list arrives within serviceListWaitTimeout, or does not and then
\* stays in its channel; the registry only reports it.
AwaitServices(c) ==
  /\ conn[c].pc = "wait"
  /\ conn' = [conn EXCEPT ![c].pc = "register"]
  /\ UNCHANGED <<agents, client, mapping, admin, stop, ctxDone, app>>

\* Mutant: the replaced connection is forgotten.
Register_Forgets(c) ==
  /\ conn[c].pc = "register"
  /\ agents' = [agents EXCEPT ![conn[c].customer] = c]
  /\ conn' = [conn EXCEPT ![c].pc = "done"]
  /\ UNCHANGED <<client, mapping, admin, stop, ctxDone, app>>

\* MemoryRegistry.Register under r.mu: the entry is set; with a limit of one the
\* connection it replaces is told and closed after the unlock.
Register(c) ==
  LET x == conn[c].customer
      replaces == agents[x] # 0 /\ app.limit = 1
  IN /\ conn[c].pc = "register"
     /\ agents' = [agents EXCEPT ![x] = c]
     /\ conn' = [conn EXCEPT ![c].pc = IF replaces THEN "goaway" ELSE "done",
                             ![c].old = IF replaces THEN agents[x] ELSE 0]
     /\ UNCHANGED <<client, mapping, admin, stop, ctxDone, app>>

ReplaceGoAway(c) ==
  /\ conn[c].pc = "goaway"
  /\ conn' = [conn EXCEPT ![c].pc = "close", ![conn[c].old].goingAway = TRUE]
  /\ UNCHANGED <<agents, client, mapping, admin, stop, ctxDone, app>>

ReplaceClose(c) ==
  /\ conn[c].pc = "close"
  /\ conn' = CloseMux([conn EXCEPT ![c].pc = "done", ![c].old = 0], conn[c].old)
  /\ UNCHANGED <<agents, client, mapping, admin, stop, ctxDone, app>>

\* The agent ends the session, or the network does: a loop of the MuxSession
\* fails and closes it.  Nothing tells the registry.
SessionDies(c) ==
  /\ "die" \in app.ops
  /\ conn[c].mux = "open"
  /\ conn' = CloseMux(conn, c)
  /\ UNCHANGED <<agents, client, mapping, admin, stop, ctxDone, app>>

-----------------------------------------------------------------------------
\* MemoryRegistry.Unregister under r.mu, for admin and stop; Close after it.

Unregister(x) == agents' = [agents EXCEPT ![x] = 0]

DeleteAgent(x) ==
  /\ "delete" \in app.ops
  /\ admin.pc = "idle" /\ ~ ctxDone
  /\ Unregister(x)
  /\ admin' = [pc |-> IF agents[x] = 0 THEN "done" ELSE "close", held |-> agents[x]]
  /\ UNCHANGED <<conn, client, mapping, stop, ctxDone, app>>

\* Mutant: Unregister that leaves the connection open.
DeleteAgentClose_Leaves ==
  /\ admin.pc = "close"
  /\ admin' = [pc |-> "done", held |-> 0]
  /\ UNCHANGED <<agents, conn, client, mapping, stop, ctxDone, app>>
DeleteAgentClose ==
  /\ admin.pc = "close"
  /\ conn' = CloseMux(conn, admin.held)
  /\ admin' = [pc |-> "done", held |-> 0]
  /\ UNCHANGED <<agents, client, mapping, stop, ctxDone, app>>

-----------------------------------------------------------------------------
\* cmd/relay's shutdown, and Relay.Stop

Shutdown ==
  /\ "stop" \in app.ops
  /\ stop.pc = "idle"
  /\ ctxDone' = TRUE
  /\ stop' = [stop EXCEPT !.pc = "list"]
  /\ UNCHANGED <<agents, conn, client, mapping, admin, app>>

StopList ==
  /\ stop.pc = "list"
  /\ LET listed == {x \in Customer : agents[x] # 0} IN
       stop' = [stop EXCEPT !.pc = "goaway", !.agents = listed, !.todo = listed]
  /\ UNCHANGED <<agents, conn, client, mapping, admin, ctxDone, app>>

\* Lookup and GoAway; an agent that has left since is passed over.
StopGoAway(x) ==
  /\ stop.pc = "goaway"
  /\ x \in stop.todo
  /\ conn' = IF agents[x] = 0 THEN conn ELSE [conn EXCEPT ![agents[x]].goingAway = TRUE]
  /\ stop' = [stop EXCEPT !.todo = @ \ {x}]
  /\ UNCHANGED <<agents, client, mapping, admin, ctxDone, app>>

\* Mutant: Stop unregisters the customers it did not list, too.
StopListeners_All ==
  /\ stop.pc = "goaway"
  /\ stop.todo = {}
  /\ stop' = [stop EXCEPT !.pc = "unregister", !.todo = Customer]
  /\ UNCHANGED <<agents, conn, client, mapping, admin, ctxDone, app>>

\* clientListener.Stop; the accept loops ended with the context.
StopListeners ==
  /\ stop.pc = "goaway"
  /\ stop.todo = {}
  /\ stop' = [stop EXCEPT !.pc = "unregister", !.todo = stop.agents]
  /\ UNCHANGED <<agents, conn, client, mapping, admin, ctxDone, app>>

StopUnregister(x) ==
  /\ stop.pc = "unregister"
  /\ x \in stop.todo
  /\ Unregister(x)
  /\ stop' = [stop EXCEPT !.pc = IF agents[x] = 0 THEN "unregister" ELSE "close",
                          !.todo = @ \ {x}, !.held = agents[x]]
  /\ UNCHANGED <<conn, client, mapping, admin, ctxDone, app>>

StopClose ==
  /\ stop.pc = "close"
  /\ conn' = CloseMux(conn, stop.held)
  /\ stop' = [stop EXCEPT !.pc = "unregister", !.held = 0]
  /\ UNCHANGED <<agents, client, mapping, admin, ctxDone, app>>

\* Mutant: Stop returns before it has unregistered all.
StopDone_Early ==
  /\ stop.pc = "unregister"
  /\ stop' = [stop EXCEPT !.pc = "done"]
  /\ UNCHANGED <<agents, conn, client, mapping, admin, ctxDone, app>>
StopDone ==
  /\ stop.pc = "unregister"
  /\ stop.todo = {}
  /\ stop' = [stop EXCEPT !.pc = "done"]
  /\ UNCHANGED <<agents, conn, client, mapping, admin, ctxDone, app>>

-----------------------------------------------------------------------------
\* ClientListener.handleClient and PortRouter.Route

\* The mapping of a port is removed or replaced.
Remap(x, y) ==
  /\ "remap" \in app.ops
  /\ mapping[x] = x /\ x # y
  /\ mapping' = [mapping EXCEPT ![x] = y]
  /\ UNCHANGED <<agents, conn, client, admin, stop, ctxDone, app>>

\* Accept on port x, and LookupPort.  The goroutine that closes the listener when
\* the context ends may be late; Stop closes it at the latest.
AcceptClient(k, x) ==
  /\ client[k].pc = "new" /\ k <= app.clients /\ x \in app.customers
  /\ stop.pc \in {"idle", "list", "goaway"}
  /\ client' = [client EXCEPT ![k].port = x, ![k].customer = mapping[x],
                   ![k].pc = IF mapping[x] = "" THEN "returned" ELSE "allow",
                   ![k].sock = IF mapping[x] = "" THEN "closed" ELSE "open"]
  /\ UNCHANGED <<agents, conn, mapping, admin, stop, ctxDone, app>>

\* The customer's IPRateLimiter says no, or yes.
RateLimited(k) ==
  /\ client[k].pc = "allow"
  /\ client' = [client EXCEPT ![k].pc = "returned", ![k].sock = "closed"]
  /\ UNCHANGED <<agents, conn, mapping, admin, stop, ctxDone, app>>
Allowed(k) ==
  /\ client[k].pc = "allow"
  /\ client' = [client EXCEPT ![k].pc = "route"]
  /\ UNCHANGED <<agents, conn, mapping, admin, stop, ctxDone, app>>

\* Route reads the entry again, for max_streams (0, no limit, if it is gone).
RouteEntry(k) ==
  /\ client[k].pc = "route"
  /\ client' = [client EXCEPT ![k].pc = "find", ![k].limit =
                   IF mapping[client[k].port] = "" THEN 0 ELSE app.maxStreams]
  /\ UNCHANGED <<agents, conn, mapping, admin, stop, ctxDone, app>>

\* Mutant: the agent is found by the port's mapping of the moment.
RouteLookup_Remapped(k) ==
  LET x == mapping[client[k].port]
      c == IF x = "" THEN 0 ELSE agents[x]
  IN /\ client[k].pc = "find"
     /\ client' = [client EXCEPT ![k].conn = c, ![k].pc = IF c = 0 THEN "failed" ELSE "count"]
     /\ UNCHANGED <<agents, conn, mapping, admin, stop, ctxDone, app>>

\* registry.Lookup.  When Route fails, the client's connection stays open.
RouteLookup(k) ==
  LET c == agents[client[k].customer] IN
  /\ client[k].pc = "find"
  /\ client' = [client EXCEPT ![k].conn = c, ![k].pc = IF c = 0 THEN "failed" ELSE "count"]
  /\ UNCHANGED <<agents, conn, mapping, admin, stop, ctxDone, app>>

\* NumStreams against max_streams.
RouteLimit(k) ==
  LET n == Cardinality(conn[client[k].conn].streams)
      max == client[k].limit
  IN /\ client[k].pc = "count"
     /\ client' = [client EXCEPT ![k].pc = IF max > 0 /\ n >= max THEN "failed" ELSE "open"]
     /\ UNCHANGED <<agents, conn, mapping, admin, stop, ctxDone, app>>

\* OpenStreamWithPayload puts the stream into the map, or fails: after GOAWAY, on
\* a closed session, or at MaxConcurrentStreams, which this module does not
\* count and takes to be possible at any time.
OpenStream(k) ==
  LET c == client[k].conn IN
  /\ client[k].pc = "open"
  /\ \/ /\ ~ conn[c].goingAway /\ conn[c].mux = "open"
        /\ conn' = [conn EXCEPT ![c].streams = @ \cup {k}]
        /\ client' = [client EXCEPT ![k].pc = "opening"]
     \/ /\ client' = [client EXCEPT ![k].pc = "failed"]
        /\ UNCHANGED conn
  /\ UNCHANGED <<agents, mapping, admin, stop, ctxDone, app>>

\* The agent's ACK: copyBidirectional starts its goroutines.
Opened(k) ==
  /\ client[k].pc = "opening"
  /\ k \in conn[client[k].conn].streams
  /\ client' = [client EXCEPT ![k].pc = "copy", ![k].toClient = "run", ![k].toStream = "run"]
  /\ UNCHANGED <<agents, conn, mapping, admin, stop, ctxDone, app>>

\* The session closed, or the context was canceled: the stream is removed.
OpenFails(k) ==
  LET c == client[k].conn IN
  /\ client[k].pc = "opening"
  /\ ctxDone \/ conn[c].mux = "closed"
  /\ client' = [client EXCEPT ![k].pc = "failed"]
  /\ conn' = [conn EXCEPT ![c].streams = @ \ {k}]
  /\ UNCHANGED <<agents, mapping, admin, stop, ctxDone, app>>

-----------------------------------------------------------------------------
\* copyBidirectional

StreamOpen(k) == k \in conn[client[k].conn].streams

\* The agent ends its direction of the stream, or resets the stream.
AgentCloses(k) ==
  /\ "close" \in app.ops
  /\ client[k].pc = "copy" /\ StreamOpen(k) /\ ~ client[k].fin
  /\ client' = [client EXCEPT ![k].fin = TRUE]
  /\ UNCHANGED <<agents, conn, mapping, admin, stop, ctxDone, app>>
AgentResets(k) ==
  /\ "reset" \in app.ops
  /\ client[k].pc = "copy" /\ StreamOpen(k)
  /\ conn' = [conn EXCEPT ![client[k].conn].streams = @ \ {k}]
  /\ UNCHANGED <<agents, client, mapping, admin, stop, ctxDone, app>>

\* io.Copy returns, because its source ended or its target failed; cancel().
CopyEnds(k, dir) ==
  /\ client[k].pc = "copy"
  /\ client[k][dir] = "run"
  /\ client[k].sock = "closed" \/ ~ StreamOpen(k) \/ (dir = "toClient" /\ client[k].fin)
  /\ client' = [client EXCEPT ![k][dir] = "done", ![k].canceled = TRUE]
  /\ UNCHANGED <<agents, conn, mapping, admin, stop, ctxDone, app>>

\* The client ends its direction, and the copy from it returns; or it goes away.
ClientEnds(k) ==
  /\ "close" \in app.ops
  /\ client[k].pc = "copy"
  /\ client[k].toStream = "run"
  /\ client' = [client EXCEPT ![k].toStream = "done", ![k].canceled = TRUE]
  /\ UNCHANGED <<agents, conn, mapping, admin, stop, ctxDone, app>>

\* The third goroutine, on cancel or when the server's context ends: the
\* client's connection is closed and the stream reset.
\* Mutant: only the client's connection is closed.
CancelCopy_KeepsStream(k) ==
  /\ client[k].pc \in {"copy", "returned"}
  /\ client[k].canceled \/ ctxDone
  /\ client[k].sock = "open"
  /\ client' = [client EXCEPT ![k].sock = "closed"]
  /\ UNCHANGED <<agents, conn, mapping, admin, stop, ctxDone, app>>
CancelCopy(k) ==
  /\ client[k].pc \in {"copy", "returned"}
  /\ client[k].canceled \/ ctxDone
  /\ client[k].sock = "open"
  /\ client' = [client EXCEPT ![k].sock = "closed"]
  /\ conn' = [conn EXCEPT ![client[k].conn].streams = @ \ {k}]
  /\ UNCHANGED <<agents, mapping, admin, stop, ctxDone, app>>

\* Both results are collected; the third goroutine may come later.
RouteReturns(k) ==
  /\ client[k].pc = "copy"
  /\ client[k].toClient = "done" /\ client[k].toStream = "done"
  /\ client' = [client EXCEPT ![k].pc = "returned"]
  /\ UNCHANGED <<agents, conn, mapping, admin, stop, ctxDone, app>>

-----------------------------------------------------------------------------
ConnStep(c) ==
  AwaitServices(c) \/ Register(c) \/ ReplaceGoAway(c) \/ ReplaceClose(c)

StopStep ==
  \/ StopList \/ StopListeners \/ StopClose \/ StopDone
  \/ \E x \in Customer : StopGoAway(x) \/ StopUnregister(x)

RouteStep(k) ==
  \/ RateLimited(k) \/ Allowed(k) \/ RouteEntry(k) \/ RouteLookup(k) \/ RouteLimit(k)
  \/ OpenStream(k) \/ OpenFails(k) \/ RouteReturns(k)

Environment ==
  \/ \E c \in Conn : RejectAgent(c) \/ SessionDies(c) \/ \E x \in Customer : Handshake(c, x)
  \/ \E x \in Customer : DeleteAgent(x) \/ \E y \in Customer \cup {""} : Remap(x, y)
  \/ Shutdown
  \/ \E k \in Client :
       \/ \E x \in Customer : AcceptClient(k, x)
       \/ Opened(k) \/ AgentCloses(k) \/ AgentResets(k) \/ ClientEnds(k)

Next ==
  \/ Environment
  \/ \E c \in Conn : ConnStep(c)
  \/ DeleteAgentClose
  \/ StopStep
  \/ \E k \in Client :
       \/ RouteStep(k) \/ CancelCopy(k)
       \/ \E dir \in {"toClient", "toStream"} : CopyEnds(k, dir)

Spec == Init /\ [][Next]_vars

\* The relay's own goroutines run; the environment, the agents' ACKs included,
\* owes nothing.
Fairness ==
  /\ \A c \in Conn : WF_vars(ConnStep(c))
  /\ WF_vars(DeleteAgentClose)
  /\ WF_vars(StopStep)
  /\ \A k \in Client :
       /\ WF_vars(RouteStep(k))
       /\ WF_vars(CancelCopy(k))
       /\ \A dir \in {"toClient", "toStream"} : WF_vars(CopyEnds(k, dir))

FairSpec == Spec /\ Fairness

-----------------------------------------------------------------------------
\* Properties

ConnPC == {"new", "rejected", "wait", "register", "goaway", "close", "done"}
ClientPC == {"new", "allow", "route", "find", "count", "open", "opening", "copy",
             "returned", "failed"}

\* The variables keep their types.
TypeOK ==
  /\ agents \in [Customer -> {0} \cup Conn]
  /\ \A c \in Conn :
       /\ conn[c].pc \in ConnPC
       /\ conn[c].customer \in Customer \cup {""}
       /\ conn[c].mux \in {"none", "open", "closed"}
       /\ conn[c].streams \subseteq Client
       /\ conn[c].old \in {0} \cup Conn
  /\ \A k \in Client : client[k].pc \in ClientPC /\ client[k].conn \in {0} \cup Conn
  /\ mapping \in [Customer -> Customer \cup {""}]
  /\ admin.held \in {0} \cup Conn /\ stop.held \in {0} \cup Conn
  /\ stop.todo \subseteq stop.agents /\ stop.agents \subseteq Customer

Registered(c) == conn[c].pc \in {"goaway", "close", "done"}

\* Somebody has taken c out of the registry and will close it.
Held(c) == c \in {admin.held, stop.held} \cup {conn[d].old : d \in Conn}

\* One connection per customer (Register, Unregister): a registered connection
\* that is still open is the customer's entry, or is in the hands of the one
\* goroutine that replaced or removed it and has yet to close it.
NoOrphan ==
  app.limit = 1 =>
    \A c \in Conn : Registered(c) /\ conn[c].mux = "open" =>
                      agents[conn[c].customer] = c \/ Held(c)

\* A client's stream is on a connection of the customer whose port it was
\* accepted on, whatever happens to mappings and connections meanwhile
\* (handleClient, Route).
RoutedToOwner ==
  \A c \in Conn : \A k \in conn[c].streams : conn[c].customer = client[k].customer

\* A connection that is replaced or removed is closed (Register, Unregister).
ReplacedCloses ==
  \A c \in Conn :
    (Registered(c) /\ agents[conn[c].customer] # c /\ app.limit = 1)
      ~> conn[c].mux = "closed"

\* Relay.Stop closes the session of every agent it listed, the connection that
\* replaced it meanwhile included.
StopClosesAgents ==
  \A c \in Conn :
    (stop.pc = "goaway" /\ conn[c].customer \in stop.agents /\ agents[conn[c].customer] = c)
      ~> conn[c].mux = "closed"

\* copyBidirectional: once a side ends, the stream is reset, the session closes
\* or the server stops, both copies end, the client's connection is closed and
\* the stream leaves the session.
CopyReleases ==
  \A k \in Client :
    (client[k].pc = "copy" /\ (client[k].canceled \/ ctxDone \/ ~ StreamOpen(k)))
      ~> (client[k].pc = "returned" /\ client[k].sock = "closed"
            /\ \A c \in Conn : k \notin conn[c].streams)

\* "On tunnel close: Unregister(customerID)" (relay.md): a closed session does
\* not stay in the registry.
ClosedLeaves ==
  \A c \in Conn : conn[c].mux = "closed" ~> \A x \in Customer : agents[x] # c

=============================================================================
