---------------------------- MODULE RelayProofs -----------------------------
(***************************************************************************)
(* Theorems about Relay for every set of customers and any number of agent *)
(* and client connections: its type invariant, that no registered agent    *)
(* connection is orphaned, and that a client's stream never leaves the     *)
(* customer its port belonged to.                                          *)
(*                                                                         *)
(* Neither property is inductive.  NoOrphan needs that a goroutine         *)
(* overwrites the connection it holds only when it holds none, and that    *)
(* the registry's entry for a customer is one of that customer's           *)
(* connections (RegistryInv).  RoutedToOwner needs that the connection     *)
(* Route looked up is still that of the customer handleClient looked up    *)
(* before, and that a stream is in the map of that connection only         *)
(* (RoutingInv).                                                           *)
(***************************************************************************)
EXTENDS Relay, TLAPS

ConnRecord ==
  [pc : ConnPC, customer : Customer \cup {""}, mux : {"none", "open", "closed"},
   goingAway : BOOLEAN, streams : SUBSET Client, old : {0} \cup Conn]

CopyState == {"none", "run", "done"}

ClientRecord ==
  [pc : ClientPC, port : Customer \cup {""}, customer : Customer \cup {""},
   limit : Nat, conn : {0} \cup Conn, sock : {"none", "open", "closed"},
   fin : BOOLEAN, toClient : CopyState, toStream : CopyState, canceled : BOOLEAN]

\* Registered, as a set of states.
RegisteredPC == {"goaway", "close", "done"}

StopPC == {"idle", "list", "goaway", "unregister", "close", "done"}

\* The types of all variables.
TypeInv ==
  /\ app \in Scenarios
  /\ agents \in [Customer -> {0} \cup Conn]
  /\ conn \in [Conn -> ConnRecord]
  /\ client \in [Client -> ClientRecord]
  /\ mapping \in [Customer -> Customer \cup {""}]
  /\ admin \in [pc : {"idle", "close", "done"}, held : {0} \cup Conn]
  /\ stop \in [pc : StopPC, agents : SUBSET Customer, todo : SUBSET Customer,
               held : {0} \cup Conn]
  /\ stop.todo \subseteq stop.agents

\* Each customer's entry is a registered connection of that customer; whoever
\* is not about to close a connection holds none.
RegistryInv ==
  /\ \A x \in Customer : agents[x] # 0 =>
       Registered(agents[x]) /\ conn[agents[x]].customer = x
  /\ \A c \in Conn : conn[c].pc \notin {"new", "rejected"} => conn[c].customer \in Customer
  /\ \A c \in Conn : conn[c].pc \notin {"goaway", "close"} => conn[c].old = 0
  /\ admin.pc # "close" => admin.held = 0
  /\ stop.pc # "close" => stop.held = 0

\* Nobody who could close c has it, and yet it is open.
Orphan(c) ==
  /\ Registered(c) /\ conn[c].mux = "open"
  /\ agents[conn[c].customer] # c
  /\ admin.held # c /\ stop.held # c
  /\ \A d \in Conn : conn[d].old # c

\* What a client connection knows of its customer and its agent.
RoutingInv ==
  /\ \A k \in Client : client[k].pc \in {"allow", "route", "find"} => client[k].customer \in Customer
  /\ \A k \in Client : client[k].conn # 0 =>
       /\ client[k].pc \notin {"new", "allow", "route", "find"}
       /\ Registered(client[k].conn)
       /\ conn[client[k].conn].customer = client[k].customer
  /\ \A c \in Conn : \A k \in conn[c].streams : client[k].conn = c

\* The inductive invariant.
IndInv ==
  /\ TypeInv
  /\ RegistryInv
  /\ app.limit = 1 => \A c \in Conn : ~ Orphan(c)
  /\ RoutingInv

-----------------------------------------------------------------------------
\* A connection's number is not 0, the value for no connection.
LEMMA ConnFacts == \A c \in Conn : c # 0
  BY RelayAssumption DEF Conn

\* Types of the scenario's fields.
LEMMA AppFacts ==
  ASSUME app \in Scenarios
  PROVE  app.maxStreams \in Nat /\ app.customers \subseteq Customer
  BY RelayAssumption

\* MuxSession.Close changes one connection's mux and streams only.
LEMMA CloseMuxFacts ==
  ASSUME NEW cs \in [Conn -> ConnRecord], NEW c \in {0} \cup Conn
  PROVE  /\ CloseMux(cs, c) \in [Conn -> ConnRecord]
         /\ \A d \in Conn :
              /\ CloseMux(cs, c)[d].pc = cs[d].pc
              /\ CloseMux(cs, c)[d].customer = cs[d].customer
              /\ CloseMux(cs, c)[d].old = cs[d].old
              /\ CloseMux(cs, c)[d].streams \subseteq cs[d].streams
              /\ CloseMux(cs, c)[d].mux = IF d = c THEN "closed" ELSE cs[d].mux
<1>1. CASE c \in Conn
  <2> DEFINE t == [cs[c] EXCEPT !.mux = "closed", !.streams = {}]
  <2>1. cs[c] \in ConnRecord
    BY <1>1
  <2>2. /\ t \in ConnRecord /\ t.pc = cs[c].pc /\ t.customer = cs[c].customer
        /\ t.old = cs[c].old /\ t.streams = {} /\ t.mux = "closed"
    BY <2>1, Zenon DEF ConnRecord
  <2>3. CloseMux(cs, c) = [cs EXCEPT ![c] = t]
    BY Zenon DEF CloseMux
  <2> HIDE DEF t
  <2> QED BY <1>1, <2>2, <2>3
<1>2. CASE c = 0
  <2>1. c \notin Conn
    BY <1>2, ConnFacts
  <2>2. CloseMux(cs, c) = cs
    BY <2>1 DEF CloseMux
  <2> QED BY <2>1, <2>2
<1> QED BY <1>1, <1>2

\* Init
LEMMA InitGood == Init => IndInv
<1> SUFFICES ASSUME Init PROVE IndInv
  OBVIOUS
<1>1. TypeInv
  BY Zenon DEF Init, TypeInv, ConnRecord, ClientRecord, NewConn, NewClient, CopyState,
         StopPC, ConnPC, ClientPC
<1>2. RegistryInv
  BY Zenon DEF Init, RegistryInv, NewConn, Registered
<1>3. \A c \in Conn : ~ Orphan(c)
  BY Zenon DEF Init, Orphan, NewConn, Registered
<1>4. RoutingInv
  BY Zenon DEF Init, RoutingInv, NewConn, NewClient
<1> QED BY <1>1, <1>2, <1>3, <1>4 DEF IndInv

-----------------------------------------------------------------------------
\* What a step leaves alone

\* The registry, and what the holders and the connections say of it; sessions
\* may close.
RegistryKept ==
  /\ agents' = agents /\ app' = app /\ admin' = admin
  /\ stop'.held = stop.held /\ (stop'.pc = "close" <=> stop.pc = "close")
  /\ \A d \in Conn :
       /\ conn'[d].pc = conn[d].pc
       /\ conn'[d].customer = conn[d].customer
       /\ conn'[d].old = conn[d].old
       /\ conn'[d].mux = "open" => conn[d].mux = "open"

\* The client connections, and the customers of their agents; streams may go.
RoutingKept ==
  /\ client' = client
  /\ \A d \in Conn :
       /\ Registered(d) => conn'[d].pc \in RegisteredPC
       /\ conn'[d].customer = conn[d].customer
       /\ conn'[d].streams \subseteq conn[d].streams

\* A step that keeps the registry keeps its invariant, and orphans nothing.
LEMMA RegistryFrame ==
  ASSUME IndInv, TypeInv', RegistryKept
  PROVE  RegistryInv' /\ (app'.limit = 1 => \A c \in Conn : ~ Orphan(c)')
<1>1. \A d \in Conn : conn'[d].pc \in RegisteredPC <=> Registered(d)
  BY DEF RegistryKept, Registered, RegisteredPC
<1>2. agents \in [Customer -> {0} \cup Conn]
  BY Zenon DEF IndInv, TypeInv
<1>3. RegistryInv'
  BY <1>1, <1>2 DEF IndInv, RegistryInv, RegistryKept, Registered, RegisteredPC
<1>4. app'.limit = 1 => \A c \in Conn : ~ Orphan(c)'
  BY <1>1, <1>2 DEF IndInv, Orphan, RegistryKept, Registered, RegisteredPC
<1> QED BY <1>3, <1>4

\* A step that keeps the client connections keeps their invariant.
LEMMA RoutingFrame ==
  ASSUME IndInv, TypeInv', RoutingKept
  PROVE  RoutingInv'
<1>1. client \in [Client -> ClientRecord] /\ \A k \in Client : client[k].conn \in {0} \cup Conn
  BY Zenon DEF IndInv, TypeInv, ClientRecord
<1> QED BY <1>1 DEF IndInv, RoutingInv, RoutingKept, Registered, RegisteredPC

\* Both: the step only closes sessions, removes streams or sets goingAway.
LEMMA QuietGood ==
  ASSUME IndInv, TypeInv', RegistryKept, client' = client,
         \A d \in Conn : conn'[d].streams \subseteq conn[d].streams
  PROVE  IndInv'
<1>1. RoutingKept
  BY DEF RegistryKept, RoutingKept, Registered, RegisteredPC
<1> QED BY <1>1, RegistryFrame, RoutingFrame DEF IndInv

\* A client connection takes a step: it becomes t, and its stream may enter or
\* leave the map of its agent's session.
LEMMA ClientGood ==
  ASSUME IndInv, NEW k \in Client, NEW t \in ClientRecord,
         client' = [client EXCEPT ![k] = t],
         UNCHANGED <<agents, mapping, admin, stop, app>>,
         conn' \in [Conn -> ConnRecord],
         \A d \in Conn :
           /\ conn'[d].pc = conn[d].pc /\ conn'[d].customer = conn[d].customer
           /\ conn'[d].old = conn[d].old /\ conn'[d].mux = conn[d].mux
           /\ conn'[d].streams \subseteq conn[d].streams \cup (IF d = t.conn THEN {k} ELSE {}),
         t.pc \in {"allow", "route", "find"} => t.customer \in Customer,
         t.conn # 0 =>
           /\ t.pc \notin {"new", "allow", "route", "find"}
           /\ Registered(t.conn)
           /\ conn[t.conn].customer = t.customer,
         \A c \in Conn : k \in conn[c].streams => t.conn = c
  PROVE  IndInv'
<1>1. TypeInv'
  BY Zenon DEF IndInv, TypeInv
<1>2. RegistryKept
  BY DEF RegistryKept
<1>3. client \in [Client -> ClientRecord] /\ client'[k] = t
      /\ \A j \in Client : j # k => client'[j] = client[j]
  BY Zenon DEF IndInv, TypeInv
<1>4. /\ t.conn \in {0} \cup Conn
      /\ \A j \in Client : client[j].conn \in {0} \cup Conn
      /\ \A d \in Conn : conn'[d].streams \subseteq Client /\ conn[d].streams \subseteq Client
  BY <1>1, <1>3, Zenon DEF IndInv, TypeInv, ClientRecord, ConnRecord
<1>5. \A d \in Conn : Registered(d) <=> conn'[d].pc \in RegisteredPC
  BY DEF Registered, RegisteredPC
<1>6. RoutingInv'
  <2>1. \A j \in Client : client'[j].pc \in {"allow", "route", "find"} => client'[j].customer \in Customer
    BY <1>3 DEF IndInv, RoutingInv
  <2>2. ASSUME NEW j \in Client, client'[j].conn # 0
        PROVE  /\ client'[j].pc \notin {"new", "allow", "route", "find"}
               /\ conn'[client'[j].conn].pc \in RegisteredPC
               /\ conn'[client'[j].conn].customer = client'[j].customer
    BY <2>2, <1>3, <1>4, <1>5 DEF IndInv, RoutingInv
  <2>3. ASSUME NEW c \in Conn, NEW j \in conn'[c].streams
        PROVE  client'[j].conn = c
    BY <1>3, <1>4 DEF IndInv, RoutingInv
  <2> QED BY <2>1, <2>2, <2>3 DEF RoutingInv, Registered, RegisteredPC
<1> QED BY <1>1, <1>2, <1>6, RegistryFrame DEF IndInv

-----------------------------------------------------------------------------
\* handleConnection

\* The types of one connection, for the lemmas below.
LEMMA ConnTypes ==
  ASSUME IndInv, NEW c \in Conn
  PROVE  /\ conn \in [Conn -> ConnRecord] /\ conn[c] \in ConnRecord
         /\ conn[c].old \in {0} \cup Conn
         /\ c # 0
  BY ConnFacts, Zenon DEF IndInv, TypeInv, ConnRecord

\* A connection that is not registered yet becomes t.
LEMMA UnregisteredGood ==
  ASSUME IndInv, NEW c \in Conn, NEW t \in ConnRecord,
         conn' = [conn EXCEPT ![c] = t],
         UNCHANGED <<agents, client, mapping, admin, stop, app>>,
         conn[c].pc \notin RegisteredPC, t.pc \notin RegisteredPC,
         t.pc \notin {"new", "rejected"} => t.customer \in Customer,
         t.old = conn[c].old, t.streams = conn[c].streams
  PROVE  IndInv'
<1>1. TypeInv'
  BY Zenon DEF IndInv, TypeInv
<1>2. conn'[c] = t /\ \A d \in Conn : d # c => conn'[d] = conn[d]
  BY ConnTypes
<1>3. agents \in [Customer -> {0} \cup Conn]
  BY Zenon DEF IndInv, TypeInv
<1>4. RegistryInv'
  BY <1>2, <1>3 DEF IndInv, RegistryInv, Registered, RegisteredPC
<1>5. app'.limit = 1 => \A d \in Conn : ~ Orphan(d)'
  BY <1>2, <1>3 DEF IndInv, Orphan, Registered, RegisteredPC
<1>6. RoutingInv'
  <2>1. \A k \in Client : client[k].conn \in {0} \cup Conn
    BY Zenon DEF IndInv, TypeInv, ClientRecord
  <2>2. \A k \in Client : client[k].conn # c
    BY ConnTypes DEF IndInv, RoutingInv, Registered, RegisteredPC
  <2> QED BY <1>2, <2>1, <2>2 DEF IndInv, RoutingInv, Registered
<1> QED BY <1>1, <1>4, <1>5, <1>6 DEF IndInv

\* A rejected connection is never registered.
LEMMA RejectAgentGood ==
  ASSUME IndInv, NEW c \in Conn, RejectAgent(c)
  PROVE  IndInv'
<1> DEFINE t == [conn[c] EXCEPT !.pc = "rejected"]
<1>1. /\ t \in ConnRecord /\ t.pc = "rejected" /\ t.old = conn[c].old
      /\ t.streams = conn[c].streams
  BY ConnTypes, Zenon DEF ConnRecord, ConnPC
<1>2. conn' = [conn EXCEPT ![c] = t] /\ UNCHANGED <<agents, client, mapping, admin, stop, app>>
  BY DEF RejectAgent
<1>3. conn[c].pc \notin RegisteredPC /\ "rejected" \notin RegisteredPC
  BY DEF RejectAgent, RegisteredPC
<1> HIDE DEF t
<1> QED BY <1>1, <1>2, <1>3, UnregisteredGood, Zenon

\* The handshake names the customer.
LEMMA HandshakeGood ==
  ASSUME IndInv, NEW c \in Conn, NEW x \in Customer, Handshake(c, x)
  PROVE  IndInv'
<1> DEFINE t == [conn[c] EXCEPT !.pc = "wait", !.customer = x, !.mux = "open"]
<1>1. /\ t \in ConnRecord /\ t.pc = "wait" /\ t.customer = x
      /\ t.old = conn[c].old /\ t.streams = conn[c].streams
  BY ConnTypes, Zenon DEF ConnRecord, ConnPC
<1>2. conn' = [conn EXCEPT ![c] = t] /\ UNCHANGED <<agents, client, mapping, admin, stop, app>>
  BY Zenon DEF Handshake
<1>3. conn[c].pc \notin RegisteredPC /\ "wait" \notin RegisteredPC
  BY DEF Handshake, RegisteredPC
<1> HIDE DEF t
<1> QED BY <1>1, <1>2, <1>3, UnregisteredGood, Zenon

\* The wait for the service list changes nothing but the pc.
LEMMA AwaitServicesGood ==
  ASSUME IndInv, NEW c \in Conn, AwaitServices(c)
  PROVE  IndInv'
<1> DEFINE t == [conn[c] EXCEPT !.pc = "register"]
<1>1. /\ t \in ConnRecord /\ t.pc = "register" /\ t.customer = conn[c].customer
      /\ t.old = conn[c].old /\ t.streams = conn[c].streams
  BY ConnTypes, Zenon DEF ConnRecord, ConnPC
<1>2. conn' = [conn EXCEPT ![c] = t] /\ UNCHANGED <<agents, client, mapping, admin, stop, app>>
  BY DEF AwaitServices
<1>3. conn[c].pc \notin RegisteredPC /\ "register" \notin RegisteredPC
  BY DEF AwaitServices, RegisteredPC
<1>4. conn[c].customer \in Customer
  BY DEF AwaitServices, IndInv, RegistryInv
<1> HIDE DEF t
<1> QED BY <1>1, <1>2, <1>3, <1>4, UnregisteredGood, Zenon

\* Register: the entry that is overwritten, if any, is held by c from here on;
\* c held nothing before.
LEMMA RegisterGood ==
  ASSUME IndInv, NEW c \in Conn, Register(c)
  PROVE  IndInv'
<1> DEFINE x == conn[c].customer
           replaces == agents[x] # 0 /\ app.limit = 1
           t == [conn[c] EXCEPT !.pc = IF replaces THEN "goaway" ELSE "done",
                                !.old = IF replaces THEN agents[x] ELSE 0]
<1>a. conn[c].pc = "register" /\ conn[c].old = 0 /\ x \in Customer
  BY DEF Register, IndInv, RegistryInv
<1>b. agents \in [Customer -> {0} \cup Conn] /\ agents[x] \in {0} \cup Conn
  BY <1>a, Zenon DEF IndInv, TypeInv
<1>1. /\ t \in ConnRecord /\ t.customer = x /\ t.streams = conn[c].streams
      /\ t.mux = conn[c].mux
      /\ t.pc = (IF replaces THEN "goaway" ELSE "done")
      /\ t.old = (IF replaces THEN agents[x] ELSE 0)
  BY ConnTypes, <1>b, Zenon DEF ConnRecord, ConnPC
<1>2. /\ conn' = [conn EXCEPT ![c] = t] /\ agents' = [agents EXCEPT ![x] = c]
      /\ UNCHANGED <<client, mapping, admin, stop, app>>
  BY Zenon DEF Register
<1> HIDE DEF t
<1>3. conn'[c] = t /\ \A d \in Conn : d # c => conn'[d] = conn[d]
  BY <1>2, ConnTypes
<1>4. agents'[x] = c /\ \A y \in Customer : y # x => agents'[y] = agents[y]
  BY <1>2, <1>a, <1>b
<1>5. TypeInv'
  BY <1>1, <1>2, <1>a, Zenon DEF IndInv, TypeInv
<1>6. t.pc \in RegisteredPC /\ (t.pc # "goaway" => t.old = 0) /\ c # 0
  BY <1>1, ConnTypes DEF RegisteredPC
<1>7. RegistryInv'
  BY <1>1, <1>2, <1>3, <1>4, <1>6, <1>a, <1>b
     DEF IndInv, RegistryInv, Registered, RegisteredPC
<1>8. app'.limit = 1 => \A d \in Conn : ~ Orphan(d)'
  <2> SUFFICES ASSUME app.limit = 1, NEW d \in Conn, Orphan(d)' PROVE FALSE
    BY <1>2
  <2>1. d # c
    BY <1>1, <1>3, <1>4 DEF Orphan
  <2>a. conn'[d] = conn[d] /\ conn[d].customer \in Customer
    BY <2>1, <1>3 DEF Orphan, Registered, IndInv, RegistryInv
  <2>2. agents[conn[d].customer] # d
    <3>1. conn[d].customer # x => agents'[conn[d].customer] = agents[conn[d].customer]
      BY <2>a, <1>4
    <3>2. agents'[conn[d].customer] # d /\ t.old # d
      BY <2>a, <1>3 DEF Orphan
    <3>3. agents[x] = d => t.old = d
      BY <1>1, ConnTypes
    <3> QED BY <3>1, <3>2, <3>3
  <2>3. \A e \in Conn : conn[e].old # d
    BY <1>3, <1>a, ConnTypes DEF Orphan
  <2>4. Orphan(d)
    BY <2>1, <2>2, <2>3, <1>2, <1>3 DEF Orphan, Registered
  <2> QED BY <2>4 DEF IndInv
<1>9. RoutingInv'
  <2>1. RoutingKept
    BY <1>1, <1>2, <1>3, <1>6 DEF RoutingKept, Registered, RegisteredPC
  <2> QED BY <2>1, <1>5, RoutingFrame
<1> QED BY <1>5, <1>7, <1>8, <1>9 DEF IndInv

\* Register's GOAWAY to the connection it replaces.
LEMMA ReplaceGoAwayGood ==
  ASSUME IndInv, NEW c \in Conn, ReplaceGoAway(c)
  PROVE  IndInv'
<1> DEFINE t == [conn[c] EXCEPT !.pc = "close"]
           cs == [conn EXCEPT ![c] = t]
           o == conn[c].old
           u == [cs[o] EXCEPT !.goingAway = TRUE]
<1>1. /\ t \in ConnRecord /\ t.customer = conn[c].customer /\ t.streams = conn[c].streams
      /\ t.mux = conn[c].mux /\ t.pc = "close" /\ t.old = conn[c].old
  BY ConnTypes, Zenon DEF ConnRecord, ConnPC
<1>2. /\ conn' = [cs EXCEPT ![o] = u]
      /\ UNCHANGED <<agents, client, mapping, admin, stop, app>>
  BY DEF ReplaceGoAway
<1>3. cs \in [Conn -> ConnRecord] /\ cs[c] = t /\ \A d \in Conn : d # c => cs[d] = conn[d]
  BY <1>1, ConnTypes
<1> HIDE DEF t, cs
<1>4. /\ conn' \in [Conn -> ConnRecord]
      /\ \A d \in Conn : /\ conn'[d].pc = cs[d].pc /\ conn'[d].customer = cs[d].customer
                         /\ conn'[d].old = cs[d].old /\ conn'[d].mux = cs[d].mux
                         /\ conn'[d].streams = cs[d].streams
  <2>1. CASE o = 0
    <3>1. o \notin Conn /\ DOMAIN cs = Conn
      BY <2>1, <1>3, ConnFacts
    <3> HIDE DEF o, u
    <3>2. [cs EXCEPT ![o] = u] = cs
      BY <3>1, <1>3
    <3>3. conn' = cs
      BY <3>2, <1>2
    <3> QED BY <3>3, <1>3
  <2>2. CASE o \in Conn
    <3> HIDE DEF o
    <3>a. cs[o] \in ConnRecord
      BY <2>2, <1>3
    <3>1. /\ u \in ConnRecord /\ u.customer = cs[o].customer /\ u.streams = cs[o].streams
          /\ u.mux = cs[o].mux /\ u.pc = cs[o].pc /\ u.old = cs[o].old
      BY <3>a, Zenon DEF ConnRecord
    <3> HIDE DEF u
    <3> QED BY <2>2, <3>1, <1>2, <1>3
  <2> QED BY <2>1, <2>2, ConnTypes
<1>a. conn[c].pc = "goaway"
  BY DEF ReplaceGoAway
<1>5. TypeInv'
  BY <1>2, <1>4, Zenon DEF IndInv, TypeInv
<1>6. \A d \in Conn : conn'[d].pc \in RegisteredPC <=> Registered(d)
  BY <1>1, <1>3, <1>4, <1>a DEF Registered, RegisteredPC
<1>7. \A d \in Conn : /\ conn'[d].customer = conn[d].customer /\ conn'[d].mux = conn[d].mux
                      /\ conn'[d].old = conn[d].old /\ conn'[d].streams = conn[d].streams
                      /\ conn'[d].pc = IF d = c THEN "close" ELSE conn[d].pc
  BY <1>1, <1>3, <1>4
<1>8. agents \in [Customer -> {0} \cup Conn]
  BY Zenon DEF IndInv, TypeInv
<1>9. RegistryInv'
  BY <1>2, <1>6, <1>7, <1>8, <1>a DEF IndInv, RegistryInv, Registered, RegisteredPC
<1>10. app'.limit = 1 => \A d \in Conn : ~ Orphan(d)'
  BY <1>2, <1>6, <1>7, <1>8 DEF IndInv, Orphan, Registered, RegisteredPC
<1>11. RoutingKept
  BY <1>2, <1>6, <1>7 DEF RoutingKept
<1> QED BY <1>5, <1>9, <1>10, <1>11, RoutingFrame DEF IndInv

\* Register's Close of the connection it replaces: c lets it go when it is closed.
LEMMA ReplaceCloseGood ==
  ASSUME IndInv, NEW c \in Conn, ReplaceClose(c)
  PROVE  IndInv'
<1> DEFINE t == [conn[c] EXCEPT !.pc = "done", !.old = 0]
           cs == [conn EXCEPT ![c] = t]
           o == conn[c].old
<1>1. /\ t \in ConnRecord /\ t.customer = conn[c].customer /\ t.streams = conn[c].streams
      /\ t.mux = conn[c].mux /\ t.pc = "done" /\ t.old = 0
  BY ConnTypes, Zenon DEF ConnRecord, ConnPC
<1>2. /\ conn' = CloseMux(cs, o)
      /\ UNCHANGED <<agents, client, mapping, admin, stop, app>>
  BY Zenon DEF ReplaceClose
<1>3. cs \in [Conn -> ConnRecord] /\ cs[c] = t /\ \A d \in Conn : d # c => cs[d] = conn[d]
  BY <1>1, ConnTypes, Zenon
<1> HIDE DEF t, cs
<1>a. conn[c].pc = "close" /\ o \in {0} \cup Conn
  BY ConnTypes DEF ReplaceClose
<1>4. conn' \in [Conn -> ConnRecord]
  BY <1>2, <1>3, <1>a, CloseMuxFacts, Zenon
<1>5. TypeInv'
  BY <1>2, <1>4, Zenon DEF IndInv, TypeInv
<1>6. \A d \in Conn : /\ conn'[d].customer = conn[d].customer
                      /\ conn'[d].mux = IF d = o THEN "closed" ELSE conn[d].mux
                      /\ conn'[d].old = IF d = c THEN 0 ELSE conn[d].old
                      /\ conn'[d].streams \subseteq conn[d].streams
                      /\ conn'[d].pc = IF d = c THEN "done" ELSE conn[d].pc
  <2> HIDE DEF o
  <2>1. \A d \in Conn : /\ conn'[d].pc = cs[d].pc /\ conn'[d].customer = cs[d].customer
                        /\ conn'[d].old = cs[d].old /\ conn'[d].streams \subseteq cs[d].streams
                        /\ conn'[d].mux = IF d = o THEN "closed" ELSE cs[d].mux
    BY <1>2, <1>3, <1>a, CloseMuxFacts
  <2> QED BY <2>1, <1>1, <1>3
<1>7. \A d \in Conn : conn'[d].pc \in RegisteredPC <=> Registered(d)
  BY <1>6, <1>a DEF Registered, RegisteredPC
<1>8. agents \in [Customer -> {0} \cup Conn]
  BY Zenon DEF IndInv, TypeInv
<1>9. RegistryInv'
  BY <1>2, <1>6, <1>7, <1>8, <1>a DEF IndInv, RegistryInv, Registered, RegisteredPC
<1>10. app'.limit = 1 => \A d \in Conn : ~ Orphan(d)'
  <2> SUFFICES ASSUME app.limit = 1, NEW d \in Conn, Orphan(d)' PROVE FALSE
    BY <1>2
  <2>1. d # o
    BY <1>6 DEF Orphan
  <2>2. \A e \in Conn : conn[e].old # d
    BY <2>1, <1>6 DEF Orphan
  <2>3. Orphan(d)
    BY <2>1, <2>2, <1>2, <1>6, <1>7 DEF Orphan, Registered, RegisteredPC
  <2> QED BY <2>3 DEF IndInv
<1>11. RoutingKept
  BY <1>2, <1>6, <1>7 DEF RoutingKept
<1> QED BY <1>5, <1>9, <1>10, <1>11, RoutingFrame DEF IndInv

\* A session that dies stays where it was.
LEMMA SessionDiesGood ==
  ASSUME IndInv, NEW c \in Conn, SessionDies(c)
  PROVE  IndInv'
<1>1. /\ conn' = CloseMux(conn, c) /\ conn \in [Conn -> ConnRecord]
      /\ UNCHANGED <<agents, client, mapping, admin, stop, app>>
  BY ConnTypes DEF SessionDies
<1>2. /\ conn' \in [Conn -> ConnRecord]
      /\ \A d \in Conn :
           /\ conn'[d].pc = conn[d].pc /\ conn'[d].customer = conn[d].customer
           /\ conn'[d].old = conn[d].old /\ conn'[d].streams \subseteq conn[d].streams
           /\ conn'[d].mux = "open" => conn[d].mux = "open"
  <2> HIDE DEF CloseMux
  <2> QED BY <1>1, CloseMuxFacts, ZenonT(60)
<1>3. TypeInv'
  BY <1>1, <1>2, Zenon DEF IndInv, TypeInv
<1>4. RegistryKept
  BY <1>1, <1>2 DEF RegistryKept
<1> QED BY <1>1, <1>2, <1>3, <1>4, QuietGood

-----------------------------------------------------------------------------
\* Unregister and Close, by an admin request and by Relay.Stop

\* Unregister: the goroutine that removes x's connection held none, and holds
\* that one from here on.
LEMMA UnregisterGood ==
  ASSUME IndInv, TypeInv', NEW x \in Customer, Unregister(x), UNCHANGED <<conn, client, app>>,
         admin.held # 0 => admin'.held = admin.held,
         stop.held # 0 => stop'.held = stop.held,
         agents[x] # 0 => agents[x] \in {admin'.held, stop'.held},
         admin'.pc # "close" => admin'.held = 0,
         stop'.pc # "close" => stop'.held = 0
  PROVE  IndInv'
<1>1. agents'[x] = 0 /\ \A y \in Customer : y # x => agents'[y] = agents[y]
  BY Zenon DEF Unregister, IndInv, TypeInv
<1>2. RegistryInv'
  BY <1>1 DEF IndInv, RegistryInv, Registered
<1>3. app'.limit = 1 => \A d \in Conn : ~ Orphan(d)'
  <2> SUFFICES ASSUME app.limit = 1, NEW d \in Conn, Orphan(d)' PROVE FALSE
    OBVIOUS
  <2>1. Registered(d) /\ conn[d].customer \in Customer /\ d # 0
    BY ConnFacts DEF Orphan, Registered, IndInv, RegistryInv
  <2>2. agents[conn[d].customer] # d
    BY <2>1, <1>1 DEF Orphan
  <2>3. Orphan(d)
    BY <2>1, <2>2 DEF Orphan
  <2> QED BY <2>3 DEF IndInv
<1>4. RoutingKept
  BY DEF RoutingKept, Registered, RegisteredPC
<1> QED BY <1>2, <1>3, <1>4, RoutingFrame DEF IndInv

\* Close of a held connection h: its holder lets it go when it is closed.
LEMMA ReleaseGood ==
  ASSUME IndInv, TypeInv', NEW h \in {0} \cup Conn, conn' = CloseMux(conn, h),
         UNCHANGED <<agents, client, app>>,
         \A d \in Conn : d \in {admin.held, stop.held} => d = h \/ d \in {admin'.held, stop'.held},
         admin'.pc # "close" => admin'.held = 0,
         stop'.pc # "close" => stop'.held = 0
  PROVE  IndInv'
<1>1. conn \in [Conn -> ConnRecord] /\ agents \in [Customer -> {0} \cup Conn]
  BY Zenon DEF IndInv, TypeInv
<1>2. \A d \in Conn :
        /\ conn'[d].pc = conn[d].pc /\ conn'[d].customer = conn[d].customer
        /\ conn'[d].old = conn[d].old /\ conn'[d].streams \subseteq conn[d].streams
        /\ conn'[d].mux = IF d = h THEN "closed" ELSE conn[d].mux
  BY <1>1, CloseMuxFacts
<1>3. RegistryInv'
  BY <1>1, <1>2 DEF IndInv, RegistryInv, Registered
<1>4. app'.limit = 1 => \A d \in Conn : ~ Orphan(d)'
  <2> SUFFICES ASSUME app.limit = 1, NEW d \in Conn, Orphan(d)' PROVE FALSE
    OBVIOUS
  <2>1. d # h /\ conn[d].mux = "open" /\ Registered(d)
    BY <1>2 DEF Orphan, Registered
  <2>2. d \notin {admin'.held, stop'.held} /\ \A e \in Conn : conn[e].old # d
    BY <1>2 DEF Orphan
  <2>3. Orphan(d)
    BY <2>1, <2>2, <1>2 DEF Orphan
  <2> QED BY <2>3 DEF IndInv
<1>5. RoutingKept
  BY <1>2 DEF RoutingKept, Registered, RegisteredPC
<1> QED BY <1>3, <1>4, <1>5, RoutingFrame DEF IndInv

\* The types of the holders.
LEMMA HolderTypes ==
  ASSUME IndInv
  PROVE  /\ admin.held \in {0} \cup Conn /\ stop.held \in {0} \cup Conn
         /\ agents \in [Customer -> {0} \cup Conn] /\ conn \in [Conn -> ConnRecord]
         /\ stop \in [pc : StopPC, agents : SUBSET Customer, todo : SUBSET Customer,
                      held : {0} \cup Conn]
         /\ stop.todo \subseteq stop.agents
         /\ admin.pc # "close" => admin.held = 0
         /\ stop.pc # "close" => stop.held = 0
  BY Zenon DEF IndInv, TypeInv, RegistryInv

\* DELETE /agents takes the connection out of the registry...
LEMMA DeleteAgentGood ==
  ASSUME IndInv, NEW x \in Customer, DeleteAgent(x)
  PROVE  IndInv'
<1>1. /\ Unregister(x) /\ UNCHANGED <<conn, client, mapping, stop, app>>
      /\ admin.held = 0
      /\ admin' = [pc |-> IF agents[x] = 0 THEN "done" ELSE "close", held |-> agents[x]]
  BY HolderTypes DEF DeleteAgent
<1>2. TypeInv'
  BY <1>1, Zenon DEF IndInv, TypeInv, Unregister
<1>3. agents[x] # 0 => agents[x] \in {admin'.held, stop'.held}
  BY <1>1
<1>4. /\ admin'.pc # "close" => admin'.held = 0
      /\ stop'.pc # "close" => stop'.held = 0
      /\ stop.held # 0 => stop'.held = stop.held
  BY <1>1, HolderTypes
<1> QED BY <1>1, <1>2, <1>3, <1>4, UnregisterGood

\* ... and closes it.
LEMMA DeleteAgentCloseGood ==
  ASSUME IndInv, DeleteAgentClose
  PROVE  IndInv'
<1>1. /\ conn' = CloseMux(conn, admin.held)
      /\ admin' = [pc |-> "done", held |-> 0]
      /\ UNCHANGED <<agents, client, mapping, stop, app>>
  BY DEF DeleteAgentClose
<1>2. conn' \in [Conn -> ConnRecord]
  BY <1>1, HolderTypes, CloseMuxFacts
<1>3. TypeInv'
  BY <1>1, <1>2, Zenon DEF IndInv, TypeInv
<1>4. /\ \A d \in Conn : d \in {admin.held, stop.held} =>
           d = admin.held \/ d \in {admin'.held, stop'.held}
      /\ admin'.pc # "close" => admin'.held = 0
      /\ stop'.pc # "close" => stop'.held = 0
  BY <1>1, HolderTypes
<1> QED BY <1>1, <1>3, <1>4, HolderTypes, ReleaseGood, Zenon

\* Stop takes a connection out of the registry...
LEMMA StopUnregisterGood ==
  ASSUME IndInv, NEW x \in Customer, StopUnregister(x)
  PROVE  IndInv'
<1> DEFINE s == [stop EXCEPT !.pc = IF agents[x] = 0 THEN "unregister" ELSE "close",
                             !.todo = @ \ {x}, !.held = agents[x]]
<1>1. /\ Unregister(x) /\ UNCHANGED <<conn, client, mapping, admin, app>>
      /\ stop.held = 0 /\ stop' = s
  BY HolderTypes DEF StopUnregister
<1>2. /\ s.pc = (IF agents[x] = 0 THEN "unregister" ELSE "close")
      /\ s.held = agents[x] /\ s.todo \subseteq s.agents
      /\ s \in [pc : StopPC, agents : SUBSET Customer, todo : SUBSET Customer,
                held : {0} \cup Conn]
  BY HolderTypes, Zenon DEF StopPC
<1> HIDE DEF s
<1>3. TypeInv'
  BY <1>1, <1>2, Zenon DEF IndInv, TypeInv, Unregister
<1>4. /\ agents[x] # 0 => agents[x] \in {admin'.held, stop'.held}
      /\ admin'.pc # "close" => admin'.held = 0
      /\ stop'.pc # "close" => stop'.held = 0
      /\ admin.held # 0 => admin'.held = admin.held
  BY <1>1, <1>2, HolderTypes
<1> QED BY <1>1, <1>3, <1>4, UnregisterGood

\* ... and closes it.
LEMMA StopCloseGood ==
  ASSUME IndInv, StopClose
  PROVE  IndInv'
<1> DEFINE s == [stop EXCEPT !.pc = "unregister", !.held = 0]
<1>1. /\ conn' = CloseMux(conn, stop.held) /\ stop' = s
      /\ UNCHANGED <<agents, client, mapping, admin, app>>
  BY DEF StopClose
<1>2. /\ s.pc = "unregister" /\ s.held = 0 /\ s.todo \subseteq s.agents
      /\ s \in [pc : StopPC, agents : SUBSET Customer, todo : SUBSET Customer,
                held : {0} \cup Conn]
  BY HolderTypes, Zenon DEF StopPC
<1> HIDE DEF s
<1>3. conn' \in [Conn -> ConnRecord]
  BY <1>1, HolderTypes, CloseMuxFacts, Zenon
<1>4. TypeInv'
  BY <1>1, <1>2, <1>3, Zenon DEF IndInv, TypeInv
<1>5. /\ \A d \in Conn : d \in {admin.held, stop.held} =>
           d = stop.held \/ d \in {admin'.held, stop'.held}
      /\ admin'.pc # "close" => admin'.held = 0
      /\ stop'.pc # "close" => stop'.held = 0
  BY <1>1, <1>2, HolderTypes
<1> QED BY <1>1, <1>4, <1>5, HolderTypes, ReleaseGood, Zenon

-----------------------------------------------------------------------------
\* The other steps of Relay.Stop, and of the port table

\* Stop goes on without removing or closing a connection.
LEMMA StopQuietGood ==
  ASSUME IndInv, UNCHANGED <<agents, client, mapping, admin, app>>,
         stop' \in [pc : StopPC, agents : SUBSET Customer, todo : SUBSET Customer,
                    held : {0} \cup Conn],
         stop'.held = stop.held, stop'.pc # "close", stop.pc # "close",
         stop'.todo \subseteq stop'.agents,
         conn' \in [Conn -> ConnRecord],
         \A d \in Conn :
           /\ conn'[d].pc = conn[d].pc /\ conn'[d].customer = conn[d].customer
           /\ conn'[d].old = conn[d].old /\ conn'[d].streams = conn[d].streams
           /\ conn'[d].mux = conn[d].mux
  PROVE  IndInv'
<1>1. TypeInv'
  BY Zenon DEF IndInv, TypeInv
<1>2. RegistryKept
  BY DEF RegistryKept
<1> QED BY <1>1, <1>2, QuietGood

\* Shutdown, and the steps of Stop between its loops.
LEMMA StopStartGood ==
  ASSUME IndInv, Shutdown \/ StopList \/ StopListeners \/ StopDone
  PROVE  IndInv'
<1> DEFINE listed == {x \in Customer : agents[x] # 0}
           s == CASE stop.pc = "idle" -> [stop EXCEPT !.pc = "list"]
                  [] stop.pc = "list" -> [stop EXCEPT !.pc = "goaway", !.agents = listed,
                                                      !.todo = listed]
                  [] stop.pc = "goaway" -> [stop EXCEPT !.pc = "unregister",
                                                        !.todo = stop.agents]
                  [] OTHER -> [stop EXCEPT !.pc = "done"]
<1>1. /\ stop' = s /\ stop.pc \in {"idle", "list", "goaway", "unregister"}
      /\ UNCHANGED <<agents, conn, client, mapping, admin, app>>
  BY DEF Shutdown, StopList, StopListeners, StopDone
<1>2. /\ s \in [pc : StopPC, agents : SUBSET Customer, todo : SUBSET Customer,
                held : {0} \cup Conn]
      /\ s.held = stop.held /\ s.pc # "close" /\ s.todo \subseteq s.agents
  <2> DEFINE L == listed
  <2>1. L \subseteq Customer
    OBVIOUS
  <2> HIDE DEF L
  <2> QED BY <1>1, <2>1, HolderTypes, Zenon DEF StopPC, L
<1> HIDE DEF s
<1> QED BY <1>1, <1>2, HolderTypes, StopQuietGood

\* Stop's GOAWAY sets one goingAway flag.
LEMMA StopGoAwayGood ==
  ASSUME IndInv, NEW x \in Customer, StopGoAway(x)
  PROVE  IndInv'
<1> DEFINE s == [stop EXCEPT !.todo = @ \ {x}]
           c == agents[x]
           t == [conn[c] EXCEPT !.goingAway = TRUE]
<1>1. /\ stop' = s /\ stop.pc = "goaway" /\ UNCHANGED <<agents, client, mapping, admin, app>>
      /\ conn' = IF c = 0 THEN conn ELSE [conn EXCEPT ![c] = t]
  BY DEF StopGoAway
<1>2. /\ s \in [pc : StopPC, agents : SUBSET Customer, todo : SUBSET Customer,
                held : {0} \cup Conn]
      /\ s.held = stop.held /\ s.pc = stop.pc /\ s.todo \subseteq s.agents
  BY HolderTypes
<1>3. c \in {0} \cup Conn
  BY HolderTypes
<1> HIDE DEF s, c
<1>4. /\ conn' \in [Conn -> ConnRecord]
      /\ \A d \in Conn :
           /\ conn'[d].pc = conn[d].pc /\ conn'[d].customer = conn[d].customer
           /\ conn'[d].old = conn[d].old /\ conn'[d].streams = conn[d].streams
           /\ conn'[d].mux = conn[d].mux
  <2>1. CASE c = 0
    BY <2>1, <1>1, HolderTypes
  <2>2. CASE c \in Conn
    <3>1. conn[c] \in ConnRecord
      BY <2>2, HolderTypes
    <3>2. /\ t \in ConnRecord /\ t.customer = conn[c].customer /\ t.streams = conn[c].streams
          /\ t.mux = conn[c].mux /\ t.pc = conn[c].pc /\ t.old = conn[c].old
      BY <3>1, Zenon DEF ConnRecord
    <3>3. conn' = [conn EXCEPT ![c] = t]
      BY <2>2, <1>1, ConnFacts
    <3> HIDE DEF t
    <3> QED BY <2>2, <3>2, <3>3, HolderTypes
  <2> QED BY <1>3, <2>1, <2>2
<1> QED BY <1>1, <1>2, <1>4, StopQuietGood

\* A change of the port table is seen by later lookups only.
LEMMA RemapGood ==
  ASSUME IndInv, NEW x \in Customer, NEW y \in Customer \cup {""}, Remap(x, y)
  PROVE  IndInv'
<1>1. TypeInv'
  BY Zenon DEF Remap, IndInv, TypeInv
<1>2. RegistryKept /\ client' = client /\ conn' = conn
  BY Zenon DEF Remap, RegistryKept
<1> QED BY <1>1, <1>2, QuietGood, Zenon

-----------------------------------------------------------------------------
\* handleClient, Route and copyBidirectional

\* What the invariant says of one client connection.
LEMMA ClientFacts ==
  ASSUME IndInv, NEW k \in Client
  PROVE  /\ client[k] \in ClientRecord
         /\ client[k].conn \in {0} \cup Conn
         /\ client[k].pc \in {"allow", "route", "find"} => client[k].customer \in Customer
         /\ client[k].conn # 0 =>
              /\ client[k].pc \notin {"new", "allow", "route", "find"}
              /\ Registered(client[k].conn)
              /\ conn[client[k].conn].customer = client[k].customer
         /\ \A c \in Conn : k \in conn[c].streams => client[k].conn = c
         /\ conn \in [Conn -> ConnRecord]
         /\ agents \in [Customer -> {0} \cup Conn]
         /\ mapping \in [Customer -> Customer \cup {""}]
  BY Zenon DEF IndInv, TypeInv, RoutingInv, ClientRecord

\* A step of a client connection whose agent has been looked up, or is not yet:
\* its customer and connection stay.
LEMMA ClientQuietGood ==
  ASSUME IndInv, NEW k \in Client, NEW t \in ClientRecord,
         client' = [client EXCEPT ![k] = t],
         UNCHANGED <<agents, mapping, admin, stop, app>>,
         conn' \in [Conn -> ConnRecord],
         \A d \in Conn :
           /\ conn'[d].pc = conn[d].pc /\ conn'[d].customer = conn[d].customer
           /\ conn'[d].old = conn[d].old /\ conn'[d].mux = conn[d].mux
           /\ conn'[d].streams \subseteq
                conn[d].streams \cup (IF d = client[k].conn THEN {k} ELSE {}),
         t.customer = client[k].customer, t.conn = client[k].conn,
         \/ t.pc \notin {"new", "allow", "route", "find"}
         \/ t.pc \in {"route", "find"} /\ client[k].pc \in {"allow", "route"}
  PROVE  IndInv'
<1>1. t.pc \in {"allow", "route", "find"} => t.customer \in Customer
  BY ClientFacts, Zenon
<1>2. t.conn # 0 =>
        /\ t.pc \notin {"new", "allow", "route", "find"}
        /\ Registered(t.conn)
        /\ conn[t.conn].customer = t.customer
  <2> SUFFICES ASSUME client[k].conn # 0
               PROVE  /\ t.pc \notin {"new", "allow", "route", "find"}
                      /\ Registered(client[k].conn)
                      /\ conn[client[k].conn].customer = client[k].customer
    BY DEF Registered
  <2> QED BY ClientFacts, Zenon
<1>3. \A c \in Conn : k \in conn[c].streams => t.conn = c
  BY ClientFacts, Zenon
<1>4. \A d \in Conn :
        /\ conn'[d].pc = conn[d].pc /\ conn'[d].customer = conn[d].customer
        /\ conn'[d].old = conn[d].old /\ conn'[d].mux = conn[d].mux
        /\ conn'[d].streams \subseteq conn[d].streams \cup (IF d = t.conn THEN {k} ELSE {})
  OBVIOUS
<1> QED BY <1>1, <1>2, <1>3, <1>4, ClientGood, ZenonT(60)

\* The stream map of session c becomes S.
SetStreams(c, S) == conn' = [conn EXCEPT ![c].streams = S]

\* The stream of client k enters or leaves the map of session c.
LEMMA StreamsFacts ==
  ASSUME IndInv, NEW k \in Client, NEW c \in {0} \cup Conn, NEW S,
         S \subseteq conn[c].streams \cup {k},
         SetStreams(c, S)
  PROVE  /\ conn' \in [Conn -> ConnRecord]
         /\ \A d \in Conn :
              /\ conn'[d].pc = conn[d].pc /\ conn'[d].customer = conn[d].customer
              /\ conn'[d].old = conn[d].old /\ conn'[d].mux = conn[d].mux
              /\ conn'[d].streams \subseteq conn[d].streams \cup (IF d = c THEN {k} ELSE {})
              /\ k \notin S => conn'[d].streams \subseteq conn[d].streams
<1>a. conn \in [Conn -> ConnRecord]
  BY Zenon DEF IndInv, TypeInv
<1> DEFINE t == [conn[c] EXCEPT !.streams = S]
<1>1. conn' = [conn EXCEPT ![c] = t]
  BY DEF SetStreams
<1>2. CASE c = 0
  <2>1. c \notin Conn
    BY <1>2, ConnFacts
  <2> HIDE DEF t
  <2>2. conn' = conn
    BY <2>1, <1>1, <1>a
  <2> QED BY <2>2, <1>a
<1>3. CASE c \in Conn
  <2>1. conn[c] \in ConnRecord
    BY <1>3, <1>a
  <2>2. S \subseteq Client
    BY <2>1, Zenon DEF ConnRecord
  <2>3. /\ t \in ConnRecord /\ t.customer = conn[c].customer /\ t.streams = S
        /\ t.mux = conn[c].mux /\ t.pc = conn[c].pc /\ t.old = conn[c].old
    BY <2>1, <2>2, Zenon DEF ConnRecord
  <2> HIDE DEF t
  <2>4. conn'[c] = t /\ (\A d \in Conn : d # c => conn'[d] = conn[d])
        /\ conn' \in [Conn -> ConnRecord]
    BY <1>1, <1>3, <1>a, <2>3
  <2> QED BY <2>3, <2>4
<1> QED BY <1>2, <1>3

\* AcceptClient: the mapping's customer, when there is one, is a customer.
LEMMA AcceptClientGood ==
  ASSUME IndInv, NEW k \in Client, NEW x \in Customer, AcceptClient(k, x)
  PROVE  IndInv'
<1> DEFINE t == [client[k] EXCEPT !.port = x, !.customer = mapping[x],
                    !.pc = IF mapping[x] = "" THEN "returned" ELSE "allow",
                    !.sock = IF mapping[x] = "" THEN "closed" ELSE "open"]
<1>a. mapping[x] \in Customer \cup {""}
  BY ClientFacts, Zenon
<1>1. /\ client' = [client EXCEPT ![k] = t] /\ client[k].pc = "new"
      /\ UNCHANGED <<agents, conn, mapping, admin, stop, app>>
  BY Zenon DEF AcceptClient
<1>2. /\ t \in ClientRecord /\ t.customer = mapping[x] /\ t.conn = client[k].conn
      /\ t.pc = IF mapping[x] = "" THEN "returned" ELSE "allow"
  <2>1. client[k] \in ClientRecord
    BY ClientFacts, Zenon
  <2> QED BY <2>1, <1>a, Zenon DEF ClientRecord, ClientPC
<1> HIDE DEF t
<1>3. t.conn = 0
  BY <1>1, <1>2, ClientFacts, Zenon
<1>4. /\ t.pc \in {"allow", "route", "find"} => t.customer \in Customer
      /\ \A c \in Conn : k \in conn[c].streams => t.conn = c
  BY <1>a, <1>2, ClientFacts, Zenon
<1>5. /\ conn' \in [Conn -> ConnRecord]
      /\ \A d \in Conn :
           /\ conn'[d].pc = conn[d].pc /\ conn'[d].customer = conn[d].customer
           /\ conn'[d].old = conn[d].old /\ conn'[d].mux = conn[d].mux
           /\ conn'[d].streams \subseteq conn[d].streams \cup (IF d = t.conn THEN {k} ELSE {})
  BY <1>1, ClientFacts, Zenon
<1> QED BY <1>1, <1>2, <1>3, <1>4, <1>5, ClientGood, Zenon

\* Lookup: the connection found under the customer is one of the customer's.
LEMMA RouteLookupGood ==
  ASSUME IndInv, NEW k \in Client, RouteLookup(k)
  PROVE  IndInv'
<1> DEFINE c == agents[client[k].customer]
           t == [client[k] EXCEPT !.conn = c, !.pc = IF c = 0 THEN "failed" ELSE "count"]
<1>a. client[k].pc = "find" /\ client[k].customer \in Customer /\ client[k].conn = 0
  BY ClientFacts, Zenon DEF RouteLookup
<1>b. /\ c \in {0} \cup Conn
      /\ c # 0 => Registered(c) /\ conn[c].customer = client[k].customer
  BY <1>a, ClientFacts, Zenon DEF IndInv, RegistryInv
<1>1. /\ client' = [client EXCEPT ![k] = t]
      /\ UNCHANGED <<agents, conn, mapping, admin, stop, app>>
  BY Zenon DEF RouteLookup
<1> HIDE DEF c
<1>2. /\ t \in ClientRecord /\ t.customer = client[k].customer /\ t.conn = c
      /\ t.pc = IF c = 0 THEN "failed" ELSE "count"
  BY ClientFacts, <1>b, ZenonT(60) DEF ClientRecord, ClientPC
<1> HIDE DEF t
<1>3. /\ t.pc \in {"allow", "route", "find"} => t.customer \in Customer
      /\ \A d \in Conn : k \in conn[d].streams => t.conn = d
  BY <1>2, <1>a, ClientFacts, ConnFacts, Zenon
<1>4. t.conn # 0 =>
        /\ t.pc \notin {"new", "allow", "route", "find"}
        /\ Registered(t.conn)
        /\ conn[t.conn].customer = t.customer
  BY <1>2, <1>b
<1>5. /\ conn' \in [Conn -> ConnRecord]
      /\ \A d \in Conn :
           /\ conn'[d].pc = conn[d].pc /\ conn'[d].customer = conn[d].customer
           /\ conn'[d].old = conn[d].old /\ conn'[d].mux = conn[d].mux
           /\ conn'[d].streams \subseteq conn[d].streams \cup (IF d = t.conn THEN {k} ELSE {})
  BY <1>1, ClientFacts, Zenon
<1> QED BY <1>1, <1>2, <1>3, <1>4, <1>5, ClientGood, Zenon

\* The steps that only the client's record knows of.
LEMMA ClientOnlyGood ==
  ASSUME IndInv, NEW k \in Client, NEW t \in ClientRecord,
         client' = [client EXCEPT ![k] = t],
         UNCHANGED <<agents, conn, mapping, admin, stop, app>>,
         t.customer = client[k].customer, t.conn = client[k].conn,
         \/ t.pc \notin {"new", "allow", "route", "find"}
         \/ t.pc \in {"route", "find"} /\ client[k].pc \in {"allow", "route"}
  PROVE  IndInv'
<1>1. /\ conn' \in [Conn -> ConnRecord]
      /\ \A d \in Conn :
           /\ conn'[d].pc = conn[d].pc /\ conn'[d].customer = conn[d].customer
           /\ conn'[d].old = conn[d].old /\ conn'[d].mux = conn[d].mux
           /\ conn'[d].streams \subseteq
                conn[d].streams \cup (IF d = client[k].conn THEN {k} ELSE {})
  BY ClientFacts, Zenon
<1> QED BY <1>1, ClientQuietGood, Zenon

\* handleClient and Route, apart from the lookup and the stream.
LEMMA HandleClientGood ==
  ASSUME IndInv, NEW k \in Client,
         RateLimited(k) \/ Allowed(k) \/ RouteEntry(k) \/ RouteLimit(k) \/ RouteReturns(k)
  PROVE  IndInv'
<1>a. client[k] \in ClientRecord
  BY ClientFacts, Zenon
<1>1. CASE RateLimited(k)
  <2> DEFINE t == [client[k] EXCEPT !.pc = "returned", !.sock = "closed"]
  <2>1. /\ t \in ClientRecord /\ t.customer = client[k].customer /\ t.conn = client[k].conn
        /\ t.pc = "returned"
    BY <1>a, Zenon DEF ClientRecord, ClientPC
  <2>2. client' = [client EXCEPT ![k] = t] /\ UNCHANGED <<agents, conn, mapping, admin, stop, app>>
    BY <1>1, Zenon DEF RateLimited
  <2> HIDE DEF t
  <2> QED BY <2>1, <2>2, ClientOnlyGood, Zenon
<1>2. CASE Allowed(k)
  <2> DEFINE t == [client[k] EXCEPT !.pc = "route"]
  <2>1. /\ t \in ClientRecord /\ t.customer = client[k].customer /\ t.conn = client[k].conn
        /\ t.pc = "route"
    BY <1>a, Zenon DEF ClientRecord, ClientPC
  <2>2. client' = [client EXCEPT ![k] = t] /\ UNCHANGED <<agents, conn, mapping, admin, stop, app>>
    BY <1>2 DEF Allowed
  <2>3. client[k].pc = "allow"
    BY <1>2 DEF Allowed
  <2> HIDE DEF t
  <2> QED BY <2>1, <2>2, <2>3, ClientOnlyGood, Zenon
<1>3. CASE RouteEntry(k)
  <2> DEFINE n == IF mapping[client[k].port] = "" THEN 0 ELSE app.maxStreams
             t == [client[k] EXCEPT !.pc = "find", !.limit = n]
  <2>1. n \in Nat
    BY AppFacts, Zenon DEF IndInv, TypeInv
  <2>2. client' = [client EXCEPT ![k] = t] /\ UNCHANGED <<agents, conn, mapping, admin, stop, app>>
    BY <1>3, Zenon DEF RouteEntry
  <2> HIDE DEF n
  <2>3. /\ t \in ClientRecord /\ t.customer = client[k].customer /\ t.conn = client[k].conn
        /\ t.pc = "find"
    BY <1>a, <2>1, Zenon DEF ClientRecord, ClientPC
  <2>4. client[k].pc = "route"
    BY <1>3, Zenon DEF RouteEntry
  <2> HIDE DEF t
  <2> QED BY <2>2, <2>3, <2>4, ClientOnlyGood, Zenon
<1>4. CASE RouteLimit(k)
  <2> DEFINE n == Cardinality(conn[client[k].conn].streams)
             p == IF client[k].limit > 0 /\ n >= client[k].limit THEN "failed" ELSE "open"
             t == [client[k] EXCEPT !.pc = p]
  <2>1. client' = [client EXCEPT ![k] = t] /\ UNCHANGED <<agents, conn, mapping, admin, stop, app>>
    BY <1>4 DEF RouteLimit
  <2>2. p \in {"failed", "open"}
    OBVIOUS
  <2> HIDE DEF p
  <2>3. /\ t \in ClientRecord /\ t.customer = client[k].customer /\ t.conn = client[k].conn
        /\ t.pc = p
    BY <1>a, <2>2, Zenon DEF ClientRecord, ClientPC
  <2> HIDE DEF t
  <2> QED BY <2>1, <2>2, <2>3, ClientOnlyGood, Zenon
<1>5. CASE RouteReturns(k)
  <2> DEFINE t == [client[k] EXCEPT !.pc = "returned"]
  <2>1. /\ t \in ClientRecord /\ t.customer = client[k].customer /\ t.conn = client[k].conn
        /\ t.pc = "returned"
    BY <1>a, Zenon DEF ClientRecord, ClientPC
  <2>2. client' = [client EXCEPT ![k] = t] /\ UNCHANGED <<agents, conn, mapping, admin, stop, app>>
    BY <1>5 DEF RouteReturns
  <2> HIDE DEF t
  <2> QED BY <2>1, <2>2, ClientOnlyGood, Zenon
<1> QED BY <1>1, <1>2, <1>3, <1>4, <1>5

\* OpenStreamWithPayload: the stream enters or leaves the map of the connection
\* that Route looked up.
LEMMA OpenStreamGood ==
  ASSUME IndInv, NEW k \in Client, OpenStream(k) \/ Opened(k) \/ OpenFails(k)
  PROVE  IndInv'
<1> DEFINE c == client[k].conn
           t(p) == [client[k] EXCEPT !.pc = p]
<1>a. client[k] \in ClientRecord /\ c \in {0} \cup Conn
  BY ClientFacts, Zenon
<1>b. ASSUME NEW p \in {"opening", "failed"}
      PROVE  /\ t(p) \in ClientRecord /\ t(p).customer = client[k].customer
             /\ t(p).conn = c /\ t(p).pc = p
  BY <1>a, Zenon DEF ClientRecord, ClientPC
<1>1. CASE OpenStream(k) /\ client' = [client EXCEPT ![k] = t("opening")]
                         /\ conn' = [conn EXCEPT ![c].streams = @ \cup {k}]
  <2>1. UNCHANGED <<agents, mapping, admin, stop, app>>
    BY <1>1 DEF OpenStream
  <2>2. conn' = [conn EXCEPT ![c].streams = conn[c].streams \cup {k}]
    BY <1>1
  <2>3. t("opening").pc \notin {"new", "allow", "route", "find"}
    BY <1>b
  <2>4. /\ conn' \in [Conn -> ConnRecord]
        /\ \A d \in Conn :
             /\ conn'[d].pc = conn[d].pc /\ conn'[d].customer = conn[d].customer
             /\ conn'[d].old = conn[d].old /\ conn'[d].mux = conn[d].mux
             /\ conn'[d].streams \subseteq conn[d].streams \cup (IF d = c THEN {k} ELSE {})
    <3> DEFINE S == conn[c].streams \cup {k}
    <3>1. SetStreams(c, S) /\ S \subseteq conn[c].streams \cup {k}
      BY <2>2 DEF SetStreams
    <3> HIDE DEF t, c, S
    <3> QED BY <1>a, <3>1, StreamsFacts
  <2> HIDE DEF t
  <2> QED BY <1>1, <1>b, <2>1, <2>3, <2>4, ClientQuietGood, Zenon
<1>2. CASE OpenStream(k) /\ client' = [client EXCEPT ![k] = t("failed")] /\ conn' = conn
  <2>1. UNCHANGED <<agents, conn, mapping, admin, stop, app>>
    BY <1>2 DEF OpenStream
  <2>3. t("failed").pc \notin {"new", "allow", "route", "find"}
    BY <1>b
  <2> HIDE DEF t
  <2> QED BY <1>2, <1>b, <2>1, <2>3, ClientOnlyGood, Zenon
<1>3. CASE Opened(k)
  <2> DEFINE u == [client[k] EXCEPT !.pc = "copy", !.toClient = "run", !.toStream = "run"]
  <2>1. /\ u \in ClientRecord /\ u.customer = client[k].customer /\ u.conn = client[k].conn
        /\ u.pc = "copy"
    BY <1>a, Zenon DEF ClientRecord, ClientPC, CopyState
  <2>2. client' = [client EXCEPT ![k] = u] /\ UNCHANGED <<agents, conn, mapping, admin, stop, app>>
    BY <1>3, Zenon DEF Opened
  <2> HIDE DEF u
  <2> QED BY <2>1, <2>2, ClientOnlyGood, Zenon
<1>4. CASE OpenFails(k)
  <2>1. /\ UNCHANGED <<agents, mapping, admin, stop, app>>
        /\ client' = [client EXCEPT ![k] = t("failed")]
        /\ SetStreams(c, conn[c].streams \ {k})
    BY <1>4 DEF OpenFails, SetStreams
  <2>3. t("failed").pc \notin {"new", "allow", "route", "find"}
    BY <1>b
  <2>4. /\ conn' \in [Conn -> ConnRecord]
        /\ \A d \in Conn :
             /\ conn'[d].pc = conn[d].pc /\ conn'[d].customer = conn[d].customer
             /\ conn'[d].old = conn[d].old /\ conn'[d].mux = conn[d].mux
             /\ conn'[d].streams \subseteq conn[d].streams \cup (IF d = c THEN {k} ELSE {})
    <3> HIDE DEF t, c
    <3> QED BY <1>a, <2>1, StreamsFacts
  <2> HIDE DEF t
  <2> QED BY <1>b, <2>1, <2>3, <2>4, ClientQuietGood, Zenon
<1>5. OpenStream(k) =>
        \/ /\ client' = [client EXCEPT ![k] = t("opening")]
           /\ conn' = [conn EXCEPT ![c].streams = @ \cup {k}]
        \/ client' = [client EXCEPT ![k] = t("failed")] /\ conn' = conn
  BY DEF OpenStream
<1> QED BY <1>1, <1>2, <1>3, <1>4, <1>5

\* copyBidirectional: a stream leaves the map, or nothing but the client's own
\* record changes.
LEMMA CopyGood ==
  ASSUME IndInv, NEW k \in Client,
         \/ AgentCloses(k) \/ AgentResets(k) \/ ClientEnds(k) \/ CancelCopy(k)
         \/ \E dir \in {"toClient", "toStream"} : CopyEnds(k, dir)
  PROVE  IndInv'
<1> DEFINE c == client[k].conn
<1>a. client[k] \in ClientRecord /\ c \in {0} \cup Conn
  BY ClientFacts, Zenon
<1>1. CASE AgentCloses(k)
  <2> DEFINE t == [client[k] EXCEPT !.fin = TRUE]
  <2>1. /\ t \in ClientRecord /\ t.customer = client[k].customer /\ t.conn = client[k].conn
        /\ t.pc = client[k].pc
    BY <1>a, Zenon DEF ClientRecord
  <2>2. /\ client' = [client EXCEPT ![k] = t] /\ client[k].pc = "copy"
        /\ UNCHANGED <<agents, conn, mapping, admin, stop, app>>
    BY <1>1 DEF AgentCloses
  <2> HIDE DEF t
  <2> QED BY <2>1, <2>2, ClientOnlyGood, Zenon
<1>2. CASE AgentResets(k)
  <2>1. /\ SetStreams(c, conn[c].streams \ {k})
        /\ UNCHANGED <<agents, client, mapping, admin, stop, app>>
    BY <1>2 DEF AgentResets, SetStreams
  <2> HIDE DEF c
  <2>2. /\ conn' \in [Conn -> ConnRecord]
        /\ \A d \in Conn :
             /\ conn'[d].pc = conn[d].pc /\ conn'[d].customer = conn[d].customer
             /\ conn'[d].old = conn[d].old /\ conn'[d].mux = conn[d].mux
             /\ conn'[d].streams \subseteq conn[d].streams
    BY <1>a, <2>1, StreamsFacts
  <2>3. TypeInv'
    BY <2>1, <2>2, Zenon DEF IndInv, TypeInv
  <2>4. RegistryKept
    BY <2>1, <2>2 DEF RegistryKept
  <2> QED BY <2>1, <2>2, <2>3, <2>4, QuietGood
<1>3. CASE ClientEnds(k)
  <2> DEFINE t == [client[k] EXCEPT !.toStream = "done", !.canceled = TRUE]
  <2>1. /\ t \in ClientRecord /\ t.customer = client[k].customer /\ t.conn = client[k].conn
        /\ t.pc = client[k].pc
    BY <1>a, Zenon DEF ClientRecord, CopyState
  <2>2. /\ client' = [client EXCEPT ![k] = t] /\ client[k].pc = "copy"
        /\ UNCHANGED <<agents, conn, mapping, admin, stop, app>>
    BY <1>3, Zenon DEF ClientEnds
  <2> HIDE DEF t
  <2> QED BY <2>1, <2>2, ClientOnlyGood, Zenon
<1>4. CASE CancelCopy(k)
  <2> DEFINE t == [client[k] EXCEPT !.sock = "closed"]
  <2>1. /\ t \in ClientRecord /\ t.customer = client[k].customer /\ t.conn = client[k].conn
        /\ t.pc = client[k].pc
    BY <1>a, Zenon DEF ClientRecord
  <2>2. /\ client' = [client EXCEPT ![k] = t]
        /\ SetStreams(c, conn[c].streams \ {k})
        /\ UNCHANGED <<agents, mapping, admin, stop, app>>
    BY <1>4 DEF CancelCopy, SetStreams
  <2>3. /\ conn' \in [Conn -> ConnRecord]
        /\ \A d \in Conn :
             /\ conn'[d].pc = conn[d].pc /\ conn'[d].customer = conn[d].customer
             /\ conn'[d].old = conn[d].old /\ conn'[d].mux = conn[d].mux
             /\ conn'[d].streams \subseteq conn[d].streams \cup (IF d = c THEN {k} ELSE {})
    <3> HIDE DEF t, c
    <3> QED BY <1>a, <2>2, StreamsFacts
  <2>4. t.pc \notin {"new", "allow", "route", "find"}
    BY <1>4, <2>1 DEF CancelCopy
  <2> HIDE DEF t
  <2> QED BY <2>1, <2>2, <2>3, <2>4, ClientQuietGood, Zenon
<1>5. CASE \E dir \in {"toClient", "toStream"} : CopyEnds(k, dir)
  <2> DEFINE t == [client[k] EXCEPT !.toClient = "done", !.canceled = TRUE]
             u == [client[k] EXCEPT !.toStream = "done", !.canceled = TRUE]
  <2>1. /\ t \in ClientRecord /\ t.customer = client[k].customer /\ t.conn = client[k].conn
        /\ t.pc = client[k].pc
    BY <1>a, Zenon DEF ClientRecord, CopyState
  <2>2. /\ u \in ClientRecord /\ u.customer = client[k].customer /\ u.conn = client[k].conn
        /\ u.pc = client[k].pc
    BY <1>a, Zenon DEF ClientRecord, CopyState
  <2>3. /\ client[k].pc = "copy" /\ UNCHANGED <<agents, conn, mapping, admin, stop, app>>
        /\ client' = [client EXCEPT ![k] = t] \/ client' = [client EXCEPT ![k] = u]
    BY <1>5, Zenon DEF CopyEnds
  <2> HIDE DEF t, u
  <2> QED BY <2>1, <2>2, <2>3, ClientOnlyGood
<1> QED BY <1>1, <1>2, <1>3, <1>4, <1>5

-----------------------------------------------------------------------------
\* Every step preserves the invariant.
LEMMA StepGood == IndInv /\ [Next]_vars => IndInv'
<1> SUFFICES ASSUME IndInv, [Next]_vars PROVE IndInv'
  OBVIOUS
<1>1. ASSUME NEW c \in Conn, ConnStep(c) PROVE IndInv'
  BY <1>1, AwaitServicesGood, RegisterGood, ReplaceGoAwayGood, ReplaceCloseGood DEF ConnStep
<1>2. CASE StopStep
  BY <1>2, StopStartGood, StopCloseGood, StopGoAwayGood, StopUnregisterGood DEF StopStep
<1>3. ASSUME NEW k \in Client, RouteStep(k) PROVE IndInv'
  BY <1>3, HandleClientGood, RouteLookupGood, OpenStreamGood DEF RouteStep
<1>4. CASE Environment
  <2>1. ASSUME NEW c \in Conn, NEW x \in Customer, Handshake(c, x) PROVE IndInv'
    BY <2>1, HandshakeGood
  <2>2. ASSUME NEW c \in Conn, RejectAgent(c) \/ SessionDies(c) PROVE IndInv'
    BY <2>2, RejectAgentGood, SessionDiesGood
  <2>3. ASSUME NEW x \in Customer, DeleteAgent(x) PROVE IndInv'
    BY <2>3, DeleteAgentGood
  <2>4. ASSUME NEW x \in Customer, NEW y \in Customer \cup {""}, Remap(x, y) PROVE IndInv'
    BY <2>4, RemapGood, Zenon
  <2>5. CASE Shutdown
    BY <2>5, StopStartGood
  <2>6. ASSUME NEW k \in Client, NEW x \in Customer, AcceptClient(k, x) PROVE IndInv'
    BY <2>6, AcceptClientGood
  <2>7. ASSUME NEW k \in Client, Opened(k) PROVE IndInv'
    BY <2>7, OpenStreamGood
  <2>8. ASSUME NEW k \in Client, AgentCloses(k) \/ AgentResets(k) \/ ClientEnds(k) PROVE IndInv'
    BY <2>8, CopyGood
  <2> QED BY <1>4, <2>1, <2>2, <2>3, <2>4, <2>5, <2>6, <2>7, <2>8, Zenon DEF Environment
<1>5. ASSUME NEW k \in Client,
             CancelCopy(k) \/ \E dir \in {"toClient", "toStream"} : CopyEnds(k, dir)
      PROVE  IndInv'
  BY <1>5, CopyGood
<1>6. CASE UNCHANGED vars
  <2>1. TypeInv'
    BY <1>6, Zenon DEF vars, IndInv, TypeInv
  <2>2. RegistryKept /\ client' = client /\ conn' = conn
    BY <1>6 DEF vars, RegistryKept
  <2> QED BY <2>1, <2>2, QuietGood
<1> QED BY <1>1, <1>2, <1>3, <1>4, <1>5, <1>6, DeleteAgentCloseGood DEF Next

\* The invariant holds in every behaviour.
THEOREM Inductive == Spec => []IndInv
  BY InitGood, StepGood, PTL DEF Spec

\* The variables of the registry, the router, the listeners and Relay.Stop keep
\* their types.
THEOREM TypeCorrect == Spec => []TypeOK
<1>1. IndInv => TypeOK
  <2> SUFFICES ASSUME IndInv PROVE TypeOK
    OBVIOUS
  <2>1. \A c \in Conn :
          /\ conn[c].pc \in ConnPC
          /\ conn[c].customer \in Customer \cup {""}
          /\ conn[c].mux \in {"none", "open", "closed"}
          /\ conn[c].streams \subseteq Client
          /\ conn[c].old \in {0} \cup Conn
    BY Zenon DEF IndInv, TypeInv, ConnRecord
  <2>2. \A k \in Client : client[k].pc \in ClientPC /\ client[k].conn \in {0} \cup Conn
    BY Zenon DEF IndInv, TypeInv, ClientRecord
  <2>3. /\ agents \in [Customer -> {0} \cup Conn] /\ mapping \in [Customer -> Customer \cup {""}]
        /\ admin.held \in {0} \cup Conn /\ stop.held \in {0} \cup Conn
        /\ stop.todo \subseteq stop.agents /\ stop.agents \subseteq Customer
    BY Zenon DEF IndInv, TypeInv
  <2> QED BY <2>1, <2>2, <2>3, Zenon DEF TypeOK
<1> QED BY <1>1, Inductive, PTL

\* With one connection per customer, Register and Unregister never drop a live
\* connection: however connections, replacements, admin requests and shutdown
\* interleave, an open session is in the registry or somebody is about to close
\* it.
THEOREM NeverOrphaned == Spec => []NoOrphan
<1>1. IndInv => NoOrphan
  <2> SUFFICES ASSUME IndInv, app.limit = 1, NEW c \in Conn, Registered(c),
                      conn[c].mux = "open", agents[conn[c].customer] # c
               PROVE  Held(c)
    BY DEF NoOrphan
  <2>1. ~ Orphan(c)
    BY DEF IndInv
  <2> QED BY <2>1 DEF Orphan, Held
<1> QED BY <1>1, Inductive, PTL

\* Route never puts a client's stream on another customer's agent, whatever the
\* port table and the registry go through between handleClient's lookup,
\* Route's and OpenStream.
THEOREM NeverMisrouted == Spec => []RoutedToOwner
<1>1. IndInv => RoutedToOwner
  <2> SUFFICES ASSUME IndInv, NEW c \in Conn, NEW k \in conn[c].streams
               PROVE  conn[c].customer = client[k].customer
    BY DEF RoutedToOwner
  <2>1. k \in Client /\ c # 0
    BY ConnFacts, Zenon DEF IndInv, TypeInv, ConnRecord
  <2> QED BY <2>1 DEF IndInv, RoutingInv
<1> QED BY <1>1, Inductive, PTL
=============================================================================
