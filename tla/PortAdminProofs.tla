-------------------------- MODULE PortAdminProofs ---------------------------
(***************************************************************************)
(* The theorems about PortAdmin for every set of ports, customers and      *)
(* services, any number of requests, crashes and edits of the file, and    *)
(* every scenario.                                                         *)
(*                                                                         *)
(* The first part is about sockets: none that listens is lost, and none is *)
(* registered twice (ListenersTracked).  That is not inductive: launching  *)
(* a StartPort goroutine for a request and port would overwrite one that   *)
(* has bound its socket and not registered it.  It never does, because a   *)
(* request launches at most one goroutine per port (Fresh), and because a  *)
(* process starts with nothing left of the one before (Down).              *)
(*                                                                         *)
(* The second part is about the table: its types, the limits in force,     *)
(* what a restart brings back, the listener of every mapped port, and the  *)
(* tenant of a configured one.  Its invariant TableInv adds to the first   *)
(* part's what each request in progress has changed so far.                *)
(***************************************************************************)
EXTENDS PortAdmin, FiniteSetTheorems, TLAPS

Goroutine == {0} \cup Request
StarterPC == {"none", "bind", "register", "failed"}

\* q has the fields of a request.
IsRequest(q) ==
  q \in [pc : {q.pc}, op : {q.op}, port : {q.port}, customerID : {q.customerID},
         change : {q.change}, cfg : {q.cfg}, todo : {q.todo}, ports : {q.ports}]

RelayRecord ==
  [up : BOOLEAN, store : BOOLEAN, crashes : Nat, edits : Nat, unsaved : BOOLEAN]

\* The types the argument needs.
TypeInv ==
  /\ listeners \subseteq Port /\ sockets \subseteq Port
  /\ starter \in [Goroutine -> [Port -> StarterPC]]
  /\ req = [r \in Request |-> req[r]]
  /\ \A r \in Request : IsRequest(req[r])
  /\ relay \in RelayRecord

\* ListenersTracked, goroutine by goroutine.
Tracked(p) ==
  /\ p \in sockets <=> p \in listeners \/ \E r \in Goroutine : starter[r][p] = "register"
  /\ p \in listeners => \A r \in Goroutine : starter[r][p] # "register"
  /\ \A q, r \in Goroutine : starter[q][p] = "register" /\ starter[r][p] = "register" => q = r

\* A request that has not started, or has p still to do, has no goroutine for p.
Fresh ==
  \A r \in Request, p \in Port :
    req[r].pc \in {"unused", "lock"} \/ p \in req[r].todo => starter[r][p] = "none"

\* Between two processes there is neither socket nor goroutine nor request.
Down ==
  ~ relay.up =>
    /\ sockets = {} /\ listeners = {}
    /\ \A r \in Goroutine, p \in Port : starter[r][p] = "none"
    /\ \A r \in Request : req[r].pc \in {"unused", "done"}

IndInv == TypeInv /\ (\A p \in Port : Tracked(p)) /\ Fresh /\ Down

-----------------------------------------------------------------------------
\* Init
LEMMA InitGood == Init => IndInv
<1> SUFFICES ASSUME Init PROVE IndInv
  OBVIOUS
<1>1. TypeInv
  BY Zenon DEF Init, TypeInv, RelayRecord, Starter0, Goroutine, StarterPC, Unused, IsRequest
<1>2. \A r \in Goroutine, p \in Port : starter[r][p] = "none"
  BY DEF Init, Starter0, Goroutine
<1>3. \A p \in Port : Tracked(p)
  BY <1>2 DEF Init, Tracked
<1>4. Fresh /\ Down
  BY <1>2, Zenon DEF Init, Fresh, Down, Unused, Goroutine
<1> QED BY <1>1, <1>3, <1>4 DEF IndInv

-----------------------------------------------------------------------------
\* Requests

\* Goto changes the pc only.
LEMMA GotoRecord ==
  ASSUME NEW q, IsRequest(q), NEW v
  PROVE  LET t == [q EXCEPT !.pc = v]
         IN  IsRequest(t) /\ t.pc = v /\ t.todo = q.todo
  BY DEF IsRequest

\* Done forgets the request.
LEMMA DoneRecord ==
  LET t == [Unused EXCEPT !.pc = "done"]
  IN  IsRequest(t) /\ t.pc = "done" /\ t.todo = {}
  BY Zenon DEF IsRequest, Unused

\* Request r becomes t, and goroutines of others stay: what Fresh needs.
LEMMA FreshKept ==
  ASSUME IndInv, NEW r \in Request, NEW t, req' = [req EXCEPT ![r] = t],
         \A q \in Request, p \in Port : q # r => starter'[q][p] = starter[q][p],
         \A p \in Port : t.pc \in {"unused", "lock"} \/ p \in t.todo => starter'[r][p] = "none"
  PROVE  Fresh'
<1>1. req'[r] = t /\ \A q \in Request : q # r => req'[q] = req[q]
  BY DEF IndInv, TypeInv
<1> QED BY <1>1 DEF IndInv, Fresh

\* A step that binds, registers and closes nothing.
LEMMA QuietGood ==
  ASSUME IndInv, TypeInv', Fresh', relay.up, relay'.up, UNCHANGED <<sockets, listeners>>,
         \A g \in Goroutine, p \in Port : starter'[g][p] = "register" <=> starter[g][p] = "register"
  PROVE  IndInv'
<1>1. \A p \in Port : Tracked(p)'
  BY DEF IndInv, Tracked
<1> QED BY <1>1 DEF IndInv, Down

\* A request becomes t and nothing else of the invariant changes.
LEMMA RequestGood ==
  ASSUME IndInv, NEW r \in Request, NEW t, IsRequest(t), req' = [req EXCEPT ![r] = t],
         UNCHANGED <<sockets, listeners, starter>>, relay.up,
         relay' \in RelayRecord, relay'.up,
         t.pc # "unused",
         t.pc = "lock" => req[r].pc = "unused",
         \A p \in Port : p \in t.todo => p \in req[r].todo \/ req[r].pc = "lock"
  PROVE  IndInv'
<1>1. TypeInv'
  BY DEF IndInv, TypeInv
<1>2. Fresh'
  BY FreshKept DEF IndInv, Fresh
<1> QED BY <1>1, <1>2, QuietGood

\* A request in progress: the process is up.
LEMMA RequestFacts ==
  ASSUME IndInv, NEW r \in Request
  PROVE  /\ IsRequest(req[r])
         /\ relay \in RelayRecord
         /\ req[r].pc \notin {"unused", "done"} => relay.up
  BY DEF IndInv, TypeInv, Down

\* Request r goes on at v, or is done.
LEMMA GotoGood ==
  ASSUME IndInv, NEW r \in Request, NEW v, v \notin {"unused", "lock"},
         req' = Goto(r, v) \/ req' = Done(r),
         UNCHANGED <<sockets, listeners, starter>>, relay.up,
         relay' \in RelayRecord, relay'.up
  PROVE  IndInv'
<1>1. CASE req' = Goto(r, v)
  <2> DEFINE t == [req[r] EXCEPT !.pc = v]
  <2>1. IsRequest(t) /\ t.pc = v /\ t.todo = req[r].todo
    BY RequestFacts, GotoRecord
  <2>2. req' = [req EXCEPT ![r] = t]
    BY <1>1 DEF Goto
  <2> HIDE DEF t
  <2> QED BY <2>1, <2>2, RequestGood, Zenon
<1>2. CASE req' = Done(r)
  <2> DEFINE t == [Unused EXCEPT !.pc = "done"]
  <2>1. IsRequest(t) /\ t.pc = "done" /\ t.todo = {}
    BY DoneRecord
  <2>2. req' = [req EXCEPT ![r] = t]
    BY <1>2 DEF Done
  <2> HIDE DEF t
  <2> QED BY <2>1, <2>2, RequestGood, Zenon
<1> QED BY <1>1, <1>2

\* The calls on the router's table and on the sidecar.
LEMMA TableGood ==
  ASSUME IndInv, NEW r \in Request,
         \/ UpdateApply(r) \/ RemoveMapping(r) \/ CommitConfig(r)
         \/ \E ok \in BOOLEAN : Save(r, ok)
  PROVE  IndInv'
<1>1. CASE UpdateApply(r)
  <2>1. /\ req' = Goto(r, "list") \/ req' = Done(r)
        /\ UNCHANGED <<sockets, listeners, starter, relay>> /\ relay.up
    BY <1>1, RequestFacts DEF UpdateApply
  <2> QED BY <2>1, RequestFacts, GotoGood
<1>2. CASE RemoveMapping(r)
  <2>1. /\ req' \in {Goto(r, "stop"), Goto(r, "apply"), Done(r)}
        /\ UNCHANGED <<sockets, listeners, starter, relay>> /\ relay.up
    BY <1>2, RequestFacts DEF RemoveMapping
  <2> QED BY <2>1, RequestFacts, GotoGood
<1>3. CASE CommitConfig(r)
  <2>1. /\ req' = Goto(r, "list")
        /\ UNCHANGED <<sockets, listeners, starter, relay>> /\ relay.up
    BY <1>3, RequestFacts DEF CommitConfig
  <2> QED BY <2>1, RequestFacts, GotoGood
<1>4. ASSUME NEW ok \in BOOLEAN, Save(r, ok)
      PROVE  IndInv'
  <2> DEFINE n == [relay EXCEPT !.unsaved = ~ ok]
  <2>1. /\ req' = Done(r) /\ relay' = n
        /\ UNCHANGED <<sockets, listeners, starter>> /\ relay.up
    BY <1>4, RequestFacts DEF Save
  <2>2. n \in RelayRecord /\ n.up = relay.up
    BY RequestFacts, Zenon DEF RelayRecord
  <2> HIDE DEF n
  <2>3. "done" \notin {"unused", "lock"}
    OBVIOUS
  <2> QED BY <2>1, <2>2, <2>3, GotoGood
<1> QED BY <1>1, <1>2, <1>3, <1>4

\* The requests that start without a goroutine.
LEMMA ArriveGood ==
  ASSUME IndInv, NEW r \in Request,
         \/ \E u \in UNION {s.updates : s \in Scenarios} : UpdatePort(r, u[1], u[2])
         \/ \E p \in Port : DeletePort(r, p)
         \/ Reload(r)
  PROVE  IndInv'
<1>1. ASSUME NEW p, NEW change, UpdatePort(r, p, change)
      PROVE  IndInv'
  <2> DEFINE t == [Unused EXCEPT !.pc = "update", !.op = "update",
                    !.port = p, !.change = MergePortUpdate(portMap[p], change)]
  <2>1. /\ UNCHANGED <<sockets, listeners, starter, relay>> /\ relay.up
        /\ req' = Done(r) \/ req' = [req EXCEPT ![r] = t]
    BY <1>1, Zenon DEF UpdatePort, Arrives
  <2>2. IsRequest(t) /\ t.pc = "update" /\ t.todo = {}
    BY Zenon DEF Unused, IsRequest
  <2> HIDE DEF t
  <2>3. CASE req' = Done(r)
    BY <2>1, <2>3, RequestFacts, GotoGood
  <2>4. CASE req' = [req EXCEPT ![r] = t]
    BY <2>1, <2>2, <2>4, RequestFacts, RequestGood, Zenon
  <2> QED BY <2>1, <2>3, <2>4
<1>2. ASSUME NEW p, DeletePort(r, p)
      PROVE  IndInv'
  <2> DEFINE t == [Unused EXCEPT !.pc = "remove", !.op = "delete",
                    !.port = p, !.customerID = portMap[p].customerID]
  <2>1. /\ UNCHANGED <<sockets, listeners, starter, relay>> /\ relay.up
        /\ req' = Done(r) \/ req' = [req EXCEPT ![r] = t]
    BY <1>2, Zenon DEF DeletePort, Arrives
  <2>2. IsRequest(t) /\ t.pc = "remove" /\ t.todo = {}
    BY Zenon DEF Unused, IsRequest
  <2> HIDE DEF t
  <2>3. CASE req' = Done(r)
    BY <2>1, <2>3, RequestFacts, GotoGood
  <2>4. CASE req' = [req EXCEPT ![r] = t]
    BY <2>1, <2>2, <2>4, RequestFacts, RequestGood, Zenon
  <2> QED BY <2>1, <2>3, <2>4
<1>3. CASE Reload(r)
  <2> DEFINE t == [Unused EXCEPT !.pc = "lock", !.op = "reload"]
  <2>1. /\ UNCHANGED <<sockets, listeners, starter, relay>> /\ relay.up
        /\ req[r].pc = "unused" /\ req' = [req EXCEPT ![r] = t]
    BY <1>3 DEF Reload, Arrives
  <2>2. IsRequest(t) /\ t.pc = "lock" /\ t.todo = {}
    BY Zenon DEF Unused, IsRequest
  <2> HIDE DEF t
  <2> QED BY <2>1, <2>2, RequestFacts, RequestGood, Zenon
<1> QED BY <1>1, <1>2, <1>3

\* ListPorts, and the steps of a reload that launch no goroutine.
LEMMA ReloadGood ==
  ASSUME IndInv, NEW r \in Request,
         ListPorts(r) \/ LoadConfig(r) \/ \E p \in Port : ApplyRemoval(r, p)
  PROVE  IndInv'
<1>1. CASE ListPorts(r)
  <2> DEFINE t == [req[r] EXCEPT !.pc = "save", !.ports = portMap]
  <2>1. /\ UNCHANGED <<sockets, listeners, starter, relay>> /\ relay.up
        /\ req' = Done(r) \/ req' = [req EXCEPT ![r] = t]
    BY <1>1, RequestFacts, Zenon DEF ListPorts
  <2>2. IsRequest(t) /\ t.pc = "save" /\ t.todo = req[r].todo
    <3>1. IsRequest(req[r])
      BY RequestFacts
    <3> QED BY <3>1, Zenon DEF IsRequest
  <2> HIDE DEF t
  <2>3. CASE req' = Done(r)
    BY <2>1, <2>3, RequestFacts, GotoGood
  <2>4. CASE req' = [req EXCEPT ![r] = t]
    BY <2>1, <2>2, <2>4, RequestFacts, RequestGood, Zenon
  <2> QED BY <2>1, <2>3, <2>4
<1>2. CASE LoadConfig(r)
  <2> DEFINE d == DOMAIN yaml.ports \cup DOMAIN currentCfg.ports
             t == [req[r] EXCEPT !.pc = "apply", !.cfg = yaml, !.todo = d]
  <2>1. /\ UNCHANGED <<sockets, listeners, starter, relay>> /\ relay.up
        /\ req[r].pc = "lock"
        /\ req' = Done(r) \/ req' = [req EXCEPT ![r] = t]
    BY <1>2, RequestFacts, Zenon DEF LoadConfig
  <2> HIDE DEF d
  <2>2. IsRequest(t) /\ t.pc = "apply"
    <3>1. IsRequest(req[r])
      BY RequestFacts
    <3> QED BY <3>1, Zenon DEF IsRequest
  <2> HIDE DEF t
  <2>3. CASE req' = Done(r)
    BY <2>1, <2>3, RequestFacts, GotoGood
  <2>4. CASE req' = [req EXCEPT ![r] = t]
    BY <2>1, <2>2, <2>4, RequestFacts, RequestGood, Zenon
  <2> QED BY <2>1, <2>3, <2>4
<1>3. ASSUME NEW p \in Port, ApplyRemoval(r, p)
      PROVE  IndInv'
  <2> DEFINE d == req[r].todo \ {p}
             c == currentCfg.ports[p].customerID
             t == [req[r] EXCEPT !.todo = d, !.pc = "remove", !.port = p, !.customerID = c]
  <2>a. req' = [req EXCEPT ![r] = t]
    BY <1>3, Zenon DEF ApplyRemoval
  <2>b. UNCHANGED <<sockets, listeners, starter, relay>> /\ req[r].pc = "apply"
    BY <1>3, Zenon DEF ApplyRemoval
  <2>1. UNCHANGED <<sockets, listeners, starter, relay>> /\ relay.up
    BY <2>b, RequestFacts
  <2> HIDE DEF c
  <2>2. IsRequest(t) /\ t.pc = "remove" /\ t.todo = d
    <3>1. IsRequest(req[r])
      BY RequestFacts
    <3> HIDE DEF d
    <3> QED BY <3>1, Zenon DEF IsRequest
  <2> HIDE DEF t
  <2> QED BY <2>a, <2>1, <2>2, RequestFacts, RequestGood, Zenon
<1> QED BY <1>1, <1>2, <1>3

-----------------------------------------------------------------------------
\* StartPort goroutines

\* The goroutine of g for p goes on at v.
SetStarter(g, p, v) == starter' = [starter EXCEPT ![g][p] = v]

\* One goroutine's state changes.
LEMMA StarterFacts ==
  ASSUME IndInv, NEW g \in Goroutine, NEW p, NEW v \in StarterPC, SetStarter(g, p, v)
  PROVE  /\ starter' \in [Goroutine -> [Port -> StarterPC]]
         /\ \A h \in Goroutine, q \in Port :
              starter'[h][q] = IF h = g /\ q = p THEN v ELSE starter[h][q]
<1> DEFINE f == [starter[g] EXCEPT ![p] = v]
<1>1. starter \in [Goroutine -> [Port -> StarterPC]] /\ starter[g] \in [Port -> StarterPC]
  BY DEF IndInv, TypeInv
<1>2. f \in [Port -> StarterPC] /\ \A q \in Port : f[q] = IF q = p THEN v ELSE starter[g][q]
  BY <1>1, Zenon
<1>3. starter' = [starter EXCEPT ![g] = f]
  BY DEF SetStarter
<1> HIDE DEF f
<1> QED BY <1>1, <1>2, <1>3

\* Request r becomes t, and its goroutine for p goes on at v without binding or
\* registering.
LEMMA LaunchGood ==
  ASSUME IndInv, NEW r \in Request, NEW p, NEW v \in StarterPC, SetStarter(r, p, v),
         NEW t, IsRequest(t), req' = [req EXCEPT ![r] = t],
         UNCHANGED <<sockets, listeners, relay>>, relay.up,
         t.pc \notin {"unused", "lock"},
         p \in Port => (v = "register" <=> starter[r][p] = "register"),
         v = "none" \/ p \notin t.todo,
         \A q \in Port : q \in t.todo => q \in req[r].todo
  PROVE  IndInv'
<1>1. r \in Goroutine
  BY DEF Goroutine
<1>2. /\ starter' \in [Goroutine -> [Port -> StarterPC]]
      /\ \A h \in Goroutine, q \in Port :
           starter'[h][q] = IF h = r /\ q = p THEN v ELSE starter[h][q]
  BY <1>1, StarterFacts
<1>3. TypeInv'
  BY <1>2 DEF IndInv, TypeInv
<1>4. Fresh'
  <2>1. \A h \in Request, q \in Port : h # r => starter'[h][q] = starter[h][q]
    BY <1>2 DEF Goroutine
  <2>2. \A q \in Port : q \in t.todo => starter'[r][q] = "none"
    BY <1>1, <1>2 DEF IndInv, Fresh
  <2> QED BY <2>1, <2>2, FreshKept, Zenon
<1>5. \A h \in Goroutine, q \in Port : starter'[h][q] = "register" <=> starter[h][q] = "register"
  BY <1>2
<1> QED BY <1>3, <1>4, <1>5, QuietGood

\* createPort: the request had no goroutine before.
LEMMA CreatePortGood ==
  ASSUME IndInv, NEW r \in Request, NEW p, NEW e, CreatePort(r, p, e)
  PROVE  IndInv'
<1> DEFINE t == [Unused EXCEPT !.pc = "select", !.op = "create",
                               !.port = p, !.customerID = e.customerID]
<1>1. /\ UNCHANGED <<sockets, listeners, relay>> /\ relay.up /\ req[r].pc = "unused"
      /\ SetStarter(r, p, "bind") /\ req' = [req EXCEPT ![r] = t]
  BY DEF CreatePort, Arrives, GoStartPort, SetStarter
<1>2. IsRequest(t) /\ t.pc = "select" /\ t.todo = {}
  BY Zenon DEF Unused, IsRequest
<1> HIDE DEF t
<1>3. p \in Port => starter[r][p] = "none"
  BY <1>1 DEF IndInv, Fresh
<1>4. "bind" \in StarterPC
  BY DEF StarterPC
<1> QED BY <1>1, <1>2, <1>3, <1>4, LaunchGood, ZenonT(60)

\* applyReload, one port: a port that is still to do has no goroutine.
LEMMA ApplyPortGood ==
  ASSUME IndInv, NEW r \in Request, NEW p \in Port, ApplyPort(r, p)
  PROVE  IndInv'
<1> DEFINE d == req[r].todo \ {p}
           c == req[r].cfg.ports[p].customerID
           t == [req[r] EXCEPT !.todo = d, !.pc = "select", !.port = p, !.customerID = c]
           u == [req[r] EXCEPT !.todo = d]
<1>a. IsRequest(req[r])
  BY RequestFacts
<1>1. UNCHANGED <<sockets, listeners, relay>> /\ req[r].pc = "apply" /\ p \in req[r].todo
  BY DEF ApplyPort
<1>2. relay.up /\ relay \in RelayRecord
  BY <1>1, RequestFacts
<1>3. \/ SetStarter(r, p, "bind") /\ req' = [req EXCEPT ![r] = t]
      \/ starter' = starter /\ req' = [req EXCEPT ![r] = u]
  BY Zenon DEF ApplyPort, GoStartPort, SetStarter
<1> HIDE DEF c
<1>4. /\ IsRequest(t) /\ t.pc = "select" /\ t.todo = d
      /\ IsRequest(u) /\ u.pc = req[r].pc /\ u.todo = d
  <2> HIDE DEF d
  <2> QED BY <1>a, Zenon DEF IsRequest
<1> HIDE DEF t, u
<1>5. CASE SetStarter(r, p, "bind") /\ req' = [req EXCEPT ![r] = t]
  <2>1. starter[r][p] = "none" /\ "bind" \in StarterPC
    BY <1>1 DEF IndInv, Fresh, StarterPC
  <2> QED BY <1>1, <1>2, <1>4, <1>5, <2>1, LaunchGood, Zenon
<1>6. CASE starter' = starter /\ req' = [req EXCEPT ![r] = u]
  BY <1>1, <1>2, <1>4, <1>6, RequestGood, Zenon
<1> QED BY <1>3, <1>5, <1>6

\* The select of createPort and addPort, either way.
LEMMA SelectGood ==
  ASSUME IndInv, NEW r \in Request, StartFailed(r) \/ StartTimeout(r)
  PROVE  IndInv'
<1> DEFINE p == req[r].port
           v == IF starter[r][p] = "failed" THEN "none" ELSE starter[r][p]
<1>1. UNCHANGED <<sockets, listeners, relay>> /\ req[r].pc = "select"
  BY DEF StartFailed, StartTimeout
<1>2. relay.up
  BY <1>1, RequestFacts
<1>3. starter' = [starter EXCEPT ![r][p] = v]
  BY DEF StartFailed, StartTimeout
<1>4. req' \in {Done(r), Goto(r, "apply"), Goto(r, "list")}
  BY DEF StartFailed, StartTimeout
<1>5. PICK t : /\ req' = [req EXCEPT ![r] = t] /\ IsRequest(t)
               /\ t.pc \notin {"unused", "lock"}
               /\ t.todo = {} \/ t.todo = req[r].todo
  <2>1. CASE req' = Done(r)
    BY <2>1, DoneRecord, Zenon DEF Done
  <2>2. ASSUME NEW w \in {"apply", "list"}, req' = Goto(r, w)
        PROVE  \E t : /\ req' = [req EXCEPT ![r] = t] /\ IsRequest(t)
                      /\ t.pc \notin {"unused", "lock"}
                      /\ t.todo = {} \/ t.todo = req[r].todo
    <3> DEFINE t == [req[r] EXCEPT !.pc = w]
    <3>1. IsRequest(t) /\ t.pc = w /\ t.todo = req[r].todo
      BY RequestFacts, GotoRecord
    <3>2. req' = [req EXCEPT ![r] = t]
      BY <2>2 DEF Goto
    <3> HIDE DEF t
    <3> QED BY <3>1, <3>2, Zenon
  <2> QED BY <1>4, <2>1, <2>2
<1>6. CASE p \in Port
  <2>1. v \in StarterPC /\ (v = "register" <=> starter[r][p] = "register")
        /\ (v = "none" \/ p \notin req[r].todo)
    BY <1>6 DEF IndInv, TypeInv, Fresh, Goroutine, StarterPC
  <2>2. SetStarter(r, p, v)
    BY <1>3 DEF SetStarter
  <2> HIDE DEF v, p
  <2> QED BY <1>1, <1>2, <1>5, <2>1, <2>2, LaunchGood, Zenon
<1>7. CASE p \notin Port
  <2>1. starter \in [Goroutine -> [Port -> StarterPC]] /\ r \in Goroutine
    BY DEF IndInv, TypeInv, Goroutine
  <2> HIDE DEF v, p
  <2>2. [starter[r] EXCEPT ![p] = v] = starter[r]
    BY <1>7, <2>1
  <2>3. starter' = starter
    BY <1>3, <2>1, <2>2
  <2> QED BY <1>1, <1>2, <1>5, <2>3, RequestFacts, RequestGood, Zenon
<1> QED BY <1>6, <1>7

\* A goroutine that runs: the process is up.
LEMMA RunningFacts ==
  ASSUME IndInv, NEW g \in Goroutine, NEW p \in Port, starter[g][p] # "none"
  PROVE  relay.up
  BY DEF IndInv, Down

\* A goroutine that runs goes on at v: the request that launched it is neither
\* waiting to start nor about to launch it.
LEMMA RunningFresh ==
  ASSUME IndInv, NEW g \in Goroutine, NEW p \in Port, NEW v \in StarterPC,
         SetStarter(g, p, v), starter[g][p] # "none", req' = req
  PROVE  Fresh'
<1>1. \A h \in Goroutine, q \in Port :
        starter'[h][q] = IF h = g /\ q = p THEN v ELSE starter[h][q]
  BY StarterFacts
<1>2. ASSUME NEW r \in Request, NEW q \in Port,
             req[r].pc \in {"unused", "lock"} \/ q \in req[r].todo
      PROVE  starter'[r][q] = "none"
  <2>1. starter[r][q] = "none" /\ r \in Goroutine
    BY <1>2 DEF IndInv, Fresh, Goroutine
  <2>2. ~ (r = g /\ q = p)
    BY <2>1
  <2> QED BY <1>1, <2>1, <2>2
<1> QED BY <1>2 DEF Fresh

\* StartPort: net.Listen fails.
LEMMA BindFailsGood ==
  ASSUME IndInv, NEW g \in Goroutine, NEW p \in Port, BindFails(g, p)
  PROVE  IndInv'
<1> DEFINE v == IF Awaited(g, p) THEN "failed" ELSE "none"
<1>1. /\ starter[g][p] = "bind" /\ SetStarter(g, p, v)
      /\ UNCHANGED <<sockets, listeners, relay, req>>
  BY DEF BindFails, SetStarter
<1>2. v \in StarterPC /\ v # "register"
  BY DEF StarterPC
<1> HIDE DEF v
<1>3. /\ starter' \in [Goroutine -> [Port -> StarterPC]]
      /\ \A h \in Goroutine, q \in Port :
           starter'[h][q] = IF h = g /\ q = p THEN v ELSE starter[h][q]
  BY <1>1, <1>2, StarterFacts
<1>4. TypeInv'
  BY <1>1, <1>3 DEF IndInv, TypeInv
<1>5. Fresh' /\ relay.up
  BY <1>1, <1>2, RunningFresh, RunningFacts
<1>6. \A h \in Goroutine, q \in Port : starter'[h][q] = "register" <=> starter[h][q] = "register"
  BY <1>1, <1>2, <1>3
<1> QED BY <1>1, <1>4, <1>5, <1>6, QuietGood

\* StartPort: net.Listen succeeds, so nobody had the port.
LEMMA BindGood ==
  ASSUME IndInv, NEW g \in Goroutine, NEW p \in Port, Bind(g, p)
  PROVE  IndInv'
<1>1. /\ starter[g][p] = "bind" /\ SetStarter(g, p, "register") /\ p \notin sockets
      /\ sockets' = sockets \cup {p} /\ UNCHANGED <<listeners, relay, req>>
  BY DEF Bind, SetStarter
<1>2. "register" \in StarterPC
  BY DEF StarterPC
<1>3. /\ starter' \in [Goroutine -> [Port -> StarterPC]]
      /\ \A h \in Goroutine, q \in Port :
           starter'[h][q] = IF h = g /\ q = p THEN "register" ELSE starter[h][q]
  BY <1>1, <1>2, StarterFacts
<1>4. TypeInv'
  BY <1>1, <1>3 DEF IndInv, TypeInv
<1>5. Fresh' /\ relay.up
  BY <1>1, <1>2, RunningFresh, RunningFacts
<1>6. ASSUME NEW q \in Port PROVE Tracked(q)'
  <2>1. Tracked(q)
    BY DEF IndInv
  <2>2. CASE q = p
    <3>1. q \notin listeners /\ \A h \in Goroutine : starter[h][q] # "register"
      BY <2>1, <2>2, <1>1 DEF Tracked
    <3> QED BY <3>1, <2>2, <1>1, <1>3 DEF Tracked
  <2>3. CASE q # p
    BY <2>1, <2>3, <1>1, <1>3 DEF Tracked
  <2> QED BY <2>2, <2>3
<1> QED BY <1>1, <1>4, <1>5, <1>6 DEF IndInv, Down

\* StartPortWithListener: the goroutine that bound the port registers it.
LEMMA RegisterGood ==
  ASSUME IndInv, NEW g \in Goroutine, NEW p \in Port, Register(g, p)
  PROVE  IndInv'
<1>1. /\ starter[g][p] = "register" /\ SetStarter(g, p, "none")
      /\ listeners' = listeners \cup {p} /\ UNCHANGED <<sockets, relay, req>>
  BY DEF Register, SetStarter
<1>2. "none" \in StarterPC
  BY DEF StarterPC
<1>3. /\ starter' \in [Goroutine -> [Port -> StarterPC]]
      /\ \A h \in Goroutine, q \in Port :
           starter'[h][q] = IF h = g /\ q = p THEN "none" ELSE starter[h][q]
  BY <1>1, <1>2, StarterFacts
<1>4. TypeInv'
  BY <1>1, <1>3 DEF IndInv, TypeInv
<1>5. Fresh' /\ relay.up
  BY <1>1, <1>2, RunningFresh, RunningFacts
<1>6. ASSUME NEW q \in Port PROVE Tracked(q)'
  <2>1. Tracked(q)
    BY DEF IndInv
  <2>2. CASE q = p
    <3>1. q \in sockets /\ \A h \in Goroutine : starter'[h][q] # "register"
      BY <2>1, <2>2, <1>1, <1>3 DEF Tracked
    <3> QED BY <3>1, <2>2, <1>1 DEF Tracked
  <2>3. CASE q # p
    BY <2>1, <2>3, <1>1, <1>3 DEF Tracked
  <2> QED BY <2>2, <2>3
<1> QED BY <1>1, <1>4, <1>5, <1>6 DEF IndInv, Down

\* StopPort: a socket is closed only together with its registration.
LEMMA StopListenerGood ==
  ASSUME IndInv, NEW r \in Request, StopListener(r)
  PROVE  IndInv'
<1> DEFINE p == req[r].port
           w == IF req[r].op = "delete" THEN "list" ELSE "apply"
           t == [req[r] EXCEPT !.pc = w]
<1>1. /\ sockets' = (IF p \in listeners THEN sockets \ {p} ELSE sockets)
      /\ listeners' = listeners \ {p} /\ UNCHANGED <<starter, relay>>
      /\ req[r].pc = "stop" /\ req' = [req EXCEPT ![r] = t]
  BY DEF StopListener, StopPort, Goto
<1>2. IsRequest(t) /\ t.pc = w /\ t.todo = req[r].todo
  BY RequestFacts, GotoRecord
<1>3. w \in {"list", "apply"}
  OBVIOUS
<1> HIDE DEF p, w, t
<1>4. TypeInv'
  BY <1>1, <1>2 DEF IndInv, TypeInv
<1>5. Fresh'
  <2>1. \A q \in Port : q \in t.todo => starter'[r][q] = "none"
    BY <1>1, <1>2 DEF IndInv, Fresh
  <2> QED BY <1>1, <1>2, <1>3, <2>1, FreshKept, Zenon
<1>6. ASSUME NEW q \in Port PROVE Tracked(q)'
  <2>1. Tracked(q)
    BY DEF IndInv
  <2> QED BY <2>1, <1>1 DEF Tracked
<1>7. relay.up
  BY <1>1, RequestFacts
<1> QED BY <1>1, <1>4, <1>5, <1>6, <1>7 DEF IndInv, Down

-----------------------------------------------------------------------------
\* The process and its files

\* An edit of relay.yaml.
LEMMA EditConfigGood ==
  ASSUME IndInv, NEW c, EditConfig(c)
  PROVE  IndInv'
<1> DEFINE n == [relay EXCEPT !.edits = @ + 1]
<1>1. relay' = n /\ UNCHANGED <<sockets, listeners, starter, req>>
  BY DEF EditConfig
<1>2. n \in RelayRecord /\ n.up = relay.up
  BY DEF IndInv, TypeInv, RelayRecord
<1> HIDE DEF n
<1>3. TypeInv'
  BY <1>1, <1>2 DEF IndInv, TypeInv
<1>4. \A p \in Port : Tracked(p)'
  BY <1>1 DEF IndInv, Tracked
<1> QED BY <1>1, <1>2, <1>3, <1>4 DEF IndInv, Fresh, Down

\* The process dies.
LEMMA CrashGood ==
  ASSUME IndInv, Crash
  PROVE  IndInv'
<1> DEFINE k == relay.crashes + 1
           n == [relay EXCEPT !.crashes = k, !.up = FALSE]
           t == [Unused EXCEPT !.pc = "done"]
<1>1. /\ relay' = n /\ sockets' = {} /\ listeners' = {} /\ starter' = Starter0
      /\ req' = [r \in Request |-> IF Active(r) THEN t ELSE req[r]]
  BY DEF Crash
<1>a. relay \in RelayRecord
  BY DEF IndInv, TypeInv
<1>b. k \in Nat
  BY <1>a DEF RelayRecord
<1> HIDE DEF k
<1>2. n \in RelayRecord /\ ~ n.up
  BY <1>a, <1>b, Zenon DEF RelayRecord
<1>3. IsRequest(t) /\ t.pc = "done" /\ t.todo = {}
  BY DoneRecord
<1> HIDE DEF n, t
<1>4. /\ starter' \in [Goroutine -> [Port -> StarterPC]]
      /\ \A g \in Goroutine, p \in Port : starter'[g][p] = "none"
  BY <1>1 DEF Starter0, Goroutine, StarterPC
<1>5. \A r \in Request : req'[r] = t \/ (req'[r] = req[r] /\ req[r].pc \in {"unused", "done"})
  BY <1>1 DEF Active
<1>6. TypeInv'
  BY <1>1, <1>2, <1>3, <1>4, <1>5 DEF IndInv, TypeInv
<1>7. \A p \in Port : Tracked(p)'
  BY <1>1, <1>4 DEF Tracked
<1>8. Fresh' /\ Down'
  BY <1>1, <1>2, <1>3, <1>4, <1>5, ZenonT(60) DEF Fresh, Down, Goroutine
<1> QED BY <1>6, <1>7, <1>8 DEF IndInv

\* The process starts, with a goroutine for each port and nothing bound.
LEMMA BootGood ==
  ASSUME IndInv, NEW loads \in BOOLEAN, Boot(loads)
  PROVE  IndInv'
<1> DEFINE n == [relay EXCEPT !.up = TRUE, !.store = loads, !.unsaved = FALSE]
           index == BootIndex(yaml, IF loads THEN sidecar ELSE Empty)
           f == [p \in Port |-> IF p \in DOMAIN index THEN "bind" ELSE "none"]
<1>1. /\ relay' = n /\ ~ relay.up /\ UNCHANGED <<sockets, listeners, req>>
      /\ starter' = [starter EXCEPT ![0] = f]
  BY DEF Boot
<1>a. relay \in RelayRecord
  BY DEF IndInv, TypeInv
<1>2. n \in RelayRecord /\ n.up
  BY <1>a, Zenon DEF RelayRecord
<1>3. f \in [Port -> StarterPC] /\ \A p \in Port : f[p] # "register"
  <2> HIDE DEF index
  <2> QED BY DEF StarterPC
<1> HIDE DEF n, f
<1>4. 0 \in Goroutine /\ 0 \notin Request
  <2>1. MaxRequests \in Nat
    BY PortAssumption, Zenon
  <2> QED BY <2>1 DEF Goroutine, Request
<1>5. /\ starter' \in [Goroutine -> [Port -> StarterPC]]
      /\ \A g \in Goroutine, p \in Port :
           starter'[g][p] = IF g = 0 THEN f[p] ELSE starter[g][p]
  BY <1>1, <1>3, <1>4 DEF IndInv, TypeInv
<1>6. TypeInv'
  BY <1>1, <1>2, <1>5 DEF IndInv, TypeInv
<1>7. \A g \in Goroutine, p \in Port : starter'[g][p] # "register"
  BY <1>1, <1>3, <1>5 DEF IndInv, Down
<1>8. \A p \in Port : Tracked(p)'
  BY <1>1, <1>7 DEF IndInv, Down, Tracked
<1>9. Fresh'
  BY <1>1, <1>4, <1>5 DEF IndInv, Fresh, Goroutine
<1> QED BY <1>1, <1>2, <1>6, <1>8, <1>9 DEF IndInv, Down

-----------------------------------------------------------------------------
\* Every step preserves the invariant.
LEMMA StepGood == IndInv /\ [Next]_vars => IndInv'
<1> SUFFICES ASSUME IndInv, [Next]_vars PROVE IndInv'
  OBVIOUS
<1>1. ASSUME NEW r \in Request, RequestStep(r) PROVE IndInv'
  BY <1>1, SelectGood, TableGood, StopListenerGood, ReloadGood, ApplyPortGood DEF RequestStep
<1>2. ASSUME NEW g \in Goroutine, NEW p \in Port, StarterStep(g, p) PROVE IndInv'
  BY <1>2, BindFailsGood, BindGood, RegisterGood DEF StarterStep
<1>3. ASSUME NEW r \in Request,
             \E c \in UNION {s.creates : s \in Scenarios} : CreatePort(r, c[1], c[2])
      PROVE  IndInv'
  BY <1>3, CreatePortGood
<1>4. ASSUME NEW r \in Request,
             \/ \E u \in UNION {s.updates : s \in Scenarios} : UpdatePort(r, u[1], u[2])
             \/ \E p \in Port : DeletePort(r, p)
             \/ Reload(r)
      PROVE  IndInv'
  BY <1>4, ArriveGood
<1>5. ASSUME NEW c, EditConfig(c) PROVE IndInv'
  BY <1>5, EditConfigGood
<1>6. CASE UNCHANGED vars
  <2>1. TypeInv' /\ Fresh' /\ Down'
    BY <1>6 DEF vars, IndInv, TypeInv, Fresh, Down
  <2>2. \A p \in Port : Tracked(p)'
    BY <1>6 DEF vars, IndInv, Tracked
  <2> QED BY <2>1, <2>2 DEF IndInv
<1> QED BY <1>1, <1>2, <1>3, <1>4, <1>5, <1>6, CrashGood, BootGood DEF Next, Goroutine

\* The invariant holds in every behaviour.
THEOREM Inductive == Spec => []IndInv
  BY InitGood, StepGood, PTL DEF Spec

\* StartPort, StartPortWithListener and StopPort never lose a socket: however
\* creations, deletions, reloads, late binds and restarts overlap, StopPort can
\* close every socket the process has bound, or the one goroutine that bound it
\* is about to register it.
THEOREM NoListenerLost == Spec => []ListenersTracked
<1>1. IndInv => ListenersTracked
  <2> SUFFICES ASSUME IndInv, NEW p \in Port
               PROVE  /\ p \in sockets <=> p \in listeners \/ Registering(p) # {}
                      /\ p \in listeners => Registering(p) = {}
                      /\ \A q, r \in Registering(p) : q = r
    BY DEF ListenersTracked
  <2>1. Tracked(p)
    BY DEF IndInv
  <2>2. Registering(p) = {r \in Goroutine : starter[r][p] = "register"}
    BY DEF Registering, Goroutine
  <2> QED BY <2>1, <2>2 DEF Tracked
<1> QED BY <1>1, Inductive, PTL

-----------------------------------------------------------------------------
(***************************************************************************)
(* The router's table, the sidecar and the rate limits.                    *)
(*                                                                         *)
(* TypeOK and LimitsInForce hold in every scenario.  The two promises about *)
(* restarts and listeners are made for an orderly use of the API, where    *)
(* the request in progress has the table to itself; their inductive form   *)
(* says at each point of a request what it has already changed (InStep)    *)
(* and who is going to serve a mapped port (Served).                       *)
(***************************************************************************)

\* What a request in progress has read and merged so far.
RequestOK(q) ==
  /\ q.pc \in RequestPC
  /\ IsMap(q.ports) /\ IsConfig(q.cfg) /\ q.todo \subseteq Port
  /\ q.pc \in {"select", "update", "remove", "stop"} => q.port \in Port
  /\ q.pc = "update" => q.change.service \in Service /\ q.change.maxStreams \in Nat
  /\ q.pc \in {"lock", "apply"} => q.op = "reload"
  /\ q.pc = "select" => q.op \in {"create", "reload"}
  /\ q.pc \in {"remove", "stop"} => q.op \in {"delete", "reload"}

DataInv ==
  /\ app \in Scenarios
  /\ IsMap(portMap) /\ IsMap(sidecar)
  /\ limiters \in [Customer -> Nat]
  /\ IsConfig(currentCfg) /\ IsConfig(yaml)
  /\ \A r \in Request : RequestOK(req[r])

\* A restart with the sidecar s would bring back what table m adds to file c.
Restores(m, s, c) == \A p \in Port \ DOMAIN c.ports : Same(m, s, p)

\* Request q has not changed the table.
Clean(q) ==
  \/ q.pc \in {"unused", "done", "lock", "update"}
  \/ q.pc = "remove" /\ q.op = "delete"

\* createPort waits at its select: it has added one mapping, its own.
Creating(q, m, s, c) ==
  /\ q.port \in DOMAIN m /\ m[q.port].customerID = q.customerID
  /\ \A p \in Port \ DOMAIN c.ports :
       IF p = q.port THEN p \notin DOMAIN s ELSE Same(m, s, p)

\* What the only request in progress has done to the table m; d: the sidecar s
\* was written by the last Save.
InStep(q, m, s, c, d) ==
  /\ q.pc = "stop" => q.port \notin DOMAIN m
  /\ q.pc = "save" => q.ports = m
  /\ d /\ Clean(q) => Restores(m, s, c)
  /\ d /\ q.pc = "select" /\ q.op = "create" => Creating(q, m, s, c)

Durable == relay.up /\ relay.store /\ ~ relay.unsaved

OrderlyInv ==
  Orderly =>
    /\ \A q, r \in Request : Active(q) /\ Active(r) => q = r
    /\ Idle /\ Durable => Restores(portMap, sidecar, currentCfg)
    /\ \A r \in Request : Active(r) => InStep(req[r], portMap, sidecar, currentCfg, Durable)

\* Every mapped port has its listener, or a goroutine that will bind or register
\* it.
Served ==
  Orderly => \A p \in DOMAIN portMap \ app.foreign :
               p \in listeners \/ \E g \in Goroutine : starter[g][p] \in {"bind", "register"}

TableInv == IndInv /\ DataInv /\ LimitsInForce /\ OrderlyInv /\ Served

-----------------------------------------------------------------------------
\* Tables and requests

\* AddPortMapping and UpdatePortMapping put one entry in the table, which stays
\* a table.
LEMMA WithMap ==
  ASSUME NEW m, IsMap(m), NEW p \in Port, NEW e \in Entry, NEW n, n = With(m, p, e)
  PROVE  IsMap(n) /\ DOMAIN n = DOMAIN m \cup {p}
  BY DEF IsMap, With

\* RemovePortMapping takes one out.
LEMMA WithoutMap ==
  ASSUME NEW m, IsMap(m), NEW p
  PROVE  /\ IsMap(Without(m, p))
         /\ DOMAIN Without(m, p) = DOMAIN m \ {p}
         /\ \A q \in DOMAIN m \ {p} : Without(m, p)[q] = m[q]
  BY DEF IsMap, Without

\* The table of a process that has not started, and its configuration.
LEMMA EmptyMap == IsMap(Empty) /\ DOMAIN Empty = {} /\ IsConfig(NoConfig)
<1>1. IsMap(Empty) /\ DOMAIN Empty = {}
  BY DEF IsMap, Empty
<1>2. NoConfig.ports = Empty /\ NoConfig.limits = [c \in Customer |-> 0] /\ NoConfig.valid = FALSE
  BY DEF NoConfig
<1>3. [c \in Customer |-> 0] \in [Customer -> Nat] /\ FALSE \in BOOLEAN
  OBVIOUS
<1>4. IsConfig(NoConfig)
  BY <1>1, <1>2, <1>3, Zenon DEF IsConfig
<1> QED BY <1>1, <1>4

\* A request that has not started, and one that is done, hold nothing.
LEMMA UnusedOK ==
  /\ RequestOK(Unused) /\ Unused.pc = "unused"
  /\ RequestOK([Unused EXCEPT !.pc = "done"]) /\ [Unused EXCEPT !.pc = "done"].pc = "done"
<1>1. /\ Unused.pc = "unused" /\ Unused.ports = Empty /\ Unused.cfg = NoConfig
      /\ Unused.todo = {}
  BY DEF Unused
<1> DEFINE t == [Unused EXCEPT !.pc = "done"]
<1>2. t.pc = "done" /\ t.ports = Empty /\ t.cfg = NoConfig /\ t.todo = {}
  BY DEF Unused
<1> HIDE DEF t
<1>3. RequestOK(Unused) /\ RequestOK(t)
  BY <1>1, <1>2, EmptyMap DEF RequestOK, RequestPC
<1> QED BY <1>1, <1>2, <1>3 DEF t

\* Request r becomes t.
Becomes(r, t) == \A q \in Request : req'[q] = IF q = r THEN t ELSE req[q]

\* Goto changes the pc only.
LEMMA GotoBecomes ==
  ASSUME IndInv, NEW r \in Request, NEW v, req' = Goto(r, v)
  PROVE  \E t : /\ Becomes(r, t) /\ t.pc = v
                /\ t.op = req[r].op /\ t.port = req[r].port /\ t.customerID = req[r].customerID
                /\ t.change = req[r].change /\ t.cfg = req[r].cfg /\ t.todo = req[r].todo
                /\ t.ports = req[r].ports
<1> DEFINE t == [req[r] EXCEPT !.pc = v]
<1>1. req' = [req EXCEPT ![r] = t] /\ req = [q \in Request |-> req[q]]
  BY DEF Goto, IndInv, TypeInv
<1>2. IsRequest(req[r])
  BY RequestFacts
<1>3. /\ t.pc = v
      /\ t.op = req[r].op /\ t.port = req[r].port /\ t.customerID = req[r].customerID
      /\ t.change = req[r].change /\ t.cfg = req[r].cfg /\ t.todo = req[r].todo
      /\ t.ports = req[r].ports
  BY <1>2 DEF IsRequest
<1> HIDE DEF t
<1>4. Becomes(r, t)
  BY <1>1 DEF Becomes
<1> QED BY <1>3, <1>4

\* Done forgets the request.
LEMMA DoneBecomes ==
  ASSUME IndInv, NEW r \in Request, req' = Done(r)
  PROVE  \E t : Becomes(r, t) /\ RequestOK(t) /\ t.pc = "done"
<1> DEFINE t == [Unused EXCEPT !.pc = "done"]
<1>1. req' = [req EXCEPT ![r] = t] /\ req = [q \in Request |-> req[q]]
  BY DEF Done, IndInv, TypeInv
<1>2. RequestOK(t) /\ t.pc = "done"
  BY UnusedOK
<1> HIDE DEF t
<1>3. Becomes(r, t)
  BY <1>1 DEF Becomes
<1> QED BY <1>2, <1>3

\* While the use is orderly, an arriving request finds no other in progress, and
\* one in progress is the only one.
LEMMA Alone ==
  ASSUME TableInv, Orderly, NEW r \in Request, Active(r) \/ Arrives(r)
  PROVE  /\ \A q \in Request : q # r => ~ Active(q)
         /\ ~ Active(r) => Idle
<1>1. CASE Active(r)
  BY <1>1 DEF TableInv, OrderlyInv
<1>2. CASE Arrives(r)
  <2> DEFINE B == {q \in Request : Active(q)}
  <2>1. Cardinality(B) < 1
    BY <1>2 DEF Arrives, Orderly
  <2>a. MaxRequests \in Nat
    BY PortAssumption, Zenon
  <2>b. 1 \in Int /\ MaxRequests \in Int
    BY <2>a
  <2>2. IsFiniteSet(Request)
    BY <2>b, FS_Interval DEF Request
  <2>3. IsFiniteSet(B) /\ Cardinality(B) \in Nat
    BY <2>2, FS_Subset, FS_CardinalityType
  <2>4. Cardinality(B) = 0
    BY <2>1, <2>3
  <2>5. B = {}
    BY <2>3, <2>4, FS_EmptySet
  <2> QED BY <2>5 DEF Idle
<1> QED BY <1>1, <1>2

\* Request r takes a step and becomes t: if t is in step with the table, so is
\* the new state.
LEMMA OneRequest ==
  ASSUME TableInv, NEW r \in Request, Active(r) \/ Arrives(r), NEW t, Becomes(r, t),
         UNCHANGED app,
         Orderly => InStep(t, portMap', sidecar', currentCfg', Durable')
  PROVE  OrderlyInv'
<1> SUFFICES ASSUME Orderly
             PROVE  /\ \A p, q \in Request : Active(p)' /\ Active(q)' => p = q
                    /\ Idle' /\ Durable' => Restores(portMap', sidecar', currentCfg')
                    /\ \A q \in Request :
                         Active(q)' => InStep(req'[q], portMap', sidecar', currentCfg', Durable')
  BY DEF OrderlyInv, Orderly
<1>1. \A q \in Request : q # r => ~ Active(q)'
  BY Alone DEF Becomes, Active
<1>2. req'[r] = t
  BY DEF Becomes
<1>3. ASSUME Idle', Durable' PROVE Restores(portMap', sidecar', currentCfg')
  <2>1. t.pc \in {"unused", "done"}
    BY <1>2, <1>3 DEF Idle, Active
  <2> QED BY <2>1, <1>3 DEF InStep, Clean
<1> QED BY <1>1, <1>2, <1>3

\* Before the step the table was in step with the request, or nothing was in
\* progress.
LEMMA BeforeStep ==
  ASSUME TableInv, Orderly, NEW r \in Request, Active(r) \/ Arrives(r)
  PROVE  /\ Active(r) => InStep(req[r], portMap, sidecar, currentCfg, Durable)
         /\ ~ Active(r) /\ Durable => Restores(portMap, sidecar, currentCfg)
  BY Alone DEF TableInv, OrderlyInv

\* Request r becomes t, and the tables and configurations keep their types.
LEMMA DataKept ==
  ASSUME TableInv, NEW r \in Request, NEW t, Becomes(r, t), RequestOK(t),
         UNCHANGED <<app, yaml>>, IsMap(portMap'), IsMap(sidecar'),
         limiters' \in [Customer -> Nat], IsConfig(currentCfg')
  PROVE  DataInv'
  BY DEF TableInv, DataInv, Becomes

\* Steps that leave the limits, the configuration and the process alone.
LEMMA LimitsKept ==
  ASSUME TableInv, UNCHANGED <<limiters, currentCfg>>, relay'.up => relay.up
  PROVE  LimitsInForce'
  BY DEF TableInv, LimitsInForce

\* No mapping is added, and the listeners and goroutines stay.
LEMMA ServedKept ==
  ASSUME TableInv, UNCHANGED <<listeners, starter, app>>, DOMAIN portMap' \subseteq DOMAIN portMap
  PROVE  Served'
  BY DEF TableInv, Served, Orderly

\* A step of request r that touches neither a listener nor a goroutine, the
\* limits nor the configurations, and adds no mapping.
Quiet ==
  /\ UNCHANGED <<listeners, starter, limiters, currentCfg, yaml, app>>
  /\ relay'.up => relay.up
  /\ IsMap(portMap') /\ DOMAIN portMap' \subseteq DOMAIN portMap
  /\ IsMap(sidecar')

LEMMA QuietTable ==
  ASSUME TableInv, IndInv', NEW r \in Request, Active(r) \/ Arrives(r), NEW t, Becomes(r, t),
         RequestOK(t), Quiet,
         Orderly => InStep(t, portMap', sidecar', currentCfg', Durable')
  PROVE  TableInv'
<1>1. LimitsInForce' /\ Served'
  BY LimitsKept, ServedKept DEF Quiet
<1>2. OrderlyInv'
  BY OneRequest DEF Quiet
<1>3. limiters' \in [Customer -> Nat] /\ IsConfig(currentCfg')
  BY DEF TableInv, DataInv, Quiet
<1>4. DataInv'
  BY <1>3, DataKept DEF Quiet
<1> QED BY <1>1, <1>2, <1>4 DEF TableInv

-----------------------------------------------------------------------------
\* The requests that arrive, and the calls on the router's table

\* The merge of updatePort yields values of the right types.
LEMMA MergeType ==
  ASSUME DataInv, NEW p \in DOMAIN portMap, NEW change,
         change.service \in Service \cup {""}, \A n \in change.maxStreams : n \in Nat
  PROVE  LET m == MergePortUpdate(portMap[p], change)
         IN  m.service \in Service /\ m.maxStreams \in Nat
<1>1. portMap[p].service \in Service /\ portMap[p].maxStreams \in Nat
  BY Zenon DEF DataInv, IsMap, Entry
<1>2. change.maxStreams # {} => (CHOOSE n \in change.maxStreams : TRUE) \in Nat
  BY Zenon
<1> QED BY <1>1, <1>2, Zenon DEF MergePortUpdate

\* An arriving request that has nothing to do, or starts without touching the
\* table.
LEMMA ArrivesTable ==
  ASSUME TableInv, IndInv', NEW r \in Request, Arrives(r), NEW t, Becomes(r, t),
         RequestOK(t), t.pc # "stop", t.pc # "save", t.pc # "select",
         UNCHANGED <<portMap, listeners, starter, limiters, currentCfg, sidecar, yaml, relay, app>>
  PROVE  TableInv'
<1>1. ~ Active(r)
  BY Zenon DEF Arrives, Active
<1>2. Orderly => InStep(t, portMap', sidecar', currentCfg', Durable')
  BY <1>1, BeforeStep, Zenon DEF InStep, Durable
<1>3. Quiet
  BY DEF Quiet, TableInv, DataInv
<1> QED BY <1>2, <1>3, QuietTable

\* updatePort, up to the merge.
LEMMA UpdatePortTable ==
  ASSUME TableInv, IndInv', NEW r \in Request, NEW p, NEW change, UpdatePort(r, p, change)
  PROVE  TableInv'
<1>1. /\ Arrives(r) /\ <<p, change>> \in app.updates
      /\ UNCHANGED <<portMap, listeners, starter, limiters, currentCfg, sidecar, yaml, relay, app>>
  BY DEF UpdatePort
<1>2. CASE req' = Done(r)
  <2>1. PICK t : Becomes(r, t) /\ RequestOK(t) /\ t.pc = "done"
    BY <1>2, DoneBecomes DEF TableInv
  <2> QED BY <1>1, <2>1, ArrivesTable
<1>3. CASE p \in DOMAIN portMap
  <2> DEFINE m == MergePortUpdate(portMap[p], change)
             t == [Unused EXCEPT !.pc = "update", !.op = "update", !.port = p, !.change = m]
  <2>1. req' = [req EXCEPT ![r] = t] /\ req = [q \in Request |-> req[q]]
    BY <1>3 DEF UpdatePort, TableInv, IndInv, TypeInv
  <2>2. /\ p \in Port /\ change.service \in Service \cup {""}
        /\ \A n \in change.maxStreams : n \in Nat
    BY <1>1, PortAssumption, Zenon DEF TableInv, DataInv
  <2>3. m.service \in Service /\ m.maxStreams \in Nat
    BY <1>3, <2>2, MergeType, Zenon DEF TableInv
  <2> HIDE DEF m
  <2>4. /\ t.pc = "update" /\ t.port = p /\ t.change = m
        /\ t.ports = Empty /\ t.cfg = NoConfig /\ t.todo = {}
    BY DEF Unused
  <2> HIDE DEF t
  <2>5. RequestOK(t)
    BY <2>2, <2>3, <2>4, EmptyMap, Zenon DEF RequestOK, RequestPC
  <2>6. Becomes(r, t)
    BY <2>1 DEF Becomes
  <2> QED BY <1>1, <2>4, <2>5, <2>6, ArrivesTable
<1> QED BY <1>2, <1>3 DEF UpdatePort

\* deletePort, up to GetPort.
LEMMA DeletePortTable ==
  ASSUME TableInv, IndInv', NEW r \in Request, NEW p \in Port, DeletePort(r, p)
  PROVE  TableInv'
<1>1. /\ Arrives(r)
      /\ UNCHANGED <<portMap, listeners, starter, limiters, currentCfg, sidecar, yaml, relay, app>>
  BY DEF DeletePort
<1>2. CASE req' = Done(r)
  <2>1. PICK t : Becomes(r, t) /\ RequestOK(t) /\ t.pc = "done"
    BY <1>2, DoneBecomes DEF TableInv
  <2> QED BY <1>1, <2>1, ArrivesTable
<1>3. CASE p \in DOMAIN portMap
  <2> DEFINE c == portMap[p].customerID
             t == [Unused EXCEPT !.pc = "remove", !.op = "delete", !.port = p, !.customerID = c]
  <2>1. req' = [req EXCEPT ![r] = t] /\ req = [q \in Request |-> req[q]]
    BY <1>3 DEF DeletePort, TableInv, IndInv, TypeInv
  <2> HIDE DEF c
  <2>2. /\ t.pc = "remove" /\ t.op = "delete" /\ t.port = p
        /\ t.ports = Empty /\ t.cfg = NoConfig /\ t.todo = {}
    BY DEF Unused
  <2> HIDE DEF t
  <2>3. RequestOK(t)
    BY <2>2, EmptyMap DEF RequestOK, RequestPC
  <2>4. Becomes(r, t)
    BY <2>1 DEF Becomes
  <2> QED BY <1>1, <2>2, <2>3, <2>4, ArrivesTable
<1> QED BY <1>2, <1>3 DEF DeletePort

\* A reload queues for reloadMu.
LEMMA ReloadTable ==
  ASSUME TableInv, IndInv', NEW r \in Request, Reload(r)
  PROVE  TableInv'
<1> DEFINE t == [Unused EXCEPT !.pc = "lock", !.op = "reload"]
<1>1. /\ Arrives(r) /\ req' = [req EXCEPT ![r] = t] /\ req = [q \in Request |-> req[q]]
      /\ UNCHANGED <<portMap, listeners, starter, limiters, currentCfg, sidecar, yaml, relay, app>>
  BY DEF Reload, TableInv, IndInv, TypeInv
<1>2. t.pc = "lock" /\ t.op = "reload" /\ t.ports = Empty /\ t.cfg = NoConfig /\ t.todo = {}
  BY DEF Unused
<1> HIDE DEF t
<1>3. RequestOK(t)
  BY <1>2, EmptyMap DEF RequestOK, RequestPC
<1>4. Becomes(r, t)
  BY <1>1 DEF Becomes
<1> QED BY <1>1, <1>2, <1>3, <1>4, ArrivesTable

\* Request q may go on at v.
MayGoto(q, v) ==
  /\ v \in {"stop", "apply", "list"}
  /\ v = "stop" => q.port \in Port /\ q.op \in {"delete", "reload"}
  /\ v = "apply" => q.op = "reload"

\* Goto keeps the fields of a request well-formed.
LEMMA GotoOK ==
  ASSUME TableInv, NEW r \in Request, NEW v, MayGoto(req[r], v), req' = Goto(r, v)
  PROVE  \E t : /\ Becomes(r, t) /\ RequestOK(t) /\ t.pc = v
                /\ t.op = req[r].op /\ t.port = req[r].port /\ t.ports = req[r].ports
<1>1. PICK t : /\ Becomes(r, t) /\ t.pc = v
               /\ t.op = req[r].op /\ t.port = req[r].port /\ t.customerID = req[r].customerID
               /\ t.change = req[r].change /\ t.cfg = req[r].cfg /\ t.todo = req[r].todo
               /\ t.ports = req[r].ports
  BY GotoBecomes DEF TableInv
<1>2. RequestOK(req[r])
  BY Zenon DEF TableInv, DataInv
<1>3. RequestOK(t)
  BY <1>1, <1>2 DEF RequestOK, RequestPC, MayGoto
<1> QED BY <1>1, <1>3

\* UpdatePortMapping on a mapped port: the tenant is carried over.
LEMMA UpdateMap ==
  ASSUME TableInv, NEW p \in Port, CanUpdate(p), NEW s \in Service, NEW n \in Nat,
         UpdatePortMapping(p, s, n)
  PROVE  /\ IsMap(portMap') /\ DOMAIN portMap' = DOMAIN portMap
         /\ \A q \in DOMAIN portMap : portMap'[q].customerID = portMap[q].customerID
<1>1. IsMap(portMap) /\ p \in DOMAIN portMap
  BY DEF TableInv, DataInv, CanUpdate
<1>2. portMap[p].customerID \in Customer
  BY <1>1 DEF IsMap, Entry
<1>3. PICK e \in Entry : e.customerID = portMap[p].customerID /\ portMap' = With(portMap, p, e)
  <2> DEFINE e == [customerID |-> portMap[p].customerID, service |-> s, maxStreams |-> n]
  <2>1. e \in Entry /\ e.customerID = portMap[p].customerID
    BY <1>2 DEF Entry
  <2>2. portMap' = With(portMap, p, e)
    BY DEF UpdatePortMapping
  <2> HIDE DEF e
  <2> QED BY <2>1, <2>2
<1>4. IsMap(portMap') /\ DOMAIN portMap' = DOMAIN portMap \cup {p}
  BY <1>1, <1>3, WithMap, Zenon
<1>5. portMap'[p] = e /\ \A q \in DOMAIN portMap : q # p => portMap'[q] = portMap[q]
  BY <1>1, <1>3 DEF With
<1> QED BY <1>1, <1>3, <1>4, <1>5

\* updatePort: UpdatePortMapping, or ErrPortNotFound.
LEMMA UpdateApplyTable ==
  ASSUME TableInv, IndInv', NEW r \in Request, UpdateApply(r)
  PROVE  TableInv'
<1>1. /\ req[r].pc = "update" /\ RequestOK(req[r])
      /\ UNCHANGED <<listeners, starter, limiters, currentCfg, sidecar, yaml, relay, app>>
  BY DEF UpdateApply, TableInv, DataInv
<1>2. Active(r) /\ IsMap(portMap) /\ IsMap(sidecar)
  BY <1>1 DEF Active, TableInv, DataInv
<1>3. CASE CanUpdate(req[r].port)
  <2>1. /\ UpdatePortMapping(req[r].port, req[r].change.service, req[r].change.maxStreams)
        /\ req' = Goto(r, "list")
    BY <1>3 DEF UpdateApply
  <2>2. PICK t : Becomes(r, t) /\ RequestOK(t) /\ t.pc = "list"
    <3>1. MayGoto(req[r], "list")
      BY DEF MayGoto
    <3> QED BY <2>1, <3>1, GotoOK
  <2>3. IsMap(portMap') /\ DOMAIN portMap' = DOMAIN portMap
    BY <1>1, <1>3, <2>1, UpdateMap DEF RequestOK
  <2>4. Quiet
    BY <1>1, <1>2, <2>3 DEF Quiet
  <2>5. Orderly => InStep(t, portMap', sidecar', currentCfg', Durable')
    BY <2>2 DEF InStep, Clean
  <2> QED BY <1>2, <2>2, <2>4, <2>5, QuietTable
<1>4. CASE req' = Done(r) /\ UNCHANGED portMap
  <2>1. PICK t : Becomes(r, t) /\ RequestOK(t) /\ t.pc = "done"
    BY <1>4, DoneBecomes DEF TableInv
  <2>2. Quiet
    BY <1>1, <1>2, <1>4, Zenon DEF Quiet
  <2>3. Orderly => InStep(t, portMap', sidecar', currentCfg', Durable')
    BY <1>1, <1>2, <1>4, <2>1, BeforeStep DEF InStep, Clean, Durable
  <2> QED BY <1>2, <2>1, <2>2, <2>3, QuietTable
<1> QED BY <1>3, <1>4 DEF UpdateApply

\* RemovePortMapping takes out the port, or changes nothing.
LEMMA RemoveMap ==
  ASSUME TableInv, NEW c, NEW p, RemovePortMapping(c, p)
  PROVE  /\ IsMap(portMap') /\ DOMAIN portMap' \subseteq DOMAIN portMap
         /\ \A q \in DOMAIN portMap' : portMap'[q] = portMap[q]
         /\ \A q \in DOMAIN portMap : q # p => q \in DOMAIN portMap'
         /\ CanRemove(c, p) => p \notin DOMAIN portMap'
         /\ ~ CanRemove(c, p) => portMap' = portMap
<1>1. IsMap(portMap)
  BY DEF TableInv, DataInv
<1>2. CASE CanRemove(c, p)
  <2>1. portMap' = Without(portMap, p)
    BY <1>2 DEF RemovePortMapping
  <2>2. /\ IsMap(portMap') /\ DOMAIN portMap' = DOMAIN portMap \ {p}
        /\ \A q \in DOMAIN portMap \ {p} : portMap'[q] = portMap[q]
    BY <1>1, <2>1, WithoutMap, Zenon
  <2> QED BY <1>2, <2>2
<1>3. CASE ~ CanRemove(c, p)
  <2>1. portMap' = portMap
    BY <1>3 DEF RemovePortMapping
  <2> QED BY <1>1, <1>3, <2>1
<1> QED BY <1>2, <1>3

\* deletePort, and removePort of a reload: RemovePortMapping.
LEMMA RemoveMappingTable ==
  ASSUME TableInv, IndInv', NEW r \in Request, RemoveMapping(r)
  PROVE  TableInv'
<1> DEFINE p == req[r].port
           c == req[r].customerID
<1>1. /\ req[r].pc = "remove" /\ RequestOK(req[r]) /\ RemovePortMapping(c, p)
      /\ UNCHANGED <<listeners, starter, limiters, currentCfg, sidecar, yaml, relay, app>>
  BY Zenon DEF RemoveMapping, TableInv, DataInv
<1>2. Active(r) /\ IsMap(sidecar) /\ p \in Port
  BY <1>1, Zenon DEF Active, TableInv, DataInv, RequestOK
<1>3. Quiet
  BY <1>1, <1>2, RemoveMap, Zenon DEF Quiet
<1>4. CASE CanRemove(c, p) /\ req' = Goto(r, "stop")
  <2>1. PICK t : Becomes(r, t) /\ RequestOK(t) /\ t.pc = "stop" /\ t.port = p
    <3>1. MayGoto(req[r], "stop")
      BY <1>1, Zenon DEF MayGoto, RequestOK
    <3> QED BY <1>4, <3>1, GotoOK
  <2>2. Orderly => InStep(t, portMap', sidecar', currentCfg', Durable')
    BY <1>1, <1>4, <2>1, RemoveMap DEF InStep, Clean
  <2> QED BY <1>2, <1>3, <2>1, <2>2, QuietTable, Zenon
<1>5. CASE ~ CanRemove(c, p) /\ req[r].op = "delete" /\ req' = Done(r)
  <2>1. PICK t : Becomes(r, t) /\ RequestOK(t) /\ t.pc = "done"
    BY <1>5, DoneBecomes DEF TableInv
  <2>2. portMap' = portMap
    BY <1>1, <1>5, RemoveMap, Zenon
  <2>3. Orderly => InStep(t, portMap', sidecar', currentCfg', Durable')
    BY <1>1, <1>2, <1>5, <2>1, <2>2, BeforeStep DEF InStep, Clean, Durable
  <2> QED BY <1>2, <1>3, <2>1, <2>3, QuietTable
<1>6. CASE req[r].op # "delete" /\ req' = Goto(r, "apply")
  <2>1. PICK t : Becomes(r, t) /\ RequestOK(t) /\ t.pc = "apply"
    <3>1. MayGoto(req[r], "apply")
      BY <1>1, <1>6 DEF MayGoto, RequestOK
    <3> QED BY <1>6, <3>1, GotoOK
  <2>2. Orderly => InStep(t, portMap', sidecar', currentCfg', Durable')
    BY <2>1, Zenon DEF InStep, Clean
  <2> QED BY <1>2, <1>3, <2>1, <2>2, QuietTable
<1>7. CASE CanRemove(c, p)
  BY <1>4, <1>7 DEF RemoveMapping
<1>8. CASE ~ CanRemove(c, p)
  BY <1>5, <1>6, <1>8 DEF RemoveMapping
<1> QED BY <1>7, <1>8

\* ListPorts: the snapshot that Save will write, or the end without a store.
LEMMA ListPortsTable ==
  ASSUME TableInv, IndInv', NEW r \in Request, ListPorts(r)
  PROVE  TableInv'
<1>1. /\ req[r].pc = "list" /\ RequestOK(req[r])
      /\ UNCHANGED <<portMap, listeners, starter, limiters, currentCfg, sidecar, yaml, relay, app>>
  BY DEF ListPorts, TableInv, DataInv
<1>2. Active(r) /\ Quiet /\ IsMap(portMap)
  BY <1>1 DEF Active, Quiet, TableInv, DataInv
<1>3. CASE relay.store
  <2> DEFINE t == [req[r] EXCEPT !.pc = "save", !.ports = portMap]
  <2>1. req' = [req EXCEPT ![r] = t] /\ req = [q \in Request |-> req[q]]
    BY <1>3 DEF ListPorts, TableInv, IndInv, TypeInv
  <2>a. IsRequest(req[r])
    BY RequestFacts DEF TableInv
  <2>2. t.pc = "save" /\ t.ports = portMap /\ t.cfg = req[r].cfg /\ t.todo = req[r].todo
    BY <2>a DEF IsRequest
  <2> HIDE DEF t
  <2>3. Becomes(r, t)
    BY <2>1 DEF Becomes
  <2>4. RequestOK(t)
    BY <1>1, <1>2, <2>2 DEF RequestOK, RequestPC
  <2>5. Orderly => InStep(t, portMap', sidecar', currentCfg', Durable')
    BY <1>1, <2>2 DEF InStep, Clean
  <2> QED BY <1>2, <2>3, <2>4, <2>5, QuietTable
<1>4. CASE ~ relay.store
  <2>1. PICK t : Becomes(r, t) /\ RequestOK(t) /\ t.pc = "done"
    BY <1>4, DoneBecomes DEF ListPorts, TableInv
  <2>2. Orderly => InStep(t, portMap', sidecar', currentCfg', Durable')
    BY <1>1, <1>4, <2>1 DEF InStep, Durable
  <2> QED BY <1>2, <2>1, <2>2, QuietTable
<1> QED BY <1>3, <1>4

\* Save: the sidecar becomes the snapshot, or the process knows it is behind.
LEMMA SaveTable ==
  ASSUME TableInv, IndInv', NEW r \in Request, NEW ok \in BOOLEAN, Save(r, ok)
  PROVE  TableInv'
<1>1. /\ req[r].pc = "save" /\ RequestOK(req[r]) /\ req' = Done(r)
      /\ sidecar' = (IF ok THEN req[r].ports ELSE sidecar)
      /\ relay' = [relay EXCEPT !.unsaved = ~ ok]
      /\ UNCHANGED <<portMap, listeners, starter, limiters, currentCfg, yaml, app>>
  BY DEF Save, TableInv, DataInv
<1>2. relay'.up = relay.up /\ relay'.unsaved = ~ ok
  <2>1. relay \in RelayRecord
    BY DEF TableInv, IndInv, TypeInv
  <2> QED BY <1>1, <2>1 DEF RelayRecord
<1>3. IsMap(portMap) /\ IsMap(sidecar) /\ IsMap(req[r].ports) /\ Active(r)
  BY <1>1 DEF TableInv, DataInv, RequestOK, Active
<1>4. Quiet
  BY <1>1, <1>2, <1>3 DEF Quiet
<1>5. PICK t : Becomes(r, t) /\ RequestOK(t) /\ t.pc = "done"
  BY <1>1, DoneBecomes DEF TableInv
<1>6. Orderly => InStep(t, portMap', sidecar', currentCfg', Durable')
  <2>1. SUFFICES ASSUME Orderly, Durable'
                 PROVE  Restores(portMap', sidecar', currentCfg')
    BY <1>5 DEF InStep
  <2>2. ok
    BY <2>1, <1>2, Zenon DEF Durable
  <2>3. req[r].ports = portMap
    BY <1>1, <1>3, <2>1, BeforeStep DEF InStep
  <2> QED BY <1>1, <2>2, <2>3 DEF Restores, Same
<1> QED BY <1>3, <1>4, <1>5, <1>6, QuietTable

\* A reload gets reloadMu and reads the file, or gives up on a broken one.
LEMMA LoadConfigTable ==
  ASSUME TableInv, IndInv', NEW r \in Request, LoadConfig(r)
  PROVE  TableInv'
<1>1. /\ req[r].pc = "lock" /\ RequestOK(req[r])
      /\ UNCHANGED <<portMap, listeners, starter, limiters, currentCfg, sidecar, yaml, relay, app>>
  BY DEF LoadConfig, TableInv, DataInv
<1>2. Active(r) /\ Quiet /\ IsConfig(yaml) /\ IsConfig(currentCfg)
  BY <1>1 DEF Active, Quiet, TableInv, DataInv
<1>3. CASE yaml.valid
  <2> DEFINE d == DOMAIN yaml.ports \cup DOMAIN currentCfg.ports
             t == [req[r] EXCEPT !.pc = "apply", !.cfg = yaml, !.todo = d]
  <2>1. req' = [req EXCEPT ![r] = t] /\ req = [q \in Request |-> req[q]]
    BY <1>3 DEF LoadConfig, TableInv, IndInv, TypeInv
  <2>a. IsRequest(req[r])
    BY RequestFacts DEF TableInv
  <2>b. d \subseteq Port
    BY <1>2 DEF IsConfig, IsMap
  <2> HIDE DEF d
  <2>2. /\ t.pc = "apply" /\ t.op = req[r].op /\ t.ports = req[r].ports /\ t.cfg = yaml
        /\ t.todo = d
    BY <2>a, Zenon DEF IsRequest
  <2> HIDE DEF t
  <2>3. Becomes(r, t)
    BY <2>1 DEF Becomes
  <2>4. RequestOK(t)
    BY <1>1, <1>2, <2>2, <2>b DEF RequestOK, RequestPC
  <2>5. Orderly => InStep(t, portMap', sidecar', currentCfg', Durable')
    BY <2>2 DEF InStep, Clean
  <2> QED BY <1>2, <2>3, <2>4, <2>5, QuietTable
<1>4. CASE ~ yaml.valid
  <2>1. PICK t : Becomes(r, t) /\ RequestOK(t) /\ t.pc = "done"
    BY <1>4, DoneBecomes, Zenon DEF LoadConfig, TableInv
  <2>2. Orderly => InStep(t, portMap', sidecar', currentCfg', Durable')
    BY <1>1, <1>2, <2>1, BeforeStep DEF InStep, Clean, Durable
  <2> QED BY <1>2, <2>1, <2>2, QuietTable
<1> QED BY <1>3, <1>4

\* applyReload turns to a port that left the file.
LEMMA ApplyRemovalTable ==
  ASSUME TableInv, IndInv', NEW r \in Request, NEW p \in Port, ApplyRemoval(r, p)
  PROVE  TableInv'
<1> DEFINE d == req[r].todo \ {p}
           c == currentCfg.ports[p].customerID
           t == [req[r] EXCEPT !.todo = d, !.pc = "remove", !.port = p, !.customerID = c]
<1>1. /\ req[r].pc = "apply" /\ RequestOK(req[r])
      /\ UNCHANGED <<portMap, listeners, starter, limiters, currentCfg, sidecar, yaml, relay, app>>
  BY DEF ApplyRemoval, TableInv, DataInv
<1>2. Active(r) /\ Quiet
  BY <1>1 DEF Active, Quiet, TableInv, DataInv
<1>3. req' = [req EXCEPT ![r] = t] /\ req = [q \in Request |-> req[q]]
  BY DEF ApplyRemoval, TableInv, IndInv, TypeInv
<1>4. IsRequest(req[r])
  BY RequestFacts DEF TableInv
<1>5. d \subseteq Port
  BY <1>1 DEF RequestOK
<1> HIDE DEF c, d
<1>6. /\ t.pc = "remove" /\ t.op = req[r].op /\ t.port = p /\ t.ports = req[r].ports
      /\ t.cfg = req[r].cfg /\ t.todo = d
  BY <1>4, Zenon DEF IsRequest
<1> HIDE DEF t
<1>7. Becomes(r, t)
  BY <1>3 DEF Becomes
<1>8. RequestOK(t)
  BY <1>1, <1>5, <1>6, Zenon DEF RequestOK, RequestPC
<1>9. Orderly => InStep(t, portMap', sidecar', currentCfg', Durable')
  BY <1>1, <1>6 DEF InStep, Clean, RequestOK
<1> QED BY <1>2, <1>7, <1>8, <1>9, QuietTable

\* StopPort: the port it stops is no longer mapped, as nothing else runs.
LEMMA StopListenerTable ==
  ASSUME TableInv, IndInv', NEW r \in Request, StopListener(r)
  PROVE  TableInv'
<1> DEFINE w == IF req[r].op = "delete" THEN "list" ELSE "apply"
<1>1. /\ req[r].pc = "stop" /\ RequestOK(req[r]) /\ req' = Goto(r, w)
      /\ listeners' = listeners \ {req[r].port}
      /\ UNCHANGED <<portMap, starter, limiters, currentCfg, sidecar, yaml, relay, app>>
  BY DEF StopListener, StopPort, TableInv, DataInv
<1>2. Active(r)
  BY <1>1 DEF Active
<1>3. w \in {"list", "apply"} /\ MayGoto(req[r], w)
  BY <1>1 DEF RequestOK, MayGoto
<1> HIDE DEF w
<1>4. PICK t : Becomes(r, t) /\ RequestOK(t) /\ t.pc = w
  <2>1. req' = Goto(r, w) /\ MayGoto(req[r], w)
    BY <1>1, <1>3, Zenon
  <2> QED BY <2>1, GotoOK, SMTT(20)
<1>5. OrderlyInv'
  <2>1. Orderly => InStep(t, portMap', sidecar', currentCfg', Durable')
    BY <1>3, <1>4 DEF InStep, Clean
  <2> QED BY <1>1, <1>2, <1>4, <2>1, OneRequest, Zenon
<1>6. Served'
  <2>1. Orderly => req[r].port \notin DOMAIN portMap
    BY <1>1, <1>2, BeforeStep DEF InStep
  <2> QED BY <1>1, <2>1, Zenon DEF TableInv, Served, Orderly
<1>7. LimitsInForce'
  BY <1>1, LimitsKept
<1>8. DataInv'
  BY <1>1, <1>4, DataKept DEF TableInv, DataInv
<1> QED BY <1>5, <1>6, <1>7, <1>8, Zenon DEF TableInv

\* applyRateLimitChanges: a limit that did not change is in force already.
LEMMA RateLimitsRight ==
  ASSUME TableInv, relay.up, NEW new \in [Customer -> Nat],
         limiters' = RateLimits(currentCfg.limits, new)
  PROVE  /\ limiters' \in [Customer -> Nat]
         /\ \A c \in Customer : new[c] > 0 => limiters'[c] = new[c]
<1>1. limiters \in [Customer -> Nat] /\ currentCfg.limits \in [Customer -> Nat]
  BY DEF TableInv, DataInv, IsConfig
<1>2. \A c \in Customer : currentCfg.limits[c] > 0 => limiters[c] = currentCfg.limits[c]
  BY DEF TableInv, LimitsInForce
<1> QED BY <1>1, <1>2 DEF RateLimits

\* The end of applyReload: the limits, and the new configuration is current.
LEMMA CommitConfigTable ==
  ASSUME TableInv, IndInv', NEW r \in Request, CommitConfig(r)
  PROVE  TableInv'
<1>1. /\ req[r].pc = "apply" /\ RequestOK(req[r]) /\ req' = Goto(r, "list")
      /\ limiters' = RateLimits(currentCfg.limits, req[r].cfg.limits)
      /\ currentCfg' = req[r].cfg
      /\ UNCHANGED <<portMap, listeners, starter, sidecar, yaml, relay, app>>
  BY Zenon DEF CommitConfig, TableInv, DataInv
<1>2. Active(r) /\ IsConfig(req[r].cfg) /\ req[r].cfg.limits \in [Customer -> Nat]
  BY <1>1, Zenon DEF Active, RequestOK, IsConfig
<1>3. PICK t : Becomes(r, t) /\ RequestOK(t) /\ t.pc = "list"
  <2>1. MayGoto(req[r], "list")
    BY DEF MayGoto
  <2> QED BY <1>1, <2>1, GotoOK, SMTT(20)
<1>4. relay.up
  BY <1>1, RequestFacts, Zenon DEF TableInv
<1>5. /\ limiters' \in [Customer -> Nat]
      /\ \A c \in Customer : req[r].cfg.limits[c] > 0 => limiters'[c] = req[r].cfg.limits[c]
  BY <1>1, <1>2, <1>4, RateLimitsRight, Zenon
<1>6. LimitsInForce'
  BY <1>1, <1>5, Zenon DEF LimitsInForce
<1>7. OrderlyInv'
  <2>1. Orderly => InStep(t, portMap', sidecar', currentCfg', Durable')
    BY <1>3 DEF InStep, Clean
  <2> QED BY <1>1, <1>2, <1>3, <2>1, OneRequest, Zenon
<1>8. Served'
  BY <1>1, ServedKept, Zenon
<1>9. DataInv'
  BY <1>1, <1>2, <1>3, <1>5, DataKept, Zenon DEF TableInv, DataInv
<1> QED BY <1>6, <1>7, <1>8, <1>9, Zenon DEF TableInv

-----------------------------------------------------------------------------
\* Launching and awaiting goroutines

\* A goroutine that will bind or register port p.
Serving(v) == v \in {"bind", "register"}

\* No goroutine that will serve a port is lost, and each mapping that is added
\* has one.
LEMMA ServedStarts ==
  ASSUME TableInv, UNCHANGED <<listeners, app>>,
         \A g \in Goroutine, p \in Port : Serving(starter[g][p]) => Serving(starter'[g][p]),
         IsMap(portMap), IsMap(portMap'),
         \A p \in DOMAIN portMap' :
           p \in DOMAIN portMap \/ \E g \in Goroutine : Serving(starter'[g][p])
  PROVE  Served'
<1> SUFFICES ASSUME Orderly, NEW p \in DOMAIN portMap' \ app.foreign, p \notin listeners
             PROVE  \E g \in Goroutine : starter'[g][p] \in {"bind", "register"}
  BY DEF Served, Orderly
<1>1. CASE p \in DOMAIN portMap
  <2>1. PICK g \in Goroutine : starter[g][p] \in {"bind", "register"}
    BY <1>1 DEF TableInv, Served
  <2>2. p \in Port
    BY DEF IsMap
  <2> QED BY <2>1, <2>2 DEF Serving
<1>2. CASE p \notin DOMAIN portMap
  BY <1>2 DEF Serving
<1> QED BY <1>1, <1>2

\* AddPortMapping and go StartPort, of request r for port p.
LEMMA LaunchServed ==
  ASSUME TableInv, NEW r \in Request, NEW p \in Port, NEW e \in Entry, AddPortMapping(p, e),
         GoStartPort(r, p), UNCHANGED <<listeners, app>>
  PROVE  IsMap(portMap') /\ DOMAIN portMap' = DOMAIN portMap \cup {p} /\ Served'
<1>1. IsMap(portMap)
  BY DEF TableInv, DataInv
<1>2. IsMap(portMap') /\ DOMAIN portMap' = DOMAIN portMap \cup {p}
  BY <1>1, WithMap, Zenon DEF AddPortMapping
<1>3. r \in Goroutine /\ "bind" \in StarterPC
  BY DEF Goroutine, StarterPC
<1>4. \A h \in Goroutine, q \in Port :
        starter'[h][q] = IF h = r /\ q = p THEN "bind" ELSE starter[h][q]
  BY <1>3, StarterFacts, Zenon DEF TableInv, GoStartPort, SetStarter
<1>5. Serving(starter'[r][p])
  BY <1>3, <1>4 DEF Serving
<1>6. \A g \in Goroutine, q \in Port : Serving(starter[g][q]) => Serving(starter'[g][q])
  BY <1>4, <1>5
<1>7. \A q \in DOMAIN portMap' :
        q \in DOMAIN portMap \/ \E g \in Goroutine : Serving(starter'[g][q])
  BY <1>2, <1>3, <1>5
<1>8. Served'
  BY <1>1, <1>2, <1>6, <1>7, ServedStarts, Zenon
<1> QED BY <1>2, <1>8

\* createPort adds a mapping for a port that the sidecar does not have.
LEMMA CreateInStep ==
  ASSUME TableInv, Orderly, Durable, NEW p \in Port, NEW e \in Entry, NEW t,
         t.port = p, t.customerID = e.customerID, p \notin DOMAIN portMap,
         AddPortMapping(p, e), Restores(portMap, sidecar, currentCfg)
  PROVE  Creating(t, portMap', sidecar, currentCfg)
<1>1. IsMap(portMap)
  BY DEF TableInv, DataInv
<1>2. DOMAIN portMap' = DOMAIN portMap \cup {p}
  BY <1>1, WithMap, Zenon DEF AddPortMapping
<1>3. portMap'[p] = e /\ \A q \in DOMAIN portMap : q # p => portMap'[q] = portMap[q]
  BY DEF AddPortMapping, With
<1>4. ASSUME NEW q \in Port \ DOMAIN currentCfg.ports
      PROVE  IF q = p THEN q \notin DOMAIN sidecar ELSE Same(portMap', sidecar, q)
  <2>1. Same(portMap, sidecar, q)
    BY DEF Restores
  <2>2. CASE q = p
    BY <2>1, <2>2 DEF Same
  <2>3. CASE q # p
    BY <2>1, <2>3, <1>2, <1>3 DEF Same
  <2> QED BY <2>2, <2>3
<1> QED BY <1>2, <1>3, <1>4, Zenon DEF Creating

\* createPort, up to its select.
LEMMA CreatePortTable ==
  ASSUME TableInv, IndInv', NEW r \in Request, NEW p, NEW e, CreatePort(r, p, e)
  PROVE  TableInv'
<1> DEFINE c == e.customerID
           t == [Unused EXCEPT !.pc = "select", !.op = "create", !.port = p, !.customerID = c]
<1>1. /\ Arrives(r) /\ <<p, e>> \in app.creates /\ (app.overwrite \/ p \notin DOMAIN portMap)
      /\ AddPortMapping(p, e) /\ GoStartPort(r, p)
      /\ UNCHANGED <<listeners, limiters, currentCfg, sidecar, yaml, relay, app>>
  BY DEF CreatePort
<1>2. req' = [req EXCEPT ![r] = t] /\ req = [q \in Request |-> req[q]]
  BY Zenon DEF CreatePort, TableInv, IndInv, TypeInv
<1>3. p \in Port /\ e \in Entry
  BY <1>1, PortAssumption, Zenon DEF TableInv, DataInv
<1> HIDE DEF c
<1>4. /\ t.pc = "select" /\ t.op = "create" /\ t.port = p /\ t.customerID = c
      /\ t.ports = Empty /\ t.cfg = NoConfig /\ t.todo = {}
  BY DEF Unused
<1> HIDE DEF t
<1>5. Becomes(r, t)
  BY <1>2 DEF Becomes
<1>6. RequestOK(t)
  BY <1>3, <1>4, EmptyMap DEF RequestOK, RequestPC
<1>7. IsMap(portMap') /\ Served'
  BY <1>1, <1>3, LaunchServed, Zenon
<1>8. OrderlyInv'
  <2>1. ASSUME Orderly PROVE InStep(t, portMap', sidecar', currentCfg', Durable')
    <3>1. p \notin DOMAIN portMap /\ ~ Active(r)
      BY <1>1, <2>1, Zenon DEF Orderly, Arrives, Active
    <3>2. Durable => Restores(portMap, sidecar, currentCfg)
      BY <1>1, <2>1, <3>1, BeforeStep, Zenon
    <3>3. t.customerID = e.customerID
      BY <1>4 DEF c
    <3>4. Durable => Creating(t, portMap', sidecar, currentCfg)
      BY <1>1, <1>3, <1>4, <2>1, <3>1, <3>2, <3>3, CreateInStep, Zenon
    <3>5. Durable' => Creating(t, portMap', sidecar', currentCfg')
      BY <1>1, <3>4, Zenon DEF Durable
    <3> QED BY <1>4, <3>5 DEF InStep, Clean
  <2> QED BY <1>1, <1>5, <2>1, OneRequest
<1>9. LimitsInForce' /\ DataInv'
  BY <1>1, <1>5, <1>6, <1>7, LimitsKept, DataKept DEF TableInv, DataInv
<1> QED BY <1>7, <1>8, <1>9 DEF TableInv

\* The fields of a reload that goes on at v with one port less to do.
LEMMA ReloadGoesOn ==
  ASSUME TableInv, NEW r \in Request, req[r].pc = "apply", NEW p \in Port, NEW c,
         NEW t, \/ t = [req[r] EXCEPT !.todo = @ \ {p}]
                \/ t = [req[r] EXCEPT !.todo = @ \ {p}, !.pc = "select", !.port = p,
                                      !.customerID = c],
         req' = [req EXCEPT ![r] = t]
  PROVE  /\ Becomes(r, t) /\ RequestOK(t) /\ t.op = "reload"
         /\ t.pc \in {"apply", "select"}
<1>1. req = [q \in Request |-> req[q]] /\ RequestOK(req[r]) /\ IsRequest(req[r])
  BY DEF TableInv, DataInv, IndInv, TypeInv
<1> DEFINE d == req[r].todo \ {p}
<1>2. d \subseteq Port /\ req[r].op = "reload"
  BY <1>1 DEF RequestOK
<1>3. \/ t = [req[r] EXCEPT !.todo = d]
      \/ t = [req[r] EXCEPT !.todo = d, !.pc = "select", !.port = p, !.customerID = c]
  OBVIOUS
<1> HIDE DEF d
<1>4. /\ t.op = req[r].op /\ t.cfg = req[r].cfg /\ t.ports = req[r].ports /\ t.todo = d
      /\ t.pc = "apply" \/ (t.pc = "select" /\ t.port = p)
  BY <1>1, <1>3, Zenon DEF IsRequest
<1>5. RequestOK(t)
  BY <1>1, <1>2, <1>4 DEF RequestOK, RequestPC
<1>6. Becomes(r, t)
  BY <1>1 DEF Becomes
<1> QED BY <1>2, <1>4, <1>5, <1>6

\* applyReload, one port of the new file: addPort, an update, or nothing.
LEMMA ApplyPortTable ==
  ASSUME TableInv, IndInv', NEW r \in Request, NEW p \in Port, ApplyPort(r, p)
  PROVE  TableInv'
<1> DEFINE new == req[r].cfg.ports
           c == new[p].customerID
           t == [req[r] EXCEPT !.todo = @ \ {p}, !.pc = "select", !.port = p, !.customerID = c]
           u == [req[r] EXCEPT !.todo = @ \ {p}]
<1>1. /\ req[r].pc = "apply" /\ p \in DOMAIN new
      /\ UNCHANGED <<listeners, limiters, currentCfg, sidecar, yaml, relay, app>>
  BY DEF ApplyPort
<1>2. Active(r) /\ RequestOK(req[r]) /\ IsMap(portMap) /\ IsMap(sidecar)
  BY <1>1, Zenon DEF Active, TableInv, DataInv
<1>3. new[p] \in Entry
  BY <1>1, <1>2 DEF RequestOK, IsConfig, IsMap
<1>4. CASE p \notin DOMAIN currentCfg.ports
  <2>1. AddPortMapping(p, new[p]) /\ GoStartPort(r, p) /\ req' = [req EXCEPT ![r] = t]
    BY <1>4, Zenon DEF ApplyPort
  <2>3. Becomes(r, t) /\ RequestOK(t) /\ t.op = "reload" /\ t.pc \in {"apply", "select"}
    <3> HIDE DEF c
    <3> QED BY <1>1, <2>1, ReloadGoesOn, Zenon
  <2> HIDE DEF t
  <2>4. IsMap(portMap') /\ Served'
    BY <1>1, <1>3, <2>1, LaunchServed, Zenon
  <2>5. OrderlyInv'
    <3>1. Orderly => InStep(t, portMap', sidecar', currentCfg', Durable')
      BY <2>3, Zenon DEF InStep, Clean
    <3> QED BY <1>1, <1>2, <2>3, <3>1, OneRequest
  <2>6. LimitsInForce' /\ DataInv'
    BY <1>1, <2>3, <2>4, LimitsKept, DataKept, Zenon DEF TableInv, DataInv
  <2> QED BY <2>4, <2>5, <2>6 DEF TableInv
<1>5. CASE p \in DOMAIN currentCfg.ports
  <2>1. req' = [req EXCEPT ![r] = u] /\ starter' = starter
    BY <1>5 DEF ApplyPort
  <2>2. \/ CanUpdate(p) /\ UpdatePortMapping(p, new[p].service, new[p].maxStreams)
        \/ portMap' = portMap
    BY <1>5, Zenon DEF ApplyPort
  <2>3. Becomes(r, u) /\ RequestOK(u) /\ u.op = "reload" /\ u.pc \in {"apply", "select"}
    BY <1>1, <2>1, ReloadGoesOn, Zenon
  <2>4. new[p].service \in Service /\ new[p].maxStreams \in Nat
    BY <1>3, Zenon DEF Entry
  <2> HIDE DEF u, new
  <2>5. IsMap(portMap') /\ DOMAIN portMap' = DOMAIN portMap
    BY <1>2, <2>2, <2>4, UpdateMap
  <2>6. Quiet
    BY <1>1, <1>2, <2>1, <2>5 DEF Quiet
  <2>7. Orderly => InStep(u, portMap', sidecar', currentCfg', Durable')
    BY <2>3 DEF InStep, Clean
  <2> QED BY <1>2, <2>3, <2>6, <2>7, QuietTable, Zenon
<1> QED BY <1>4, <1>5

\* A goroutine whose error, if any, is taken or given up: the ones that will
\* serve stay.
LEMMA SelectServed ==
  ASSUME TableInv, NEW r \in Request, NEW p \in Port, NEW v \in StarterPC, SetStarter(r, p, v),
         Serving(starter[r][p]) => v = starter[r][p], UNCHANGED <<listeners, app>>,
         IsMap(portMap'), DOMAIN portMap' \subseteq DOMAIN portMap
  PROVE  Served'
<1>1. r \in Goroutine /\ IsMap(portMap)
  BY DEF Goroutine, TableInv, DataInv
<1>2. \A h \in Goroutine, q \in Port :
        starter'[h][q] = IF h = r /\ q = p THEN v ELSE starter[h][q]
  BY <1>1, StarterFacts DEF TableInv
<1>3. \A g \in Goroutine, q \in Port : Serving(starter[g][q]) => Serving(starter'[g][q])
  BY <1>2
<1> QED BY <1>1, <1>3, ServedStarts

\* Without the mapping that createPort added, the table is as the sidecar has it.
LEMMA RollBack ==
  ASSUME TableInv, NEW q, Creating(q, portMap, sidecar, currentCfg),
         RemovePortMapping(q.customerID, q.port)
  PROVE  Restores(portMap', sidecar, currentCfg)
<1>1. CanRemove(q.customerID, q.port)
  BY DEF Creating, CanRemove
<1>2. /\ q.port \notin DOMAIN portMap'
      /\ \A p \in DOMAIN portMap' : p \in DOMAIN portMap /\ portMap'[p] = portMap[p]
      /\ \A p \in DOMAIN portMap : p # q.port => p \in DOMAIN portMap'
  BY <1>1, RemoveMap
<1>3. ASSUME NEW p \in Port \ DOMAIN currentCfg.ports PROVE Same(portMap', sidecar, p)
  <2>1. CASE p = q.port
    BY <1>2, <2>1 DEF Creating, Same
  <2>2. CASE p # q.port
    <3>1. Same(portMap, sidecar, p)
      BY <2>2 DEF Creating
    <3> QED BY <3>1, <2>2, <1>2 DEF Same
  <2> QED BY <2>1, <2>2
<1> QED BY <1>3 DEF Restores

\* The select takes the error: the mapping is rolled back.
LEMMA StartFailedTable ==
  ASSUME TableInv, IndInv', NEW r \in Request, StartFailed(r)
  PROVE  TableInv'
<1> DEFINE p == req[r].port
<1>1. /\ req[r].pc = "select" /\ RequestOK(req[r]) /\ starter[r][p] = "failed"
      /\ SetStarter(r, p, "none") /\ RemovePortMapping(req[r].customerID, p)
      /\ UNCHANGED <<listeners, limiters, currentCfg, sidecar, yaml, relay, app>>
  BY DEF StartFailed, SetStarter, TableInv, DataInv
<1>2. Active(r) /\ p \in Port /\ "none" \in StarterPC
  BY <1>1, Zenon DEF Active, RequestOK, StarterPC
<1>3. IsMap(portMap') /\ DOMAIN portMap' \subseteq DOMAIN portMap
  BY <1>1, RemoveMap, Zenon
<1> HIDE DEF p
<1>4. Served'
  BY <1>1, <1>2, <1>3, SelectServed, Zenon DEF Serving
<1>5. \E t : /\ Becomes(r, t) /\ RequestOK(t)
             /\ Orderly => InStep(t, portMap', sidecar', currentCfg', Durable')
  <2>1. CASE req[r].op = "create"
    <3>1. req' = Done(r)
      BY <2>1 DEF StartFailed
    <3>2. PICK t : Becomes(r, t) /\ RequestOK(t) /\ t.pc = "done"
      BY <3>1, DoneBecomes, Zenon DEF TableInv
    <3>3. Orderly /\ Durable => Creating(req[r], portMap, sidecar, currentCfg)
      BY <1>1, <1>2, <2>1, BeforeStep, Zenon DEF InStep
    <3>4. Orderly /\ Durable => Restores(portMap', sidecar, currentCfg)
      BY <1>1, <3>3, RollBack, Zenon DEF p
    <3>5. Orderly => InStep(t, portMap', sidecar', currentCfg', Durable')
      BY <1>1, <3>2, <3>4, Zenon DEF InStep, Durable
    <3> QED BY <3>2, <3>5
  <2>2. CASE req[r].op = "reload"
    <3>1. req' = Goto(r, "apply")
      BY <2>2 DEF StartFailed
    <3>2. PICK t : Becomes(r, t) /\ RequestOK(t) /\ t.pc = "apply"
      <4>1. MayGoto(req[r], "apply")
        BY <2>2, Zenon DEF MayGoto
      <4> QED BY <3>1, <4>1, GotoOK, SMTT(20)
    <3> QED BY <3>2 DEF InStep, Clean
  <2> QED BY <1>1, <2>1, <2>2, Zenon DEF RequestOK
<1>6. OrderlyInv' /\ LimitsInForce' /\ DataInv'
  BY <1>1, <1>2, <1>3, <1>5, OneRequest, LimitsKept, DataKept, Zenon DEF TableInv, DataInv
<1> QED BY <1>4, <1>6 DEF TableInv

\* The select takes the timer: the port counts as started.
LEMMA StartTimeoutTable ==
  ASSUME TableInv, IndInv', NEW r \in Request, StartTimeout(r)
  PROVE  TableInv'
<1> DEFINE p == req[r].port
           v == IF starter[r][p] = "failed" THEN "none" ELSE starter[r][p]
           w == IF req[r].op = "create" THEN "list" ELSE "apply"
<1>1. /\ req[r].pc = "select" /\ RequestOK(req[r]) /\ req' = Goto(r, w)
      /\ SetStarter(r, p, v)
      /\ UNCHANGED <<portMap, listeners, limiters, currentCfg, sidecar, yaml, relay, app>>
  BY Zenon DEF StartTimeout, SetStarter, TableInv, DataInv
<1>2. Active(r) /\ p \in Port /\ IsMap(portMap)
  BY <1>1, Zenon DEF Active, RequestOK, TableInv, DataInv
<1>3. v \in StarterPC /\ (Serving(starter[r][p]) => v = starter[r][p])
  BY <1>2, Zenon DEF Serving, StarterPC, TableInv, IndInv, TypeInv, Goroutine
<1>4. w \in {"list", "apply"} /\ MayGoto(req[r], w)
  BY <1>1, Zenon DEF RequestOK, MayGoto
<1> HIDE DEF p, v, w
<1>5. PICK t : Becomes(r, t) /\ RequestOK(t) /\ t.pc = w
  <2>1. req' = Goto(r, w) /\ MayGoto(req[r], w)
    BY <1>1, <1>4
  <2> QED BY <2>1, GotoOK, SMTT(20)
<1>6. Served'
  BY <1>1, <1>2, <1>3, SelectServed, Zenon
<1>7. OrderlyInv'
  <2>1. Orderly => InStep(t, portMap', sidecar', currentCfg', Durable')
    BY <1>4, <1>5 DEF InStep, Clean
  <2> QED BY <1>1, <1>2, <1>5, <2>1, OneRequest, Zenon
<1>8. LimitsInForce' /\ DataInv'
  BY <1>1, <1>5, LimitsKept, DataKept, Zenon DEF TableInv, DataInv
<1> QED BY <1>6, <1>7, <1>8 DEF TableInv

-----------------------------------------------------------------------------
\* The goroutines

\* No request takes a step, and the tables and files stay.
LEMMA RequestsStay ==
  ASSUME TableInv, UNCHANGED <<portMap, limiters, currentCfg, sidecar, yaml, relay, req, app>>
  PROVE  DataInv' /\ LimitsInForce' /\ OrderlyInv'
<1>1. DataInv' /\ LimitsInForce'
  BY Zenon DEF TableInv, DataInv, LimitsInForce
<1>2. OrderlyInv'
  BY DEF TableInv, OrderlyInv, Orderly, Active, Idle, Durable
<1> QED BY <1>1, <1>2

\* A step of StartPort for port p: whoever holds the port serves it.
LEMMA StarterTable ==
  ASSUME TableInv, IndInv', NEW g \in Goroutine, NEW p \in Port, StarterStep(g, p)
  PROVE  TableInv'
<1> DEFINE f == IF Awaited(g, p) THEN "failed" ELSE "none"
<1>1. UNCHANGED <<portMap, limiters, currentCfg, sidecar, yaml, relay, req, app>>
  BY DEF StarterStep, BindFails, Bind, Register
<1>2. \/ /\ SetStarter(g, p, f) /\ starter[g][p] = "bind"
         /\ p \in sockets \cup app.foreign /\ listeners' = listeners
      \/ SetStarter(g, p, "register") /\ listeners' = listeners
      \/ SetStarter(g, p, "none") /\ listeners' = listeners \cup {p}
  BY DEF StarterStep, BindFails, Bind, Register, SetStarter
<1>3. f \in StarterPC /\ "register" \in StarterPC /\ "none" \in StarterPC
  BY DEF StarterPC
<1> HIDE DEF f
<1>4. Served'
  <2> SUFFICES ASSUME Orderly, NEW q \in DOMAIN portMap \ app.foreign, q \notin listeners'
               PROVE  \E h \in Goroutine : starter'[h][q] \in {"bind", "register"}
    BY <1>1 DEF Served, Orderly
  <2>1. q \notin listeners
    BY <1>2
  <2>2. PICK h \in Goroutine : starter[h][q] \in {"bind", "register"}
    BY <2>1 DEF TableInv, Served
  <2>3. q \in Port
    BY DEF TableInv, DataInv, IsMap
  <2>4. CASE q # p \/ h # g
    <3>1. PICK v \in StarterPC : SetStarter(g, p, v)
      BY <1>2, <1>3
    <3>2. starter'[h][q] = starter[h][q]
      BY <2>3, <2>4, <3>1, StarterFacts, SMTT(20) DEF TableInv
    <3> QED BY <2>2, <3>2
  <2>5. CASE q = p /\ h = g
    <3>1. CASE /\ SetStarter(g, p, f) /\ starter[g][p] = "bind"
               /\ p \in sockets \cup app.foreign /\ listeners' = listeners
      <4>1. PICK k \in Goroutine : starter[k][p] = "register"
        BY <2>1, <2>5, <3>1, Zenon DEF TableInv, IndInv, Tracked
      <4>2. starter'[k][p] = starter[k][p]
        <5>1. k # g
          BY <3>1, <4>1
        <5> QED BY <1>3, <3>1, <5>1, StarterFacts DEF TableInv
      <4> QED BY <2>5, <4>1, <4>2, Zenon
    <3>2. CASE SetStarter(g, p, "register")
      <4>1. starter'[g][p] = "register"
        BY <3>2, <1>3, StarterFacts DEF TableInv
      <4> QED BY <2>5, <4>1
    <3> QED BY <1>2, <2>5, <3>1, <3>2
  <2> QED BY <2>4, <2>5
<1> QED BY <1>1, <1>4, RequestsStay DEF TableInv

-----------------------------------------------------------------------------
\* The process and its files

\* An edit of relay.yaml touches neither the table nor the sidecar.
LEMMA EditConfigTable ==
  ASSUME TableInv, IndInv', NEW c, EditConfig(c)
  PROVE  TableInv'
<1>1. /\ c \in app.configs /\ yaml' = c /\ relay' = [relay EXCEPT !.edits = @ + 1]
      /\ UNCHANGED <<portMap, listeners, starter, limiters, currentCfg, sidecar, req, app>>
  BY DEF EditConfig
<1>2. /\ relay'.up = relay.up /\ relay'.store = relay.store
      /\ relay'.unsaved = relay.unsaved
  <2>1. relay \in RelayRecord
    BY DEF TableInv, IndInv, TypeInv
  <2> QED BY <1>1, <2>1 DEF RelayRecord
<1>3. IsConfig(c)
  BY <1>1, PortAssumption, Zenon DEF TableInv, DataInv
<1>4. DataInv'
  BY <1>1, <1>3 DEF TableInv, DataInv
<1>5. LimitsInForce' /\ Served'
  BY <1>1, <1>2, LimitsKept, ServedKept
<1>6. Durable' = Durable
  BY <1>2 DEF Durable
<1>7. OrderlyInv'
  BY <1>1, <1>6 DEF TableInv, OrderlyInv, Orderly, Active, Idle
<1> QED BY <1>4, <1>5, <1>7 DEF TableInv

\* The process dies: nothing is mapped and nothing is in progress.
LEMMA CrashTable ==
  ASSUME TableInv, IndInv', Crash
  PROVE  TableInv'
<1> DEFINE t == [Unused EXCEPT !.pc = "done"]
<1>1. /\ relay' = [relay EXCEPT !.crashes = @ + 1, !.up = FALSE]
      /\ portMap' = Empty /\ currentCfg' = NoConfig
      /\ limiters' = [c \in Customer |-> 0]
      /\ req' = [r \in Request |-> IF Active(r) THEN t ELSE req[r]]
      /\ UNCHANGED <<sidecar, yaml, app>>
  BY DEF Crash
<1>2. ~ relay'.up
  <2>1. relay \in RelayRecord
    BY DEF TableInv, IndInv, TypeInv
  <2> QED BY <1>1, <2>1 DEF RelayRecord
<1>3. RequestOK(t) /\ t.pc = "done"
  BY UnusedOK
<1> HIDE DEF t
<1>4. \A r \in Request : RequestOK(req'[r]) /\ req'[r].pc \in {"unused", "done"}
  BY <1>1, <1>3 DEF TableInv, DataInv, Active
<1>5. limiters' \in [Customer -> Nat]
  BY <1>1
<1>6. DataInv'
  BY <1>1, <1>4, <1>5, EmptyMap DEF TableInv, DataInv
<1>7. LimitsInForce'
  BY <1>2 DEF LimitsInForce
<1>8. OrderlyInv'
  BY <1>2, <1>4 DEF OrderlyInv, Active, Durable
<1>9. Served'
  BY <1>1, EmptyMap DEF Served
<1> QED BY <1>6, <1>7, <1>8, <1>9 DEF TableInv

\* What a process starts with is what relay.yaml and the sidecar say.
LEMMA BootIndexRight ==
  ASSUME NEW c, IsConfig(c), NEW s, IsMap(s)
  PROVE  /\ IsMap(BootIndex(c, s))
         /\ DOMAIN BootIndex(c, s) = DOMAIN c.ports \cup DOMAIN s
         /\ \A p \in Port \ DOMAIN c.ports : Same(BootIndex(c, s), s, p)
  BY DEF IsConfig, IsMap, BootIndex, Same

\* The process starts: relay.yaml, the sidecar if it can be read, and a
\* goroutine for each port.
LEMMA BootTable ==
  ASSUME TableInv, IndInv', NEW loads \in BOOLEAN, Boot(loads)
  PROVE  TableInv'
<1> DEFINE saved == IF loads THEN sidecar ELSE Empty
           index == BootIndex(yaml, saved)
<1>1. /\ ~ relay.up /\ portMap' = index /\ limiters' = yaml.limits /\ currentCfg' = yaml
      /\ relay' = [relay EXCEPT !.up = TRUE, !.store = loads, !.unsaved = FALSE]
      /\ UNCHANGED <<sidecar, yaml, req, app>>
  BY DEF Boot
<1>2. starter' = [starter EXCEPT ![0] =
                    [p \in Port |-> IF p \in DOMAIN index THEN "bind" ELSE "none"]]
  BY DEF Boot
<1>3. relay'.store = loads
  <2>1. relay \in RelayRecord
    BY DEF TableInv, IndInv, TypeInv
  <2> QED BY <1>1, <2>1 DEF RelayRecord
<1>4. IsConfig(yaml) /\ IsMap(saved) /\ IsMap(sidecar)
  BY EmptyMap DEF TableInv, DataInv
<1>5. /\ IsMap(index)
      /\ \A p \in Port \ DOMAIN yaml.ports : Same(index, saved, p)
  <2> HIDE DEF saved
  <2> QED BY <1>4, BootIndexRight, Zenon
<1> HIDE DEF index
<1>6. DataInv'
  BY <1>1, <1>4, <1>5 DEF TableInv, DataInv, IsConfig
<1>7. LimitsInForce'
  BY <1>1 DEF LimitsInForce
<1>8. \A r \in Request : ~ Active(r)'
  BY <1>1 DEF TableInv, IndInv, Down, Active
<1>9. Durable' => Restores(portMap', sidecar', currentCfg')
  BY <1>1, <1>3, <1>5 DEF Durable, Restores
<1>10. OrderlyInv'
  BY <1>8, <1>9 DEF OrderlyInv
<1>11. Served'
  <2>1. 0 \in Goroutine /\ starter \in [Goroutine -> [Port -> StarterPC]]
    BY DEF Goroutine, TableInv, IndInv, TypeInv
  <2>2. \A p \in DOMAIN index : starter'[0][p] = "bind"
    BY <1>2, <1>5, <2>1 DEF IsMap
  <2> QED BY <1>1, <2>1, <2>2 DEF Served
<1> QED BY <1>6, <1>7, <1>10, <1>11 DEF TableInv

-----------------------------------------------------------------------------
\* Before the first start.
LEMMA InitTable == Init => TableInv
<1> SUFFICES ASSUME Init PROVE TableInv
  OBVIOUS
<1>1. IndInv
  BY InitGood, Zenon
<1>2. \A r \in Request : req[r] = Unused
  BY DEF Init
<1>3. \A r \in Request : RequestOK(req[r]) /\ ~ Active(r)
  BY <1>2, UnusedOK DEF Active
<1>4. app \in Scenarios /\ IsConfig(yaml)
  BY PortAssumption, Zenon DEF Init
<1>5. limiters \in [Customer -> Nat] /\ portMap = Empty /\ sidecar = Empty
      /\ currentCfg = NoConfig
  BY DEF Init
<1>6. DataInv
  BY <1>3, <1>4, <1>5, EmptyMap, Zenon DEF DataInv
<1>7. ~ relay.up
  BY Zenon DEF Init
<1>8. LimitsInForce /\ OrderlyInv /\ Served
  BY <1>3, <1>5, <1>7, EmptyMap, Zenon DEF LimitsInForce, OrderlyInv, Served, Durable
<1> QED BY <1>1, <1>6, <1>8 DEF TableInv

\* Every step preserves the invariant.
LEMMA StepTable == TableInv /\ [Next]_vars => TableInv'
<1> SUFFICES ASSUME TableInv, [Next]_vars PROVE TableInv'
  OBVIOUS
<1>1. IndInv'
  BY StepGood DEF TableInv
<1>2. ASSUME NEW r \in Request, RequestStep(r) PROVE TableInv'
  <2>1. ASSUME NEW p \in Port, ApplyPort(r, p) \/ ApplyRemoval(r, p) PROVE TableInv'
    BY <1>1, <2>1, ApplyPortTable, ApplyRemovalTable
  <2>2. ASSUME NEW ok \in BOOLEAN, Save(r, ok) PROVE TableInv'
    BY <1>1, <2>2, SaveTable
  <2>3. CASE StartFailed(r) \/ StartTimeout(r)
    BY <1>1, <2>3, StartFailedTable, StartTimeoutTable
  <2>4. CASE UpdateApply(r) \/ RemoveMapping(r) \/ StopListener(r)
    BY <1>1, <2>4, UpdateApplyTable, RemoveMappingTable, StopListenerTable
  <2>5. CASE ListPorts(r) \/ LoadConfig(r) \/ CommitConfig(r)
    BY <1>1, <2>5, ListPortsTable, LoadConfigTable, CommitConfigTable
  <2> QED BY <1>2, <2>1, <2>2, <2>3, <2>4, <2>5 DEF RequestStep
<1>3. ASSUME NEW g \in Goroutine, NEW p \in Port, StarterStep(g, p) PROVE TableInv'
  BY <1>1, <1>3, StarterTable
<1>4. ASSUME NEW r \in Request, NEW c, CreatePort(r, c[1], c[2]) PROVE TableInv'
  BY <1>1, <1>4, CreatePortTable
<1>5. ASSUME NEW r \in Request, NEW u, UpdatePort(r, u[1], u[2]) PROVE TableInv'
  BY <1>1, <1>5, UpdatePortTable
<1>6. ASSUME NEW r \in Request, NEW p \in Port, DeletePort(r, p) PROVE TableInv'
  BY <1>1, <1>6, DeletePortTable
<1>7. ASSUME NEW r \in Request, Reload(r) PROVE TableInv'
  BY <1>1, <1>7, ReloadTable
<1>8. ASSUME NEW c, EditConfig(c) PROVE TableInv'
  BY <1>1, <1>8, EditConfigTable
<1>9. CASE Crash
  BY <1>1, <1>9, CrashTable
<1>10. ASSUME NEW loads \in BOOLEAN, Boot(loads) PROVE TableInv'
  BY <1>1, <1>10, BootTable
<1>11. CASE UNCHANGED vars
  <2>1. UNCHANGED <<portMap, limiters, currentCfg, sidecar, yaml, relay, req, app, listeners, starter>>
    BY <1>11, Zenon DEF vars
  <2> QED BY <1>1, <2>1, RequestsStay, ServedKept DEF TableInv
<1> QED BY <1>2, <1>3, <1>4, <1>5, <1>6, <1>7, <1>8, <1>9, <1>10, <1>11 DEF Next, Goroutine

\* The invariant holds in every behaviour.
THEOREM TableInductive == Spec => []TableInv
  BY InitTable, StepTable, PTL DEF Spec

\* The router's table, the sidecar, the configurations and the requests keep
\* their types: what updatePort merges, what Save writes and what a start reads
\* back are tables of well-formed entries.
THEOREM TypesKept == Spec => []TypeOK
<1>1. TableInv => TypeOK
  BY DEF TableInv, IndInv, TypeInv, DataInv, RequestOK, TypeOK, Goroutine, StarterPC
<1> QED BY <1>1, TableInductive, PTL

\* applyRateLimitChanges and cmd/relay: after any number of starts and reloads
\* the limit of every customer that has one is that of the current
\* configuration.
THEOREM LimitsAlwaysInForce == Spec => []LimitsInForce
<1>1. TableInv => LimitsInForce
  BY Zenon DEF TableInv
<1> QED BY <1>1, TableInductive, PTL

\* SaveCurrentState and the merge at a start (store.go, cmd/relay): between
\* requests of an orderly client a restart brings back the ports of the admin
\* API as they are, after any sequence of requests, failed binds, failed saves
\* and crashes.
THEOREM RestartsRestore == Spec => []RestartRestores
<1>1. TableInv => RestartRestores
  <2> SUFFICES ASSUME TableInv, relay.up, relay.store, Orderly, Idle, ~ relay.unsaved,
                      yaml = currentCfg, NEW p \in Port \ DOMAIN yaml.ports
               PROVE  Same(portMap, BootIndex(yaml, sidecar), p)
    BY DEF RestartRestores
  <2>1. Same(portMap, sidecar, p)
    BY DEF TableInv, OrderlyInv, Durable, Restores
  <2>2. Same(BootIndex(yaml, sidecar), sidecar, p)
    BY BootIndexRight, Zenon DEF TableInv, DataInv
  <2> QED BY <2>1, <2>2 DEF Same
<1> QED BY <1>1, TableInductive, PTL

\* createPort, deletePort, reloads and starts (admin.go, admin_reload.go): once
\* the goroutines have run, every port an orderly client has mapped is served,
\* unless another program holds it.
THEOREM MappedPortsServed == Spec => []MappedIsServed
<1>1. TableInv => MappedIsServed
  <2> SUFFICES ASSUME TableInv, Orderly, NEW p \in DOMAIN portMap \ app.foreign,
                      \A r \in Goroutine, q \in Port : starter[r][q] = "none"
               PROVE  p \in listeners
    BY DEF MappedIsServed, Goroutine
  <2>1. p \in Port
    BY DEF TableInv, DataInv, IsMap
  <2> QED BY <2>1 DEF TableInv, Served
<1> QED BY <1>1, TableInductive, PTL

\* Every call that writes the table, in an orderly process that stays up, keeps
\* the tenant of each port that the current configuration defines.
LEMMA TenantStep ==
  ASSUME TableInv, [Next]_vars, Orderly, relay.up, relay'.up,
         NEW p \in DOMAIN portMap \cap DOMAIN portMap', p \in DOMAIN currentCfg.ports
  PROVE  portMap'[p].customerID = portMap[p].customerID
<1>1. CASE portMap' = portMap
  BY <1>1
<1>2. ASSUME NEW r \in Request, NEW q, NEW e, CreatePort(r, q, e)
      PROVE  portMap'[p].customerID = portMap[p].customerID
  <2>1. q \notin DOMAIN portMap /\ portMap' = With(portMap, q, e)
    BY <1>2 DEF CreatePort, AddPortMapping, Orderly
  <2> QED BY <2>1 DEF With
<1>3. ASSUME NEW q, NEW s, NEW n, CanUpdate(q), UpdatePortMapping(q, s, n)
      PROVE  portMap'[p].customerID = portMap[p].customerID
  BY <1>3 DEF UpdatePortMapping, With
<1>4. ASSUME NEW c, NEW q, RemovePortMapping(c, q)
      PROVE  portMap'[p].customerID = portMap[p].customerID
  BY <1>4, RemoveMap
<1>5. ASSUME NEW r \in Request, NEW q \in Port, ApplyPort(r, q)
      PROVE  portMap'[p].customerID = portMap[p].customerID
  <2>1. CASE q \notin DOMAIN currentCfg.ports
    <3>1. portMap' = With(portMap, q, req[r].cfg.ports[q]) /\ p # q
      BY <1>5, <2>1 DEF ApplyPort, AddPortMapping
    <3> QED BY <3>1 DEF With
  <2>2. CASE q \in DOMAIN currentCfg.ports
    BY <1>1, <1>3, <1>5, <2>2, Zenon DEF ApplyPort
  <2> QED BY <2>1, <2>2
<1>6. ASSUME NEW r \in Request, RequestStep(r)
      PROVE  portMap'[p].customerID = portMap[p].customerID
  <2>1. CASE StartFailed(r) \/ RemoveMapping(r)
    BY <1>4, <2>1, Zenon DEF StartFailed, RemoveMapping
  <2>2. CASE UpdateApply(r)
    BY <1>1, <1>3, <2>2, Zenon DEF UpdateApply
  <2>3. CASE \/ StartTimeout(r) \/ StopListener(r) \/ ListPorts(r) \/ LoadConfig(r)
             \/ CommitConfig(r) \/ \E ok \in BOOLEAN : Save(r, ok)
             \/ \E q \in Port : ApplyRemoval(r, q)
    BY <1>1, <2>3, Zenon
       DEF StartTimeout, StopListener, ListPorts, LoadConfig, CommitConfig, Save, ApplyRemoval
  <2> QED BY <1>5, <1>6, <2>1, <2>2, <2>3, Zenon DEF RequestStep
<1>7. ASSUME NEW r \in Request,
             \/ \E u \in UNION {s.updates : s \in Scenarios} : UpdatePort(r, u[1], u[2])
             \/ \E q \in Port : DeletePort(r, q)
             \/ Reload(r)
      PROVE  portMap' = portMap
  BY <1>7, Zenon DEF UpdatePort, DeletePort, Reload
<1>8. ASSUME NEW g \in Goroutine, NEW q \in Port, StarterStep(g, q) PROVE portMap' = portMap
  BY <1>8 DEF StarterStep, BindFails, Bind, Register
<1>9. ASSUME NEW c, EditConfig(c) PROVE portMap' = portMap
  BY <1>9 DEF EditConfig
<1>10. ~ Crash /\ \A loads \in BOOLEAN : ~ Boot(loads)
  <2>1. relay \in RelayRecord
    BY DEF TableInv, IndInv, TypeInv
  <2>2. ~ [relay EXCEPT !.crashes = @ + 1, !.up = FALSE].up
    BY <2>1 DEF RelayRecord
  <2> QED BY <2>2, Zenon DEF Crash, Boot
<1>11. CASE UNCHANGED vars
  BY <1>1, <1>11 DEF vars
<1> QED BY <1>1, <1>2, <1>6, <1>7, <1>8, <1>9, <1>10, <1>11 DEF Next, Goroutine

\* rejectCustomerChange, UpdatePortMapping and createPort's test for an existing
\* mapping: no request of an orderly client, and no reload, moves a port that
\* the current configuration defines to another customer.
THEOREM TenantsKept == Spec => ConfiguredTenantKept
<1>1. TableInv /\ [Next]_vars =>
        [Orderly /\ relay.up /\ relay'.up =>
           \A p \in DOMAIN portMap \cap DOMAIN portMap' :
             portMap'[p].customerID # portMap[p].customerID
               => p \notin DOMAIN currentCfg.ports]_vars
  BY TenantStep
<1> QED BY <1>1, TableInductive, PTL DEF Spec, ConfiguredTenantKept
=============================================================================
