----------------------------- MODULE PortAdmin ------------------------------
(***************************************************************************)
(* The relay's port mappings and everything that changes them: the admin   *)
(* API (admin.go), configuration reload (admin_reload.go), the router's    *)
(* table (router_impl.go), the client listeners (client_listener.go), the  *)
(* sidecar file (store.go) and the start of the process (cmd/relay).       *)
(*                                                                         *)
(* Processes: the HTTP handlers, one per request, together with the reload *)
(* of a SIGHUP; the StartPort goroutines they and the server launch; the   *)
(* operator who edits relay.yaml; and the machine, which may crash.  The   *)
(* router, the listeners and the sidecar each have a mutex that is held    *)
(* for one call, so a step of this module is one such call.  Only reloads  *)
(* exclude each other.                                                     *)
(*                                                                         *)
(* Abstractions.  Requests that fail validation change nothing and are     *)
(* left out.  The listen address, which the router only records, is left   *)
(* out: a port number is one socket.                                       *)
(***************************************************************************)
EXTENDS Naturals, FiniteSets

CONSTANTS
  Port, Customer, Service,
  MaxRequests,  \* bound: admin requests and reloads
  Scenarios     \* the environments a run explores, with their bounds; see app

Entry == [customerID : Customer, service : Service, maxStreams : Nat]
IsMap(m) == DOMAIN m \subseteq Port /\ \A p \in DOMAIN m : m[p] \in Entry
IsConfig(c) ==
  IsMap(c.ports) /\ c.limits \in [Customer -> Nat] /\ c.valid \in BOOLEAN

ASSUME PortAssumption ==
  /\ MaxRequests \in Nat
  /\ \A s \in Scenarios :
       /\ s.workers \in Nat \ {0} /\ s.crashes \in Nat /\ s.edits \in Nat
       /\ s.store \in BOOLEAN /\ s.overwrite \in BOOLEAN
       /\ \A c \in s.creates : c[1] \in Port /\ c[2] \in Entry
       /\ \A u \in s.updates :
            /\ u[1] \in Port
            /\ u[2].service \in Service \cup {""}
            /\ \A n \in u[2].maxStreams : n \in Nat
       /\ s.deletes \subseteq Port /\ s.foreign \subseteq Port
       /\ \A c \in s.configs : IsConfig(c)

Request == 1 .. MaxRequests

VARIABLES
  portMap,    \* PortRouter.portMap
  listeners,  \* the ports of ClientListener.listeners
  sockets,    \* the ports this process has bound
  starter,    \* the StartPort goroutine of each request and port; those of the
              \* server's start count as request 0
  limiters,   \* ClientListener.rateLimiters: requests per second, 0 for none
  currentCfg, \* AdminServer.currentCfg
  sidecar,    \* the sidecar file
  yaml,       \* relay.yaml
  relay,      \* the process: up; store, whether it has a SidecarStore; crashes
              \* and edits so far; unsaved, whether the last Save failed
  req,        \* the requests
  app         \* the scenario: how many requests run at once (workers), whether
              \* there is a store_path, what may be POSTed, PUT, DELETEd and
              \* written to relay.yaml, whether a mapped port may be POSTed
              \* (overwrite), the ports that other programs hold (foreign), and
              \* how often the process dies and relay.yaml is edited

vars == <<portMap, listeners, sockets, starter, limiters, currentCfg, sidecar,
          yaml, relay, req, app>>

Empty == [p \in {} |-> 0]
NoConfig == [ports |-> Empty, limits |-> [c \in Customer |-> 0], valid |-> FALSE]

Unused == [pc |-> "unused", op |-> "none", port |-> 0, customerID |-> "",
           change |-> Empty, cfg |-> NoConfig, todo |-> {}, ports |-> Empty]

Active(r) == req[r].pc \notin {"unused", "done"}
Idle == \A r \in Request : ~ Active(r)

\* The next request arrives, while fewer than app.workers are in progress.
Arrives(r) ==
  /\ relay.up
  /\ req[r].pc = "unused"
  /\ \A q \in Request : q < r => req[q].pc # "unused"
  /\ Cardinality({q \in Request : Active(q)}) < app.workers

\* Request r goes on at pc; with the given other fields.
Goto(r, pc) == [req EXCEPT ![r].pc = pc]
Done(r) == [req EXCEPT ![r] = [Unused EXCEPT !.pc = "done"]]

-----------------------------------------------------------------------------
\* PortRouter

With(m, p, e) == [q \in DOMAIN m \cup {p} |-> IF q = p THEN e ELSE m[q]]
Without(m, p) == [q \in DOMAIN m \ {p} |-> m[q]]

\* AddPortMapping overwrites: there is no test for an existing mapping.
AddPortMapping(p, e) == portMap' = With(portMap, p, e)

\* UpdatePortMapping: customerID is carried over; false is ErrPortNotFound.
CanUpdate(p) == p \in DOMAIN portMap
UpdatePortMapping(p, service, maxStreams) ==
  portMap' = With(portMap, p, [customerID |-> portMap[p].customerID,
                               service |-> service, maxStreams |-> maxStreams])

\* RemovePortMapping: an error, and no change, unless customerID has the port.
CanRemove(customerID, p) ==
  p \in DOMAIN portMap /\ portMap[p].customerID = customerID
RemovePortMapping(customerID, p) ==
  portMap' = IF CanRemove(customerID, p) THEN Without(portMap, p) ELSE portMap

-----------------------------------------------------------------------------
\* ClientListener

\* The goroutine that runs StartPort for request r and port p.
GoStartPort(r, p) == starter' = [starter EXCEPT ![r][p] = "bind"]

\* Somebody is at the select on the goroutine's error channel.
Awaited(r, p) ==
  r \in Request /\ req[r].pc = "select" /\ req[r].port = p

\* StartPort: net.Listen fails; the error stays in errCh for the select.
BindFails(r, p) ==
  /\ starter[r][p] = "bind"
  /\ p \in sockets \cup app.foreign
  /\ starter' = [starter EXCEPT ![r][p] = IF Awaited(r, p) THEN "failed" ELSE "none"]
  /\ UNCHANGED <<portMap, listeners, sockets, limiters, currentCfg, sidecar,
                 yaml, relay, req, app>>

\* StartPort: net.Listen succeeds.
Bind(r, p) ==
  /\ starter[r][p] = "bind"
  /\ p \notin sockets \cup app.foreign
  /\ starter' = [starter EXCEPT ![r][p] = "register"]
  /\ sockets' = sockets \cup {p}
  /\ UNCHANGED <<portMap, listeners, limiters, currentCfg, sidecar, yaml, relay,
                 req, app>>

\* Mutant: StartPortWithListener that accepts without registering.
Register_Lost(r, p) ==
  /\ starter[r][p] = "register"
  /\ starter' = [starter EXCEPT ![r][p] = "none"]
  /\ UNCHANGED <<portMap, listeners, sockets, limiters, currentCfg, sidecar,
                 yaml, relay, req, app>>

\* StartPortWithListener: the listener is registered and accepts from here on.
Register(r, p) ==
  /\ starter[r][p] = "register"
  /\ starter' = [starter EXCEPT ![r][p] = "none"]
  /\ listeners' = listeners \cup {p}
  /\ UNCHANGED <<portMap, sockets, limiters, currentCfg, sidecar, yaml, relay,
                 req, app>>

\* StopPort: an error, and no change, unless the listener is registered.
StopPort(p) ==
  /\ sockets' = IF p \in listeners THEN sockets \ {p} ELSE sockets
  /\ listeners' = listeners \ {p}

-----------------------------------------------------------------------------
\* createPort, up to the select

CreatePort(r, p, e) ==
  /\ Arrives(r)
  /\ <<p, e>> \in app.creates
  /\ app.overwrite \/ p \notin DOMAIN portMap
  /\ AddPortMapping(p, e)
  /\ GoStartPort(r, p)
  /\ req' = [req EXCEPT ![r] = [Unused EXCEPT !.pc = "select", !.op = "create",
                                              !.port = p, !.customerID = e.customerID]]
  /\ UNCHANGED <<listeners, sockets, limiters, currentCfg, sidecar, yaml, relay, app>>

\* The select of createPort and of addPort takes the error: the mapping is
\* rolled back; createPort then answers 409, a reload goes on.
StartFailed(r) ==
  /\ req[r].pc = "select"
  /\ starter[r][req[r].port] = "failed"
  /\ starter' = [starter EXCEPT ![r][req[r].port] = "none"]
  /\ RemovePortMapping(req[r].customerID, req[r].port)
  /\ req' = IF req[r].op = "create" THEN Done(r) ELSE Goto(r, "apply")
  /\ UNCHANGED <<listeners, sockets, limiters, currentCfg, sidecar, yaml, relay, app>>

\* The select takes the 50 ms timer, which on a busy host may come before the
\* bind, or before the error is looked at: the port counts as started.
StartTimeout(r) ==
  /\ req[r].pc = "select"
  /\ starter' = [starter EXCEPT ![r][req[r].port] = IF @ = "failed" THEN "none" ELSE @]
  /\ req' = Goto(r, IF req[r].op = "create" THEN "list" ELSE "apply")
  /\ UNCHANGED <<portMap, listeners, sockets, limiters, currentCfg, sidecar,
                 yaml, relay, app>>

-----------------------------------------------------------------------------
\* updatePort

\* GetPort, and the fields the request leaves out merged from what it returned.
\* Mutant: an omitted service is taken for a value.
MergePortUpdate_NoDefault(existing, change) ==
  [service |-> change.service,
   maxStreams |-> IF change.maxStreams = {} THEN existing.maxStreams
                  ELSE CHOOSE n \in change.maxStreams : TRUE]
MergePortUpdate(existing, change) ==
  [service |-> IF change.service = "" THEN existing.service ELSE change.service,
   maxStreams |-> IF change.maxStreams = {} THEN existing.maxStreams
                  ELSE CHOOSE n \in change.maxStreams : TRUE]

UpdatePort(r, p, change) ==
  /\ Arrives(r)
  /\ <<p, change>> \in app.updates
  /\ req' = IF p \notin DOMAIN portMap THEN Done(r)
            ELSE [req EXCEPT ![r] = [Unused EXCEPT !.pc = "update", !.op = "update",
                    !.port = p, !.change = MergePortUpdate(portMap[p], change)]]
  /\ UNCHANGED <<portMap, listeners, sockets, starter, limiters, currentCfg,
                 sidecar, yaml, relay, app>>

UpdateApply(r) ==
  /\ req[r].pc = "update"
  /\ IF CanUpdate(req[r].port)
       THEN /\ UpdatePortMapping(req[r].port, req[r].change.service, req[r].change.maxStreams)
            /\ req' = Goto(r, "list")
       ELSE /\ req' = Done(r)
            /\ UNCHANGED portMap
  /\ UNCHANGED <<listeners, sockets, starter, limiters, currentCfg, sidecar,
                 yaml, relay, app>>

-----------------------------------------------------------------------------
\* deletePort; removePort of a reload ends in the same two calls

DeletePort(r, p) ==
  /\ Arrives(r)
  /\ p \in app.deletes
  /\ req' = IF p \notin DOMAIN portMap THEN Done(r)
            ELSE [req EXCEPT ![r] = [Unused EXCEPT !.pc = "remove", !.op = "delete",
                    !.port = p, !.customerID = portMap[p].customerID]]
  /\ UNCHANGED <<portMap, listeners, sockets, starter, limiters, currentCfg,
                 sidecar, yaml, relay, app>>

\* Mutant: the listener is stopped although the mapping could not be removed.
RemoveMapping_IgnoresError(r) ==
  /\ req[r].pc = "remove"
  /\ RemovePortMapping(req[r].customerID, req[r].port)
  /\ req' = Goto(r, "stop")
  /\ UNCHANGED <<listeners, sockets, starter, limiters, currentCfg, sidecar,
                 yaml, relay, app>>

\* When RemovePortMapping fails, deletePort ends and a reload takes the next
\* port; the listener is left alone.
RemoveMapping(r) ==
  /\ req[r].pc = "remove"
  /\ RemovePortMapping(req[r].customerID, req[r].port)
  /\ req' = IF CanRemove(req[r].customerID, req[r].port) THEN Goto(r, "stop")
            ELSE IF req[r].op = "delete" THEN Done(r)
            ELSE Goto(r, "apply")
  /\ UNCHANGED <<listeners, sockets, starter, limiters, currentCfg, sidecar,
                 yaml, relay, app>>

\* Mutant: deletePort that does not persist.
StopListener_NoSave(r) ==
  /\ req[r].pc = "stop"
  /\ StopPort(req[r].port)
  /\ req' = IF req[r].op = "delete" THEN Done(r) ELSE Goto(r, "apply")
  /\ UNCHANGED <<portMap, starter, limiters, currentCfg, sidecar, yaml, relay, app>>
StopListener(r) ==
  /\ req[r].pc = "stop"
  /\ StopPort(req[r].port)
  /\ req' = Goto(r, IF req[r].op = "delete" THEN "list" ELSE "apply")
  /\ UNCHANGED <<portMap, starter, limiters, currentCfg, sidecar, yaml, relay, app>>

-----------------------------------------------------------------------------
\* SaveCurrentState(ListPorts()), at the end of every request

ListPorts(r) ==
  /\ req[r].pc = "list"
  /\ req' = IF relay.store THEN [req EXCEPT ![r].pc = "save", ![r].ports = portMap]
            ELSE Done(r)
  /\ UNCHANGED <<portMap, listeners, sockets, starter, limiters, currentCfg,
                 sidecar, yaml, relay, app>>

\* The file is replaced by a rename, or left as it was; the caller only logs
\* the error.
Save(r, ok) ==
  /\ req[r].pc = "save"
  /\ sidecar' = IF ok THEN req[r].ports ELSE sidecar
  /\ relay' = [relay EXCEPT !.unsaved = ~ ok]
  /\ req' = Done(r)
  /\ UNCHANGED <<portMap, listeners, sockets, starter, limiters, currentCfg,
                 yaml, app>>

-----------------------------------------------------------------------------
\* Reload

\* POST /reload or SIGHUP: waits for reloadMu.
Reload(r) ==
  /\ Arrives(r)
  /\ req' = [req EXCEPT ![r] = [Unused EXCEPT !.pc = "lock", !.op = "reload"]]
  /\ UNCHANGED <<portMap, listeners, sockets, starter, limiters, currentCfg,
                 sidecar, yaml, relay, app>>

Reloading(r) == req[r].op = "reload" /\ req[r].pc # "lock"

\* LoadRelayConfig and BuildPortIndex; a file that fails either changes nothing.
LoadConfig(r) ==
  /\ req[r].pc = "lock"
  /\ \A q \in Request : ~ Reloading(q)
  /\ req' = IF ~ yaml.valid THEN Done(r)
            ELSE [req EXCEPT ![r].pc = "apply", ![r].cfg = yaml,
                             ![r].todo = DOMAIN yaml.ports \cup DOMAIN currentCfg.ports]
  /\ UNCHANGED <<portMap, listeners, sockets, starter, limiters, currentCfg,
                 sidecar, yaml, relay, app>>

\* applyReload, one port of the new configuration: addPort up to its select,
\* rejectCustomerChange, updatePortReload, or nothing.
\* Mutant: a changed customer is applied like a new port.
ApplyPort_NoReject(r, p) ==
  LET old == currentCfg.ports
      new == req[r].cfg.ports
  IN /\ req[r].pc = "apply"
     /\ p \in req[r].todo \cap DOMAIN new
     /\ IF p \notin DOMAIN old \/ old[p].customerID # new[p].customerID
        THEN /\ AddPortMapping(p, new[p])
             /\ GoStartPort(r, p)
             /\ req' = [req EXCEPT ![r].todo = @ \ {p}, ![r].pc = "select", ![r].port = p,
                                   ![r].customerID = new[p].customerID]
        ELSE /\ IF old[p] # new[p] /\ CanUpdate(p)
                  THEN UpdatePortMapping(p, new[p].service, new[p].maxStreams)
                  ELSE UNCHANGED portMap
             /\ req' = [req EXCEPT ![r].todo = @ \ {p}]
             /\ UNCHANGED starter
     /\ UNCHANGED <<listeners, sockets, limiters, currentCfg, sidecar, yaml, relay, app>>
ApplyPort(r, p) ==
  LET old == currentCfg.ports
      new == req[r].cfg.ports
  IN /\ req[r].pc = "apply"
     /\ p \in req[r].todo \cap DOMAIN new
     /\ IF p \notin DOMAIN old
        THEN /\ AddPortMapping(p, new[p])
             /\ GoStartPort(r, p)
             /\ req' = [req EXCEPT ![r].todo = @ \ {p}, ![r].pc = "select", ![r].port = p,
                                   ![r].customerID = new[p].customerID]
        ELSE /\ IF old[p].customerID = new[p].customerID /\ old[p] # new[p] /\ CanUpdate(p)
                  THEN UpdatePortMapping(p, new[p].service, new[p].maxStreams)
                  ELSE UNCHANGED portMap
             /\ req' = [req EXCEPT ![r].todo = @ \ {p}]
             /\ UNCHANGED starter
     /\ UNCHANGED <<listeners, sockets, limiters, currentCfg, sidecar, yaml, relay, app>>

\* applyReload, then one port that left the configuration: removePort.
ApplyRemoval(r, p) ==
  /\ req[r].pc = "apply"
  /\ req[r].todo \cap DOMAIN req[r].cfg.ports = {}
  /\ p \in req[r].todo
  /\ req' = [req EXCEPT ![r].todo = @ \ {p}, ![r].pc = "remove", ![r].port = p,
                        ![r].customerID = currentCfg.ports[p].customerID]
  /\ UNCHANGED <<portMap, listeners, sockets, starter, limiters, currentCfg,
                 sidecar, yaml, relay, app>>

\* applyRateLimitChanges: a limit that is gone leaves the limiter in force.
\* Mutant: the limit of a customer that had one is not changed.
RateLimits_Once(old, new) ==
  [c \in Customer |-> IF new[c] > 0 /\ old[c] = 0 THEN new[c] ELSE limiters[c]]
RateLimits(old, new) ==
  [c \in Customer |-> IF new[c] # old[c] /\ new[c] > 0 THEN new[c] ELSE limiters[c]]

\* The rate limits, and the new configuration becomes the current one.
CommitConfig(r) ==
  /\ req[r].pc = "apply"
  /\ req[r].todo = {}
  /\ limiters' = RateLimits(currentCfg.limits, req[r].cfg.limits)
  /\ currentCfg' = req[r].cfg
  /\ req' = Goto(r, "list")
  /\ UNCHANGED <<portMap, listeners, sockets, starter, sidecar, yaml, relay, app>>

-----------------------------------------------------------------------------
\* The process and its files

EditConfig(c) ==
  /\ relay.edits < app.edits
  /\ c \in app.configs \ {yaml}
  /\ yaml' = c
  /\ relay' = [relay EXCEPT !.edits = @ + 1]
  /\ UNCHANGED <<portMap, listeners, sockets, starter, limiters, currentCfg,
                 sidecar, req, app>>

Starter0 == [r \in {0} \cup Request |-> [p \in Port |-> "none"]]

\* The process dies, in whatever it was doing; or it is stopped, which leaves
\* the same behind.
Crash ==
  /\ relay.up
  /\ relay.crashes < app.crashes
  /\ relay' = [relay EXCEPT !.crashes = @ + 1, !.up = FALSE]
  /\ portMap' = Empty
  /\ listeners' = {}
  /\ sockets' = {}
  /\ starter' = Starter0
  /\ limiters' = [c \in Customer |-> 0]
  /\ currentCfg' = NoConfig
  /\ req' = [r \in Request |-> IF Active(r) THEN [Unused EXCEPT !.pc = "done"] ELSE req[r]]
  /\ UNCHANGED <<sidecar, yaml, app>>

\* The ports a process starts with: relay.yaml wins over the sidecar.
BootIndex(cfg, saved) ==
  [p \in DOMAIN cfg.ports \cup DOMAIN saved |->
     IF p \in DOMAIN cfg.ports THEN cfg.ports[p] ELSE saved[p]]

\* cmd/relay with a valid file, and Relay.Start: rate limiters, the sidecar
\* unless it cannot be read, all mappings, and a StartPort goroutine for each.
\* The first request arrives when the mappings are in place.
Boot(loads) ==
  /\ ~ relay.up
  /\ yaml.valid
  /\ loads => app.store
  /\ LET index == BootIndex(yaml, IF loads THEN sidecar ELSE Empty) IN
       /\ portMap' = index
       /\ starter' = [starter EXCEPT ![0] =
                        [p \in Port |-> IF p \in DOMAIN index THEN "bind" ELSE "none"]]
  /\ limiters' = yaml.limits
  /\ currentCfg' = yaml
  /\ relay' = [relay EXCEPT !.up = TRUE, !.store = loads, !.unsaved = FALSE]
  /\ UNCHANGED <<listeners, sockets, sidecar, yaml, req, app>>

-----------------------------------------------------------------------------
\* Before the process is started for the first time.
Init ==
  /\ app \in Scenarios
  /\ yaml \in {c \in app.configs : c.valid}
  /\ portMap = Empty
  /\ listeners = {}
  /\ sockets = {}
  /\ starter = Starter0
  /\ limiters = [c \in Customer |-> 0]
  /\ currentCfg = NoConfig
  /\ sidecar = Empty
  /\ relay = [up |-> FALSE, store |-> FALSE, crashes |-> 0, edits |-> 0, unsaved |-> FALSE]
  /\ req = [r \in Request |-> Unused]

RequestStep(r) ==
  \/ StartFailed(r) \/ StartTimeout(r)
  \/ UpdateApply(r) \/ RemoveMapping(r) \/ StopListener(r)
  \/ ListPorts(r) \/ \E ok \in BOOLEAN : Save(r, ok)
  \/ LoadConfig(r) \/ CommitConfig(r)
  \/ \E p \in Port : ApplyPort(r, p) \/ ApplyRemoval(r, p)

StarterStep(r, p) == BindFails(r, p) \/ Bind(r, p) \/ Register(r, p)

Next ==
  \/ \E r \in Request :
       \/ \E c \in UNION {s.creates : s \in Scenarios} : CreatePort(r, c[1], c[2])
       \/ \E u \in UNION {s.updates : s \in Scenarios} : UpdatePort(r, u[1], u[2])
       \/ \E p \in Port : DeletePort(r, p)
       \/ Reload(r)
       \/ RequestStep(r)
  \/ \E r \in {0} \cup Request, p \in Port : StarterStep(r, p)
  \/ \E c \in UNION {s.configs : s \in Scenarios} : EditConfig(c)
  \/ Crash
  \/ \E loads \in BOOLEAN : Boot(loads)

Spec == Init /\ [][Next]_vars

-----------------------------------------------------------------------------
\* Properties

RequestPC == {"unused", "select", "update", "remove", "stop", "list", "save",
              "lock", "apply", "done"}

\* The variables keep their types.
TypeOK ==
  /\ IsMap(portMap) /\ IsMap(sidecar)
  /\ listeners \subseteq Port /\ sockets \subseteq Port
  /\ starter \in [{0} \cup Request -> [Port -> {"none", "bind", "register", "failed"}]]
  /\ limiters \in [Customer -> Nat]
  /\ IsConfig(currentCfg) /\ IsConfig(yaml)
  /\ \A r \in Request : req[r].pc \in RequestPC /\ IsMap(req[r].ports)

Registering(p) == {r \in {0} \cup Request : starter[r][p] = "register"}

\* Every socket the process holds can be closed through StopPort, or is about
\* to be registered by the one goroutine that bound it: whatever creations,
\* deletions and reloads overlap, no listener is lost and none is registered
\* twice (StartPort, StartPortWithListener, StopPort).
ListenersTracked ==
  \A p \in Port :
    /\ p \in sockets <=> p \in listeners \/ Registering(p) # {}
    /\ p \in listeners => Registering(p) = {}
    /\ \A q, r \in Registering(p) : q = r

\* One request at a time, and no POST of a port that is mapped.
Orderly == app.workers = 1 /\ ~ app.overwrite

Same(m, n, p) ==
  (p \in DOMAIN m <=> p \in DOMAIN n) /\ (p \in DOMAIN m => m[p] = n[p])

\* "ports added via the admin API survive process restarts" (store.go): between
\* requests, unless the last Save failed, a restart would bring back exactly
\* the ports that relay.yaml does not define, each as it is; a deleted or
\* rolled back port does not reappear.
RestartRestores ==
  relay.up /\ relay.store /\ Orderly /\ Idle /\ ~ relay.unsaved /\ yaml = currentCfg
    => \A p \in Port \ DOMAIN yaml.ports : Same(portMap, BootIndex(yaml, sidecar), p)

\* Between requests every mapped port has its listener, unless another program
\* holds the port: no sequence of creations, deletions, reloads and restarts
\* leaves a mapping that nothing serves, late binds included.
MappedIsServed ==
  Orderly /\ Idle /\ (\A r \in {0} \cup Request, p \in Port : starter[r][p] = "none")
    => DOMAIN portMap \ app.foreign \subseteq listeners

\* After a start or a reload, the rate limit of every customer that has one is
\* the one of the current configuration (applyRateLimitChanges, cmd/relay).
LimitsInForce ==
  relay.up => \A c \in Customer :
                currentCfg.limits[c] > 0 => limiters[c] = currentCfg.limits[c]

\* "rejects any port whose customer_id differs between old and new config.
\* Rejected ports are left at their original binding" (control-plane.md): no
\* request moves a port that the current configuration defines to another
\* customer.
ConfiguredTenantKept ==
  [][Orderly /\ relay.up /\ relay'.up =>
       \A p \in DOMAIN portMap \cap DOMAIN portMap' :
         portMap'[p].customerID # portMap[p].customerID => p \notin DOMAIN currentCfg.ports]_vars

\* "the tenant boundary established at port creation is immutable, and
\* cross-tenant routing must never change via a config file edit"
\* (admin_reload.go): a reload moves no port from one customer to another.
ReloadKeepsTenant ==
  [][\A r \in Request : Reloading(r) =>
       \A p \in DOMAIN portMap \cap DOMAIN portMap' :
         portMap'[p].customerID = portMap[p].customerID]_portMap

=============================================================================
