---------------------------- MODULE AgentTunnel -----------------------------
(***************************************************************************)
(* The agent's connection to its relay: TunnelClient (client_impl.go), the *)
(* supervision loop TunnelRunner.Start (tunnel_impl.go) and the shutdown   *)
(* sequence of cmd/agent.                                                  *)
(*                                                                         *)
(* Three kinds of process: the goroutine that runs Start ("tunnel"), the   *)
(* application that stops it and closes the client ("app"), and one        *)
(* heartbeat goroutine per connection.  Session n is the n-th MuxSession   *)
(* the client dialed; here it is only open or closed, over a link that is  *)
(* up, silent (the relay answers nothing) or lost (reads fail).            *)
(* The streams accepted in between do not touch this state.                *)
(***************************************************************************)
EXTENDS Integers, FiniteSets

CONSTANTS
  MaxSessions,          \* bound: dials that succeed; the relay is down after
  MaxReconnectAttempts, \* ClientConfig.MaxReconnectAttempts
  Heartbeats,           \* HeartbeatInterval > 0
  CallSets              \* the shutdowns an application may choose from; see
                        \* app.calls

ASSUME AgentAssumption ==
  /\ MaxSessions \in Nat \ {0}
  /\ MaxReconnectAttempts \in Nat \ {0}
  /\ Heartbeats \in BOOLEAN
  /\ CallSets \subseteq (SUBSET {"cancel", "stop", "close"}) \ {{}}

Session == 1 .. MaxSessions

VARIABLES
  client,       \* TunnelClient: closed, mux, heartbeatStop (0: nil)
  session,      \* the sessions dialed so far
  hb,           \* runHeartbeat of each session
  disconnectCh, \* holds its token
  ctxDone,      \* the context given to Start is canceled
  tunnel,       \* TunnelRunner.Start
  app           \* the application; calls is what it calls, in the order cancel
                \* (of Start's context), Stop, Close; cmd/agent makes all three

vars == <<client, session, hb, disconnectCh, ctxDone, tunnel, app>>

TunnelPC == {"start", "loop", "accept", "exited", "select", "teardown", "drop",
             "backoff", "connect", "dial", "install", "beat", "done"}
AppPC == {"run", "stop", "stopping", "close", "teardown", "drop", "returned"}

\* After the first Connect of cmd/agent, which does not start the tunnel
\* unless it succeeded.
Init ==
  /\ client = [closed |-> FALSE, mux |-> 1, heartbeatStop |-> 1]
  /\ session = [n \in Session |-> [mux |-> IF n = 1 THEN "open" ELSE "none",
                                   link |-> "up"]]
  /\ hb = [n \in Session |->
             [pc |-> IF n > 1 THEN "none" ELSE IF Heartbeats THEN "tick" ELSE "done",
              stop |-> FALSE, mux |-> 0]]
  /\ disconnectCh = FALSE
  /\ ctxDone = FALSE
  /\ tunnel = [pc |-> "start", mux |-> 0, held |-> 0, attempt |-> 0,
               canceled |-> FALSE]
  /\ app \in [pc : {"run"}, held : {0}, stopped : {FALSE}, calls : CallSets]

-----------------------------------------------------------------------------
\* TunnelRunner.Start and acceptLoop

\* Start: acceptStopped, which Stop waits on, exists from here on.
Start ==
  /\ tunnel.pc = "start"
  /\ tunnel' = [tunnel EXCEPT !.pc = "loop"]
  /\ UNCHANGED <<client, session, hb, disconnectCh, ctxDone, app>>

\* acceptLoop: a new acceptCtx, then the session of the moment.
AcceptLoop ==
  /\ tunnel.pc = "loop"
  /\ tunnel' = [tunnel EXCEPT !.canceled = FALSE, !.mux = client.mux,
                              !.pc = IF client.mux = 0 THEN "exited" ELSE "accept"]
  /\ UNCHANGED <<client, session, hb, disconnectCh, ctxDone, app>>

\* Mutants: AcceptStream that does not see the context, or the closed session.
AcceptExit_IgnoresCtx ==
  /\ tunnel.pc = "accept"
  /\ session[tunnel.mux].mux = "closed"
  /\ tunnel' = [tunnel EXCEPT !.pc = "exited"]
  /\ UNCHANGED <<client, session, hb, disconnectCh, ctxDone, app>>
AcceptExit_IgnoresClose ==
  /\ tunnel.pc = "accept"
  /\ tunnel.canceled \/ ctxDone
  /\ tunnel' = [tunnel EXCEPT !.pc = "exited"]
  /\ UNCHANGED <<client, session, hb, disconnectCh, ctxDone, app>>

\* AcceptStream fails: the session is closed or acceptCtx is canceled.
AcceptExit ==
  /\ tunnel.pc = "accept"
  /\ session[tunnel.mux].mux = "closed" \/ tunnel.canceled \/ ctxDone
  /\ tunnel' = [tunnel EXCEPT !.pc = "exited"]
  /\ UNCHANGED <<client, session, hb, disconnectCh, ctxDone, app>>

\* if ctx.Err() != nil { return nil }
Exited ==
  /\ tunnel.pc = "exited"
  /\ tunnel' = [tunnel EXCEPT !.pc = IF ctxDone THEN "done" ELSE "select"]
  /\ UNCHANGED <<client, session, hb, disconnectCh, ctxDone, app>>

\* select { ctx.Done, DisconnectCh, default }
SelectDone ==
  /\ tunnel.pc = "select"
  /\ ctxDone
  /\ tunnel' = [tunnel EXCEPT !.pc = "done"]
  /\ UNCHANGED <<client, session, hb, disconnectCh, ctxDone, app>>
SelectReconnect ==
  /\ tunnel.pc = "select"
  /\ disconnectCh \/ ~ctxDone
  /\ tunnel' = [tunnel EXCEPT !.pc = "teardown", !.attempt = 0]
  /\ disconnectCh' = FALSE
  /\ UNCHANGED <<client, session, hb, ctxDone, app>>

-----------------------------------------------------------------------------
\* TunnelClient.teardown, by Reconnect and by Close

\* Under c.mu: cancel the heartbeat, take the session out of the client.
Detach ==
  /\ client' = [client EXCEPT !.mux = 0, !.heartbeatStop = 0]
  /\ hb' = IF client.heartbeatStop = 0 THEN hb
           ELSE [hb EXCEPT ![client.heartbeatStop].stop = TRUE]

\* mux.GoAway, mux.Close, conn.Close
CloseSession(n) ==
  session' = IF n = 0 THEN session ELSE [session EXCEPT ![n].mux = "closed"]

\* Mutant: Reconnect leaves the old session to its own fate.
TunnelDrop_NoClose ==
  /\ tunnel.pc = "drop"
  /\ tunnel' = [tunnel EXCEPT !.pc = "backoff", !.held = 0]
  /\ UNCHANGED <<client, session, hb, disconnectCh, ctxDone, app>>

TunnelTeardown ==
  /\ tunnel.pc = "teardown"
  /\ Detach
  /\ tunnel' = [tunnel EXCEPT !.pc = "drop", !.held = client.mux]
  /\ UNCHANGED <<session, disconnectCh, ctxDone, app>>
TunnelDrop ==
  /\ tunnel.pc = "drop"
  /\ CloseSession(tunnel.held)
  /\ tunnel' = [tunnel EXCEPT !.pc = "backoff", !.held = 0]
  /\ UNCHANGED <<client, hb, disconnectCh, ctxDone, app>>

-----------------------------------------------------------------------------
\* TunnelClient.Reconnect after its teardown, and Connect

Retry(t) == [t EXCEPT !.pc = "backoff", !.attempt = @ + 1]

\* Mutant: one attempt too many.
Backoff_OffByOne ==
  /\ tunnel.pc = "backoff"
  /\ tunnel.attempt <= MaxReconnectAttempts
  /\ tunnel' = [tunnel EXCEPT !.pc = "connect"]
  /\ UNCHANGED <<client, session, hb, disconnectCh, ctxDone, app>>

\* case <-time.After(delay)
Backoff ==
  /\ tunnel.pc = "backoff"
  /\ tunnel.attempt < MaxReconnectAttempts
  /\ tunnel' = [tunnel EXCEPT !.pc = "connect"]
  /\ UNCHANGED <<client, session, hb, disconnectCh, ctxDone, app>>

\* case <-ctx.Done(), or the attempts are exhausted: Start returns the error.
GiveUp ==
  /\ tunnel.pc = "backoff"
  /\ ctxDone \/ tunnel.attempt = MaxReconnectAttempts
  /\ tunnel' = [tunnel EXCEPT !.pc = "done"]
  /\ UNCHANGED <<client, session, hb, disconnectCh, ctxDone, app>>

\* Connect: the closed test under c.mu ...
Connect ==
  /\ tunnel.pc = "connect"
  /\ tunnel' = IF client.closed THEN Retry(tunnel) ELSE [tunnel EXCEPT !.pc = "dial"]
  /\ UNCHANGED <<client, session, hb, disconnectCh, ctxDone, app>>

\* ... the dial and the new session, without it ...
DialFails ==
  /\ tunnel.pc = "dial"
  /\ tunnel' = Retry(tunnel)
  /\ UNCHANGED <<client, session, hb, disconnectCh, ctxDone, app>>
Dialed(n) ==
  /\ tunnel.pc = "dial"
  /\ session[n].mux = "none" /\ \A k \in 1 .. (n - 1) : session[k].mux # "none"
  /\ session' = [session EXCEPT ![n].mux = "open"]
  /\ tunnel' = [tunnel EXCEPT !.pc = "install", !.held = n]
  /\ UNCHANGED <<client, hb, disconnectCh, ctxDone, app>>

\* ... then c.mux under c.mu, with no second look at closed ...
Install ==
  /\ tunnel.pc = "install"
  /\ client' = [client EXCEPT !.mux = tunnel.held]
  /\ tunnel' = [tunnel EXCEPT !.pc = "beat"]
  /\ UNCHANGED <<session, hb, disconnectCh, ctxDone, app>>

\* ... and c.heartbeatStop under c.mu again.
StartHeartbeat ==
  /\ tunnel.pc = "beat"
  /\ client' = [client EXCEPT !.heartbeatStop = tunnel.held]
  /\ hb' = [hb EXCEPT ![tunnel.held].pc = IF Heartbeats THEN "tick" ELSE "done"]
  /\ tunnel' = [tunnel EXCEPT !.pc = "loop", !.held = 0]
  /\ UNCHANGED <<session, disconnectCh, ctxDone, app>>

-----------------------------------------------------------------------------
\* runHeartbeat(n); select picks either case when both are ready

HeartbeatStop(n) ==
  /\ hb[n].pc = "tick"
  /\ hb[n].stop
  /\ hb' = [hb EXCEPT ![n].pc = "done"]
  /\ UNCHANGED <<client, session, disconnectCh, ctxDone, tunnel, app>>

\* The ticker: Ping whatever session the client has by now.
HeartbeatTick(n) ==
  /\ hb[n].pc = "tick"
  /\ hb' = [hb EXCEPT ![n].pc = IF client.mux = 0 THEN "done" ELSE "ping",
                      ![n].mux = client.mux]
  /\ UNCHANGED <<client, session, disconnectCh, ctxDone, tunnel, app>>

Pong(n) ==
  /\ hb[n].pc = "ping"
  /\ session[hb[n].mux] = [mux |-> "open", link |-> "up"]
  /\ hb' = [hb EXCEPT ![n].pc = "tick"]
  /\ UNCHANGED <<client, session, disconnectCh, ctxDone, tunnel, app>>

\* Ping fails: timeout, canceled context or closed session.
PingFails(n) ==
  /\ hb[n].pc = "ping"
  /\ hb' = [hb EXCEPT ![n].pc = "done"]
  /\ disconnectCh' = TRUE
  /\ UNCHANGED <<client, session, ctxDone, tunnel, app>>

-----------------------------------------------------------------------------
\* The application

AfterStop == IF "close" \in app.calls THEN "close" ELSE "returned"

\* A signal, or Start has returned: cancel() if the application calls it.
Shutdown ==
  /\ app.pc = "run"
  /\ ctxDone' = ("cancel" \in app.calls)
  /\ app' = [app EXCEPT !.pc = IF "stop" \in app.calls THEN "stop" ELSE AfterStop]
  /\ UNCHANGED <<client, session, hb, disconnectCh, tunnel>>

\* Stop: cancelAccept(), which has an effect only within acceptLoop.  Before
\* Start there is nothing to wait for.
Stop ==
  /\ app.pc = "stop"
  /\ app' = [app EXCEPT !.pc = IF tunnel.pc = "start" THEN AfterStop ELSE "stopping"]
  /\ tunnel' = [tunnel EXCEPT !.canceled = TRUE]
  /\ UNCHANGED <<client, session, hb, disconnectCh, ctxDone>>

\* case <-stopped
Stopped ==
  /\ app.pc = "stopping"
  /\ tunnel.pc = "done"
  /\ app' = [app EXCEPT !.pc = AfterStop, !.stopped = TRUE]
  /\ UNCHANGED <<client, session, hb, disconnectCh, ctxDone, tunnel>>

\* case <-ctx.Done(): the deadline of the caller of Stop
StopTimesOut ==
  /\ app.pc = "stopping"
  /\ app' = [app EXCEPT !.pc = AfterStop]
  /\ UNCHANGED <<client, session, hb, disconnectCh, ctxDone, tunnel>>

\* Close
CloseClient ==
  /\ app.pc = "close"
  /\ client' = [client EXCEPT !.closed = TRUE]
  /\ app' = [app EXCEPT !.pc = "teardown"]
  /\ UNCHANGED <<session, hb, disconnectCh, ctxDone, tunnel>>

\* Mutant: Close leaves the heartbeat running.
CloseTeardown_NoStop ==
  /\ app.pc = "teardown"
  /\ client' = [client EXCEPT !.mux = 0, !.heartbeatStop = 0]
  /\ app' = [app EXCEPT !.pc = "drop", !.held = client.mux]
  /\ UNCHANGED <<session, hb, disconnectCh, ctxDone, tunnel>>

CloseTeardown ==
  /\ app.pc = "teardown"
  /\ Detach
  /\ app' = [app EXCEPT !.pc = "drop", !.held = client.mux]
  /\ UNCHANGED <<session, disconnectCh, ctxDone, tunnel>>
CloseDrop ==
  /\ app.pc = "drop"
  /\ CloseSession(app.held)
  /\ app' = [app EXCEPT !.pc = "returned", !.held = 0]
  /\ UNCHANGED <<client, hb, disconnectCh, ctxDone, tunnel>>

-----------------------------------------------------------------------------
\* The network and the session's own loops

LinkFails(n, how) ==
  /\ session[n].mux # "none"
  /\ session[n].link = "up" \/ (session[n].link = "silent" /\ how = "lost")
  /\ session' = [session EXCEPT ![n].link = how]
  /\ UNCHANGED <<client, hb, disconnectCh, ctxDone, tunnel, app>>

\* readLoop or writeLoop meets the error and calls MuxSession.Close.
SessionDies(n) ==
  /\ session[n].mux = "open"
  /\ session[n].link = "lost"
  /\ session' = [session EXCEPT ![n].mux = "closed"]
  /\ UNCHANGED <<client, hb, disconnectCh, ctxDone, tunnel, app>>

-----------------------------------------------------------------------------
TunnelStep ==
  \/ Start \/ AcceptLoop \/ AcceptExit \/ Exited \/ SelectDone \/ SelectReconnect
  \/ TunnelTeardown \/ TunnelDrop \/ Backoff \/ GiveUp
  \/ Connect \/ DialFails \/ Install \/ StartHeartbeat
  \/ \E n \in Session : Dialed(n)
HeartbeatStep(n) ==
  HeartbeatStop(n) \/ HeartbeatTick(n) \/ Pong(n) \/ PingFails(n)
AppStep ==
  Stop \/ Stopped \/ StopTimesOut \/ CloseClient \/ CloseTeardown \/ CloseDrop

Next ==
  \/ TunnelStep \/ AppStep \/ Shutdown
  \/ \E n \in Session :
       \/ HeartbeatStep(n) \/ SessionDies(n)
       \/ \E how \in {"silent", "lost"} : LinkFails(n, how)

Spec == Init /\ [][Next]_vars

\* Every goroutine that can run does; the application makes its first call, and
\* the network fails, only if they please.
Fairness ==
  /\ WF_vars(TunnelStep) /\ WF_vars(AppStep)
  /\ \A n \in Session : WF_vars(HeartbeatStep(n)) /\ WF_vars(SessionDies(n))
FairSpec == Spec /\ Fairness

-----------------------------------------------------------------------------
\* Properties

\* Types; in particular Reconnect makes at most MaxReconnectAttempts attempts.
TypeOK ==
  /\ client \in [closed : BOOLEAN, mux : Session \cup {0},
                 heartbeatStop : Session \cup {0}]
  /\ session \in [Session -> [mux : {"none", "open", "closed"},
                              link : {"up", "silent", "lost"}]]
  /\ hb \in [Session -> [pc : {"none", "tick", "ping", "done"}, stop : BOOLEAN,
                         mux : Session \cup {0}]]
  /\ disconnectCh \in BOOLEAN /\ ctxDone \in BOOLEAN
  /\ tunnel \in [pc : TunnelPC, mux : Session \cup {0}, held : Session \cup {0},
                 attempt : 0 .. MaxReconnectAttempts, canceled : BOOLEAN]
  /\ app \in [pc : AppPC, held : Session \cup {0}, stopped : BOOLEAN,
              calls : CallSets]

\* A session that is open and that nobody is about to close.
Live(n) ==
  /\ session[n].mux = "open"
  /\ ~(tunnel.pc = "drop" /\ tunnel.held = n)
  /\ ~(app.pc = "drop" /\ app.held = n)
Beating(n) == hb[n].pc \in {"tick", "ping"} /\ ~hb[n].stop

\* Reconnect never leaves a session or its heartbeat behind: the agent has at
\* most one of each, whatever Close and link failures cross the reconnection.
OneSession ==
  /\ Cardinality({n \in Session : Live(n)}) <= 1
  /\ Cardinality({n \in Session : Beating(n)}) <= 1

\* A shutdown in which Stop did not time out leaves nothing open: Start returns
\* with its session up, and Close then ends it and its heartbeat.
ShutdownIsClean ==
  app.pc = "returned" /\ app.stopped /\ client.closed =>
    \A n \in Session : ~Live(n) /\ ~Beating(n)

\* Canceling its context ends Start, wherever it is: accepting, waiting out a
\* backoff or connecting.  (Stop alone does not: Start takes the end of its
\* accept loop for a lost connection.)
CancelStops == ctxDone ~> (tunnel.pc = "done")

\* A session whose link is lost is replaced, or Start returns.
LostLinkReplaced ==
  \A n \in Session :
    (tunnel.mux = n /\ session[n].link = "lost")
      ~> (tunnel.pc = "done" \/ tunnel.mux # n)

\* "The tunnel supervision loop reads this to trigger reconnection": a failed
\* heartbeat's token is taken by Start, unless it returns.
DisconnectHeard == disconnectCh ~> (~disconnectCh \/ tunnel.pc = "done")
=============================================================================
