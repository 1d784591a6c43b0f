------------------------- MODULE AgentTunnelProofs --------------------------
(***************************************************************************)
(* The safety theorems about AgentTunnel, for any number of sessions and   *)
(* of reconnection attempts and any way of shutting down: the agent never  *)
(* has two live sessions or two heartbeats, and a shutdown whose Stop did  *)
(* not time out leaves neither.                                            *)
(*                                                                         *)
(* None of the properties is inductive: that a session is live says        *)
(* nothing of who will close it.  The invariant names that owner (the      *)
(* client, or the goroutine that has taken the session out of it), and     *)
(* says that the client is empty from the teardown of a Reconnect until    *)
(* its Connect succeeds, so that installing a session overwrites none.     *)
(***************************************************************************)
EXTENDS AgentTunnel, FiniteSetTheorems, TLAPS

\* An open session is the client's, or is held by the one goroutine that dialed
\* it and will install it, or took it out and will close it.
Owned ==
  \A n \in Session : session[n].mux = "open" =>
    \/ client.mux = n
    \/ tunnel.pc \in {"install", "drop"} /\ tunnel.held = n
    \/ app.pc = "drop" /\ app.held = n

\* A heartbeat that has not been told to stop is the one the client can stop.
Stoppable == \A n \in Session : Beating(n) => client.heartbeatStop = n

\* Between the teardown of Reconnect and the end of its Connect.
Vacant ==
  /\ tunnel.pc \in {"drop", "backoff", "connect", "dial", "install"} => client.mux = 0
  /\ tunnel.pc \in {"drop", "backoff", "connect", "dial", "install", "beat"}
       => client.heartbeatStop = 0
  /\ tunnel.pc \in {"install", "beat"} => tunnel.held \in Session

\* Reconnect has an attempt left when it makes one.
Attempts == tunnel.pc \in {"connect", "dial"} => tunnel.attempt < MaxReconnectAttempts

\* Once Stop has seen Start return, what Close takes out of the client is all
\* there is.
ClosedClean ==
  /\ app.stopped => tunnel.pc = "done"
  /\ client.closed => app.pc \in {"teardown", "drop", "returned"}
  /\ app.stopped /\ client.closed /\ app.pc \in {"drop", "returned"}
       => client.mux = 0 /\ client.heartbeatStop = 0

IndInv == TypeOK /\ Owned /\ Stoppable /\ Vacant /\ Attempts /\ ClosedClean

-----------------------------------------------------------------------------
\* Types

ClientRecord == [closed : BOOLEAN, mux : Session \cup {0}, heartbeatStop : Session \cup {0}]
SessionRecord == [mux : {"none", "open", "closed"}, link : {"up", "silent", "lost"}]
HeartbeatRecord ==
  [pc : {"none", "tick", "ping", "done"}, stop : BOOLEAN, mux : Session \cup {0}]
TunnelRecord == [pc : TunnelPC, mux : Session \cup {0}, held : Session \cup {0},
                 attempt : 0 .. MaxReconnectAttempts, canceled : BOOLEAN]
AppRecord == [pc : AppPC, held : Session \cup {0}, stopped : BOOLEAN, calls : CallSets]

\* The type of the next state, variable by variable: one that a step does not
\* change keeps it.
LEMMA TypeRecords ==
  ASSUME TypeOK,
         client' \in ClientRecord \/ client' = client,
         session' \in [Session -> SessionRecord] \/ session' = session,
         hb' \in [Session -> HeartbeatRecord] \/ hb' = hb,
         disconnectCh' \in BOOLEAN \/ disconnectCh' = disconnectCh,
         ctxDone' = ctxDone,
         tunnel' \in TunnelRecord \/ tunnel' = tunnel,
         app' \in AppRecord \/ app' = app
  PROVE  TypeOK'
  BY DEF TypeOK, ClientRecord, SessionRecord, HeartbeatRecord, TunnelRecord, AppRecord

\* teardown under c.mu.
LEMMA DetachTypes ==
  ASSUME TypeOK, Detach
  PROVE  client' \in ClientRecord /\ hb' \in [Session -> HeartbeatRecord]
<1> DEFINE h == client.heartbeatStop
<1>1. client' \in ClientRecord
  BY Zenon DEF TypeOK, Detach, ClientRecord
<1>2. CASE h = 0
  BY <1>1, <1>2 DEF TypeOK, Detach, HeartbeatRecord
<1>3. CASE h \in Session /\ h # 0
  <2> DEFINE t == [hb[h] EXCEPT !.stop = TRUE]
  <2>1. hb' = [hb EXCEPT ![h] = t]
    BY <1>3 DEF Detach
  <2>0. hb[h] \in HeartbeatRecord
    BY <1>3 DEF TypeOK, HeartbeatRecord
  <2>2. t \in HeartbeatRecord
    BY <2>0, Zenon DEF HeartbeatRecord
  <2> HIDE DEF t, h
  <2>3. hb' \in [Session -> HeartbeatRecord]
    BY <2>1, <2>2, Zenon DEF TypeOK, HeartbeatRecord
  <2> QED BY <1>1, <2>3
<1>4. h \in Session \cup {0}
  BY DEF TypeOK
<1> QED BY <1>2, <1>3, <1>4

\* mux.Close.
LEMMA CloseTypes ==
  ASSUME TypeOK, NEW n \in Session \cup {0}, CloseSession(n)
  PROVE  session' \in [Session -> SessionRecord]
<1>1. CASE n = 0
  BY <1>1 DEF TypeOK, CloseSession, SessionRecord
<1>2. CASE n # 0
  <2> DEFINE t == [session[n] EXCEPT !.mux = "closed"]
  <2>1. session' = [session EXCEPT ![n] = t]
    BY <1>2 DEF CloseSession
  <2>2. t \in SessionRecord
    BY <1>2 DEF TypeOK, SessionRecord
  <2> HIDE DEF t
  <2> QED BY <2>1, <2>2, Zenon DEF TypeOK, SessionRecord
<1> QED BY <1>1, <1>2

\* mux.Close closes its session and no other.
LEMMA ClosedSession ==
  ASSUME TypeOK, NEW n, CloseSession(n)
  PROVE  \A k \in Session : session'[k].mux = "open" => session[k].mux = "open" /\ k # n
<1>0. 0 \notin Session
  BY AgentAssumption DEF Session
<1> SUFFICES ASSUME NEW k \in Session, session'[k].mux = "open"
             PROVE  session[k].mux = "open" /\ k # n
  OBVIOUS
<1>1. CASE n = 0
  BY <1>0, <1>1 DEF CloseSession
<1>2. CASE n # 0
  <2>1. CASE k = n
    BY <1>2, <2>1 DEF TypeOK, CloseSession
  <2>2. CASE k # n
    BY <1>2, <2>2 DEF TypeOK, CloseSession
  <2> QED BY <2>1, <2>2
<1> QED BY <1>1, <1>2

\* A failed attempt counts, and there was one left.
LEMMA RetryTypes ==
  ASSUME TypeOK, Attempts, tunnel.pc \in {"connect", "dial"}, tunnel' = Retry(tunnel)
  PROVE  tunnel' \in TunnelRecord
<1> DEFINE a == tunnel.attempt + 1
<1>1. a \in 0 .. MaxReconnectAttempts
  BY AgentAssumption DEF TypeOK, Attempts
<1>2. "backoff" \in TunnelPC
  BY DEF TunnelPC
<1>3. tunnel' = [tunnel EXCEPT !.pc = "backoff", !.attempt = a]
  BY DEF Retry
<1> HIDE DEF a
<1> QED BY <1>1, <1>2, <1>3, Zenon DEF TypeOK, TunnelRecord

-----------------------------------------------------------------------------
\* The first connection.
LEMMA InitGood == Init => IndInv
<1> SUFFICES ASSUME Init PROVE IndInv
  OBVIOUS
<1>0. 1 \in Session /\ 0 \in 0 .. MaxReconnectAttempts
  BY AgentAssumption DEF Session
<1>1. TypeOK
  BY <1>0, AgentAssumption, Zenon DEF Init, TypeOK, TunnelPC, AppPC
<1>2. Owned /\ Vacant /\ Attempts /\ ClosedClean
  BY Zenon DEF Init, Owned, Vacant, Attempts, ClosedClean
<1>3. Stoppable
  BY DEF Init, Stoppable, Beating, Session
<1> QED BY <1>1, <1>2, <1>3 DEF IndInv

-----------------------------------------------------------------------------
\* TunnelRunner.Start and acceptLoop

\* Start: nothing but where the goroutine is.
LEMMA StartGood ==
  ASSUME IndInv, Start
  PROVE  IndInv'
<1>1. TypeOK'
  BY DEF IndInv, TypeOK, TunnelPC, Start
<1>2. Owned'
  BY DEF IndInv, TypeOK, Owned, Vacant, Start
<1>3. Stoppable'
  BY DEF IndInv, TypeOK, Stoppable, Beating, Vacant, Start
<1>4. Vacant' /\ Attempts'
  BY DEF IndInv, TypeOK, Vacant, Attempts, Start
<1>5. ClosedClean'
  BY DEF IndInv, TypeOK, ClosedClean, Vacant, Start
<1> QED BY <1>1, <1>2, <1>3, <1>4, <1>5 DEF IndInv

\* acceptLoop takes the session of the moment.
LEMMA AcceptLoopGood ==
  ASSUME IndInv, AcceptLoop
  PROVE  IndInv'
<1>1. TypeOK'
  <2> DEFINE v == IF client.mux = 0 THEN "exited" ELSE "accept"
  <2>1. tunnel' = [tunnel EXCEPT !.canceled = FALSE, !.mux = client.mux, !.pc = v]
    BY DEF AcceptLoop
  <2>2. v \in TunnelPC
    BY DEF TunnelPC
  <2> HIDE DEF v
  <2> QED BY <2>1, <2>2, Zenon DEF IndInv, TypeOK, AcceptLoop
<1>2. Owned'
  BY DEF IndInv, TypeOK, Owned, Vacant, AcceptLoop
<1>3. Stoppable'
  BY DEF IndInv, TypeOK, Stoppable, Beating, Vacant, AcceptLoop
<1>4. Vacant' /\ Attempts'
  BY DEF IndInv, TypeOK, Vacant, Attempts, AcceptLoop
<1>5. ClosedClean'
  BY DEF IndInv, TypeOK, ClosedClean, Vacant, AcceptLoop
<1> QED BY <1>1, <1>2, <1>3, <1>4, <1>5 DEF IndInv

\* AcceptStream fails.
LEMMA AcceptExitGood ==
  ASSUME IndInv, AcceptExit
  PROVE  IndInv'
<1>1. TypeOK'
  BY DEF IndInv, TypeOK, TunnelPC, AcceptExit
<1>2. Owned'
  BY DEF IndInv, TypeOK, Owned, Vacant, AcceptExit
<1>3. Stoppable'
  BY DEF IndInv, TypeOK, Stoppable, Beating, Vacant, AcceptExit
<1>4. Vacant' /\ Attempts'
  BY DEF IndInv, TypeOK, Vacant, Attempts, AcceptExit
<1>5. ClosedClean'
  BY DEF IndInv, TypeOK, ClosedClean, Vacant, AcceptExit
<1> QED BY <1>1, <1>2, <1>3, <1>4, <1>5 DEF IndInv

\* Start looks at its context.
LEMMA ExitedGood ==
  ASSUME IndInv, Exited
  PROVE  IndInv'
<1>1. TypeOK'
  <2> DEFINE v == IF ctxDone THEN "done" ELSE "select"
  <2>1. tunnel' = [tunnel EXCEPT !.pc = v]
    BY DEF Exited
  <2>2. v \in TunnelPC
    BY DEF TunnelPC
  <2> HIDE DEF v
  <2> QED BY <2>1, <2>2 DEF IndInv, TypeOK, Exited
<1>2. Owned'
  BY DEF IndInv, TypeOK, Owned, Vacant, Exited
<1>3. Stoppable'
  BY DEF IndInv, TypeOK, Stoppable, Beating, Vacant, Exited
<1>4. Vacant' /\ Attempts'
  BY DEF IndInv, TypeOK, Vacant, Attempts, Exited
<1>5. ClosedClean'
  BY DEF IndInv, TypeOK, ClosedClean, Vacant, Exited
<1> QED BY <1>1, <1>2, <1>3, <1>4, <1>5 DEF IndInv

\* The select of Start: ctx.Done.
LEMMA SelectDoneGood ==
  ASSUME IndInv, SelectDone
  PROVE  IndInv'
<1>1. TypeOK'
  BY DEF IndInv, TypeOK, TunnelPC, SelectDone
<1>2. Owned'
  BY DEF IndInv, TypeOK, Owned, Vacant, SelectDone
<1>3. Stoppable'
  BY DEF IndInv, TypeOK, Stoppable, Beating, Vacant, SelectDone
<1>4. Vacant' /\ Attempts'
  BY DEF IndInv, TypeOK, Vacant, Attempts, SelectDone
<1>5. ClosedClean'
  BY DEF IndInv, TypeOK, ClosedClean, Vacant, SelectDone
<1> QED BY <1>1, <1>2, <1>3, <1>4, <1>5 DEF IndInv

\* The select of Start: a token, or default; the attempts start anew.
LEMMA SelectReconnectGood ==
  ASSUME IndInv, SelectReconnect
  PROVE  IndInv'
<1>1. TypeOK'
  <2>1. "teardown" \in TunnelPC /\ 0 \in 0 .. MaxReconnectAttempts
    BY AgentAssumption DEF TunnelPC
  <2> QED BY <2>1, Zenon DEF IndInv, TypeOK, SelectReconnect
<1>2. Owned'
  BY DEF IndInv, TypeOK, Owned, Vacant, SelectReconnect
<1>3. Stoppable'
  BY DEF IndInv, TypeOK, Stoppable, Beating, Vacant, SelectReconnect
<1>4. Vacant' /\ Attempts'
  BY DEF IndInv, TypeOK, Vacant, Attempts, SelectReconnect
<1>5. ClosedClean'
  BY DEF IndInv, TypeOK, ClosedClean, Vacant, SelectReconnect
<1> QED BY <1>1, <1>2, <1>3, <1>4, <1>5 DEF IndInv

-----------------------------------------------------------------------------
\* teardown, Reconnect and Connect

\* teardown by Reconnect: what the client had passes to the goroutine.
LEMMA TunnelTeardownGood ==
  ASSUME IndInv, TunnelTeardown
  PROVE  IndInv'
<1>1. TypeOK'
  <2>1. client' \in ClientRecord /\ hb' \in [Session -> HeartbeatRecord]
    BY DetachTypes DEF IndInv, TunnelTeardown
  <2>2. "drop" \in TunnelPC
    BY DEF TunnelPC
  <2>3. tunnel' \in TunnelRecord
    BY <2>2, Zenon DEF IndInv, TypeOK, TunnelRecord, TunnelTeardown
  <2> QED BY <2>1, <2>3, TypeRecords DEF IndInv, TunnelTeardown
<1>2. Owned'
  BY DEF IndInv, TypeOK, Owned, Vacant, TunnelTeardown, Detach
<1>3. Stoppable'
  BY DEF IndInv, TypeOK, Stoppable, Beating, Vacant, TunnelTeardown, Detach
<1>4. Vacant' /\ Attempts'
  BY DEF IndInv, TypeOK, Vacant, Attempts, TunnelTeardown, Detach
<1>5. ClosedClean'
  BY DEF IndInv, TypeOK, ClosedClean, Vacant, TunnelTeardown, Detach
<1> QED BY <1>1, <1>2, <1>3, <1>4, <1>5 DEF IndInv

\* Reconnect closes the session it took out.
LEMMA TunnelDropGood ==
  ASSUME IndInv, TunnelDrop
  PROVE  IndInv'
<1>1. TypeOK'
  <2>1. session' \in [Session -> SessionRecord]
    BY CloseTypes DEF IndInv, TypeOK, TunnelDrop
  <2>2. "backoff" \in TunnelPC
    BY DEF TunnelPC
  <2>3. tunnel' \in TunnelRecord
    BY <2>2, Zenon DEF IndInv, TypeOK, TunnelRecord, TunnelDrop
  <2> QED BY <2>1, <2>3, TypeRecords DEF IndInv, TunnelDrop
<1>2. Owned'
  BY DEF IndInv, TypeOK, Owned, Vacant, TunnelDrop, CloseSession
<1>3. Stoppable'
  BY DEF IndInv, TypeOK, Stoppable, Beating, Vacant, TunnelDrop, CloseSession
<1>4. Vacant' /\ Attempts'
  BY DEF IndInv, TypeOK, Vacant, Attempts, TunnelDrop, CloseSession
<1>5. ClosedClean'
  BY DEF IndInv, TypeOK, ClosedClean, Vacant, TunnelDrop, CloseSession
<1> QED BY <1>1, <1>2, <1>3, <1>4, <1>5 DEF IndInv

\* The delay of an attempt is over.
LEMMA BackoffGood ==
  ASSUME IndInv, Backoff
  PROVE  IndInv'
<1>1. TypeOK'
  BY DEF IndInv, TypeOK, TunnelPC, Backoff
<1>2. Owned'
  BY DEF IndInv, TypeOK, Owned, Vacant, Backoff
<1>3. Stoppable'
  BY DEF IndInv, TypeOK, Stoppable, Beating, Vacant, Backoff
<1>4. Vacant' /\ Attempts'
  BY DEF IndInv, TypeOK, Vacant, Attempts, Backoff
<1>5. ClosedClean'
  BY DEF IndInv, TypeOK, ClosedClean, Vacant, Backoff
<1> QED BY <1>1, <1>2, <1>3, <1>4, <1>5 DEF IndInv

\* The context is done, or the attempts are.
LEMMA GiveUpGood ==
  ASSUME IndInv, GiveUp
  PROVE  IndInv'
<1>1. TypeOK'
  BY DEF IndInv, TypeOK, TunnelPC, GiveUp
<1>2. Owned'
  BY DEF IndInv, TypeOK, Owned, Vacant, GiveUp
<1>3. Stoppable'
  BY DEF IndInv, TypeOK, Stoppable, Beating, Vacant, GiveUp
<1>4. Vacant' /\ Attempts'
  BY DEF IndInv, TypeOK, Vacant, Attempts, GiveUp
<1>5. ClosedClean'
  BY DEF IndInv, TypeOK, ClosedClean, Vacant, GiveUp
<1> QED BY <1>1, <1>2, <1>3, <1>4, <1>5 DEF IndInv

\* Connect: the test of closed.
LEMMA ConnectGood ==
  ASSUME IndInv, Connect
  PROVE  IndInv'
<1>1. TypeOK'
  <2>1. CASE client.closed
    <3>1. tunnel' = Retry(tunnel) /\ UNCHANGED <<client, session, hb, disconnectCh, ctxDone, app>>
      BY <2>1 DEF Connect
    <3> QED BY <3>1, RetryTypes, TypeRecords DEF IndInv, Connect
  <2>2. CASE ~ client.closed
    <3>1. "dial" \in TunnelPC
      BY DEF TunnelPC
    <3> QED BY <2>2, <3>1 DEF IndInv, TypeOK, Connect
  <2> QED BY <2>1, <2>2
<1>2. Owned'
  BY DEF IndInv, TypeOK, Owned, Vacant, Connect, Retry
<1>3. Stoppable'
  BY DEF IndInv, TypeOK, Stoppable, Beating, Vacant, Connect, Retry
<1>4. Vacant' /\ Attempts'
  BY DEF IndInv, TypeOK, Vacant, Attempts, Connect, Retry
<1>5. ClosedClean'
  BY DEF IndInv, TypeOK, ClosedClean, Vacant, Connect, Retry
<1> QED BY <1>1, <1>2, <1>3, <1>4, <1>5 DEF IndInv

\* The dial fails: one attempt less.
LEMMA DialFailsGood ==
  ASSUME IndInv, DialFails
  PROVE  IndInv'
<1>1. TypeOK'
  BY RetryTypes, TypeRecords DEF IndInv, DialFails
<1>2. Owned'
  BY DEF IndInv, TypeOK, Owned, Vacant, DialFails, Retry
<1>3. Stoppable'
  BY DEF IndInv, TypeOK, Stoppable, Beating, Vacant, DialFails, Retry
<1>4. Vacant' /\ Attempts'
  BY DEF IndInv, TypeOK, Vacant, Attempts, DialFails, Retry
<1>5. ClosedClean'
  BY DEF IndInv, TypeOK, ClosedClean, Vacant, DialFails, Retry
<1> QED BY <1>1, <1>2, <1>3, <1>4, <1>5 DEF IndInv

\* The dial succeeds: the goroutine holds the new session.
LEMMA DialedGood ==
  ASSUME IndInv, NEW n \in Session, Dialed(n)
  PROVE  IndInv'
<1>1. TypeOK'
  <2> DEFINE t == [session[n] EXCEPT !.mux = "open"]
  <2>1. session' = [session EXCEPT ![n] = t]
    BY DEF Dialed
  <2>2. t \in SessionRecord
    BY DEF IndInv, TypeOK, SessionRecord
  <2> HIDE DEF t
  <2>3. session' \in [Session -> SessionRecord]
    BY <2>1, <2>2 DEF IndInv, TypeOK, SessionRecord
  <2>4. "install" \in TunnelPC
    BY DEF TunnelPC
  <2>5. tunnel' \in TunnelRecord
    BY <2>4, Zenon DEF IndInv, TypeOK, TunnelRecord, Dialed
  <2> QED BY <2>3, <2>5, TypeRecords DEF IndInv, Dialed
<1>2. Owned'
  BY DEF IndInv, TypeOK, Owned, Vacant, Dialed
<1>3. Stoppable'
  BY DEF IndInv, TypeOK, Stoppable, Beating, Vacant, Dialed
<1>4. Vacant' /\ Attempts'
  BY DEF IndInv, TypeOK, Vacant, Attempts, Dialed
<1>5. ClosedClean'
  BY DEF IndInv, TypeOK, ClosedClean, Vacant, Dialed
<1> QED BY <1>1, <1>2, <1>3, <1>4, <1>5 DEF IndInv

\* Connect installs the session in a client that has none.
LEMMA InstallGood ==
  ASSUME IndInv, Install
  PROVE  IndInv'
<1>1. TypeOK'
  BY DEF IndInv, TypeOK, TunnelPC, Install
<1>2. Owned'
  <2>1. /\ client' = [client EXCEPT !.mux = tunnel.held] /\ tunnel.pc = "install"
        /\ UNCHANGED <<session, app>>
    BY DEF Install
  <2>2. client'.mux = tunnel.held /\ client.mux = 0
    BY <2>1 DEF IndInv, TypeOK, Vacant
  <2>3. \A k \in Session : client.mux # k
    BY <2>2 DEF Session
  <2> QED BY <2>1, <2>2, <2>3 DEF IndInv, Owned
<1>3. Stoppable'
  BY DEF IndInv, TypeOK, Stoppable, Beating, Vacant, Install
<1>4. Vacant' /\ Attempts'
  BY DEF IndInv, TypeOK, Vacant, Attempts, Install
<1>5. ClosedClean'
  BY DEF IndInv, TypeOK, ClosedClean, Vacant, Install
<1> QED BY <1>1, <1>2, <1>3, <1>4, <1>5 DEF IndInv

\* Connect starts the heartbeat, when the client has none.
LEMMA StartHeartbeatGood ==
  ASSUME IndInv, StartHeartbeat
  PROVE  IndInv'
<1> DEFINE h == tunnel.held
           v == IF Heartbeats THEN "tick" ELSE "done"
           t == [hb[h] EXCEPT !.pc = v]
<1>a. h \in Session /\ client.heartbeatStop = 0 /\ TypeOK
  BY DEF IndInv, Vacant, StartHeartbeat
<1>b. /\ hb' = [hb EXCEPT ![h] = t] /\ client' = [client EXCEPT !.heartbeatStop = h]
      /\ tunnel' = [tunnel EXCEPT !.pc = "loop", !.held = 0]
  BY DEF StartHeartbeat
<1>c. v \in {"tick", "done"}
  OBVIOUS
<1> HIDE DEF v
<1>d. t \in HeartbeatRecord
  BY <1>a, <1>c DEF TypeOK, HeartbeatRecord
<1> HIDE DEF t, h
<1>1. TypeOK'
  <2>1. hb' \in [Session -> HeartbeatRecord]
    BY <1>a, <1>b, <1>d DEF TypeOK, HeartbeatRecord
  <2>2. client' \in ClientRecord
    BY <1>a, <1>b DEF TypeOK, ClientRecord
  <2>3. "loop" \in TunnelPC
    BY DEF TunnelPC
  <2>4. tunnel' \in TunnelRecord
    BY <1>a, <1>b, <2>3, Zenon DEF TypeOK, TunnelRecord
  <2> QED BY <1>a, <2>1, <2>2, <2>4, TypeRecords DEF StartHeartbeat
<1>2. Owned'
  BY DEF IndInv, TypeOK, Owned, Vacant, StartHeartbeat
<1>3. Stoppable'
  <2>1. \A k \in Session : k # h => hb'[k] = hb[k]
    BY <1>a, <1>b DEF TypeOK
  <2>2. \A k \in Session : ~ Beating(k)
    BY <1>a DEF IndInv, Stoppable, Session
  <2>3. client'.heartbeatStop = h
    BY <1>a, <1>b DEF TypeOK
  <2> QED BY <2>1, <2>2, <2>3 DEF Stoppable, Beating
<1>4. Vacant' /\ Attempts'
  BY DEF IndInv, TypeOK, Vacant, Attempts, StartHeartbeat
<1>5. ClosedClean'
  BY DEF IndInv, TypeOK, ClosedClean, Vacant, StartHeartbeat
<1> QED BY <1>1, <1>2, <1>3, <1>4, <1>5 DEF IndInv

-----------------------------------------------------------------------------
\* runHeartbeat

\* runHeartbeat is told to stop.
LEMMA HeartbeatStopGood ==
  ASSUME IndInv, NEW n \in Session, HeartbeatStop(n)
  PROVE  IndInv'
<1>1. TypeOK'
  <2> DEFINE t == [hb[n] EXCEPT !.pc = "done"]
  <2>1. hb' = [hb EXCEPT ![n] = t]
    BY DEF HeartbeatStop
  <2>2. t \in HeartbeatRecord
    BY DEF IndInv, TypeOK, HeartbeatRecord
  <2> HIDE DEF t
  <2>3. hb' \in [Session -> HeartbeatRecord]
    BY <2>1, <2>2 DEF IndInv, TypeOK, HeartbeatRecord
  <2> QED BY <2>3, TypeRecords DEF IndInv, HeartbeatStop
<1>2. Owned'
  BY DEF IndInv, TypeOK, Owned, Vacant, HeartbeatStop
<1>3. Stoppable'
  BY DEF IndInv, TypeOK, Stoppable, Beating, Vacant, HeartbeatStop
<1>4. Vacant' /\ Attempts'
  BY DEF IndInv, TypeOK, Vacant, Attempts, HeartbeatStop
<1>5. ClosedClean'
  BY DEF IndInv, TypeOK, ClosedClean, Vacant, HeartbeatStop
<1> QED BY <1>1, <1>2, <1>3, <1>4, <1>5 DEF IndInv

\* The ticker of runHeartbeat.
LEMMA HeartbeatTickGood ==
  ASSUME IndInv, NEW n \in Session, HeartbeatTick(n)
  PROVE  IndInv'
<1>1. TypeOK'
  <2> DEFINE v == IF client.mux = 0 THEN "done" ELSE "ping"
             t == [hb[n] EXCEPT !.pc = v, !.mux = client.mux]
  <2>1. hb' = [hb EXCEPT ![n] = t]
    BY Zenon DEF HeartbeatTick
  <2>2. v \in {"done", "ping"}
    OBVIOUS
  <2> HIDE DEF v
  <2>0. hb[n] \in HeartbeatRecord /\ client.mux \in Session \cup {0}
    BY DEF IndInv, TypeOK, HeartbeatRecord
  <2>3. t \in HeartbeatRecord
    BY <2>0, <2>2, Zenon DEF HeartbeatRecord
  <2> HIDE DEF t
  <2>4. hb' \in [Session -> HeartbeatRecord]
    BY <2>1, <2>3 DEF IndInv, TypeOK, HeartbeatRecord
  <2> QED BY <2>4, TypeRecords DEF IndInv, HeartbeatTick
<1>2. Owned'
  BY DEF IndInv, TypeOK, Owned, Vacant, HeartbeatTick
<1>3. Stoppable'
  BY DEF IndInv, TypeOK, Stoppable, Beating, Vacant, HeartbeatTick
<1>4. Vacant' /\ Attempts'
  BY DEF IndInv, TypeOK, Vacant, Attempts, HeartbeatTick
<1>5. ClosedClean'
  BY DEF IndInv, TypeOK, ClosedClean, Vacant, HeartbeatTick
<1> QED BY <1>1, <1>2, <1>3, <1>4, <1>5 DEF IndInv

\* The relay answers.
LEMMA PongGood ==
  ASSUME IndInv, NEW n \in Session, Pong(n)
  PROVE  IndInv'
<1>1. TypeOK'
  <2> DEFINE t == [hb[n] EXCEPT !.pc = "tick"]
  <2>1. hb' = [hb EXCEPT ![n] = t]
    BY DEF Pong
  <2>2. t \in HeartbeatRecord
    BY DEF IndInv, TypeOK, HeartbeatRecord
  <2> HIDE DEF t
  <2>3. hb' \in [Session -> HeartbeatRecord]
    BY <2>1, <2>2 DEF IndInv, TypeOK, HeartbeatRecord
  <2> QED BY <2>3, TypeRecords DEF IndInv, Pong
<1>2. Owned'
  BY DEF IndInv, TypeOK, Owned, Vacant, Pong
<1>3. Stoppable'
  BY DEF IndInv, TypeOK, Stoppable, Beating, Vacant, Pong
<1>4. Vacant' /\ Attempts'
  BY DEF IndInv, TypeOK, Vacant, Attempts, Pong
<1>5. ClosedClean'
  BY DEF IndInv, TypeOK, ClosedClean, Vacant, Pong
<1> QED BY <1>1, <1>2, <1>3, <1>4, <1>5 DEF IndInv

\* Ping fails: the token.
LEMMA PingFailsGood ==
  ASSUME IndInv, NEW n \in Session, PingFails(n)
  PROVE  IndInv'
<1>1. TypeOK'
  <2> DEFINE t == [hb[n] EXCEPT !.pc = "done"]
  <2>1. hb' = [hb EXCEPT ![n] = t]
    BY DEF PingFails
  <2>2. t \in HeartbeatRecord
    BY DEF IndInv, TypeOK, HeartbeatRecord
  <2> HIDE DEF t
  <2>3. hb' \in [Session -> HeartbeatRecord]
    BY <2>1, <2>2 DEF IndInv, TypeOK, HeartbeatRecord
  <2> QED BY <2>3, TypeRecords DEF IndInv, PingFails
<1>2. Owned'
  BY DEF IndInv, TypeOK, Owned, Vacant, PingFails
<1>3. Stoppable'
  BY DEF IndInv, TypeOK, Stoppable, Beating, Vacant, PingFails
<1>4. Vacant' /\ Attempts'
  BY DEF IndInv, TypeOK, Vacant, Attempts, PingFails
<1>5. ClosedClean'
  BY DEF IndInv, TypeOK, ClosedClean, Vacant, PingFails
<1> QED BY <1>1, <1>2, <1>3, <1>4, <1>5 DEF IndInv

-----------------------------------------------------------------------------
\* The application

\* The application starts its shutdown.
LEMMA ShutdownGood ==
  ASSUME IndInv, Shutdown
  PROVE  IndInv'
<1>1. TypeOK'
  <2> DEFINE v == IF "stop" \in app.calls THEN "stop" ELSE AfterStop
             b == "cancel" \in app.calls
  <2>1. ctxDone' = b /\ app' = [app EXCEPT !.pc = v]
    BY DEF Shutdown
  <2>2. v \in AppPC /\ b \in BOOLEAN
    BY DEF AfterStop, AppPC
  <2> HIDE DEF v, b
  <2> QED BY <2>1, <2>2 DEF IndInv, TypeOK, Shutdown
<1>2. Owned'
  BY DEF IndInv, TypeOK, Owned, Vacant, Shutdown, AfterStop
<1>3. Stoppable'
  BY DEF IndInv, TypeOK, Stoppable, Beating, Vacant, Shutdown, AfterStop
<1>4. Vacant' /\ Attempts'
  BY DEF IndInv, TypeOK, Vacant, Attempts, Shutdown, AfterStop
<1>5. ClosedClean'
  BY DEF IndInv, TypeOK, ClosedClean, Vacant, Shutdown, AfterStop
<1> QED BY <1>1, <1>2, <1>3, <1>4, <1>5 DEF IndInv

\* Stop: cancelAccept.
LEMMA StopGood ==
  ASSUME IndInv, Stop
  PROVE  IndInv'
<1>1. TypeOK'
  <2> DEFINE v == IF tunnel.pc = "start" THEN AfterStop ELSE "stopping"
  <2>1. app' = [app EXCEPT !.pc = v] /\ tunnel' = [tunnel EXCEPT !.canceled = TRUE]
    BY DEF Stop
  <2>2. v \in AppPC
    BY DEF AppPC, AfterStop
  <2> HIDE DEF v
  <2> QED BY <2>1, <2>2, Zenon DEF IndInv, TypeOK, Stop
<1>2. Owned'
  BY DEF IndInv, TypeOK, Owned, Vacant, Stop, AfterStop
<1>3. Stoppable'
  BY DEF IndInv, TypeOK, Stoppable, Beating, Vacant, Stop, AfterStop
<1>4. Vacant' /\ Attempts'
  BY DEF IndInv, TypeOK, Vacant, Attempts, Stop, AfterStop
<1>5. ClosedClean'
  BY DEF IndInv, TypeOK, ClosedClean, Vacant, Stop, AfterStop
<1> QED BY <1>1, <1>2, <1>3, <1>4, <1>5 DEF IndInv

\* Stop sees that Start has returned.
LEMMA StoppedGood ==
  ASSUME IndInv, Stopped
  PROVE  IndInv'
<1>1. TypeOK'
  <2>1. AfterStop \in AppPC
    BY DEF AppPC, AfterStop
  <2> QED BY <2>1, Zenon DEF IndInv, TypeOK, Stopped
<1>2. Owned'
  BY DEF IndInv, TypeOK, Owned, Vacant, Stopped, AfterStop
<1>3. Stoppable'
  BY DEF IndInv, TypeOK, Stoppable, Beating, Vacant, Stopped, AfterStop
<1>4. Vacant' /\ Attempts'
  BY DEF IndInv, TypeOK, Vacant, Attempts, Stopped, AfterStop
<1>5. ClosedClean'
  BY DEF IndInv, TypeOK, ClosedClean, Vacant, Stopped, AfterStop
<1> QED BY <1>1, <1>2, <1>3, <1>4, <1>5 DEF IndInv

\* Stop gives up waiting.
LEMMA StopTimesOutGood ==
  ASSUME IndInv, StopTimesOut
  PROVE  IndInv'
<1>1. TypeOK'
  <2>1. AfterStop \in AppPC
    BY DEF AppPC, AfterStop
  <2> QED BY <2>1 DEF IndInv, TypeOK, StopTimesOut
<1>2. Owned'
  BY DEF IndInv, TypeOK, Owned, Vacant, StopTimesOut, AfterStop
<1>3. Stoppable'
  BY DEF IndInv, TypeOK, Stoppable, Beating, Vacant, StopTimesOut, AfterStop
<1>4. Vacant' /\ Attempts'
  BY DEF IndInv, TypeOK, Vacant, Attempts, StopTimesOut, AfterStop
<1>5. ClosedClean'
  BY DEF IndInv, TypeOK, ClosedClean, Vacant, StopTimesOut, AfterStop
<1> QED BY <1>1, <1>2, <1>3, <1>4, <1>5 DEF IndInv

\* Close: no Connect begins after this.
LEMMA CloseClientGood ==
  ASSUME IndInv, CloseClient
  PROVE  IndInv'
<1>1. TypeOK'
  BY Zenon DEF IndInv, TypeOK, AppPC, CloseClient
<1>2. Owned'
  BY DEF IndInv, TypeOK, Owned, Vacant, CloseClient
<1>3. Stoppable'
  BY DEF IndInv, TypeOK, Stoppable, Beating, Vacant, CloseClient
<1>4. Vacant' /\ Attempts'
  BY DEF IndInv, TypeOK, Vacant, Attempts, CloseClient
<1>5. ClosedClean'
  BY DEF IndInv, TypeOK, ClosedClean, Vacant, CloseClient
<1> QED BY <1>1, <1>2, <1>3, <1>4, <1>5 DEF IndInv

\* teardown by Close: what the client had passes to the application.
LEMMA CloseTeardownGood ==
  ASSUME IndInv, CloseTeardown
  PROVE  IndInv'
<1>1. TypeOK'
  <2>1. client' \in ClientRecord /\ hb' \in [Session -> HeartbeatRecord]
    BY DetachTypes DEF IndInv, CloseTeardown
  <2>2. "drop" \in AppPC
    BY DEF AppPC
  <2>3. app' \in AppRecord
    BY <2>2, Zenon DEF IndInv, TypeOK, AppRecord, CloseTeardown
  <2> QED BY <2>1, <2>3, TypeRecords DEF IndInv, CloseTeardown
<1>2. Owned'
  BY DEF IndInv, TypeOK, Owned, Vacant, CloseTeardown, Detach
<1>3. Stoppable'
  BY DEF IndInv, TypeOK, Stoppable, Beating, Vacant, CloseTeardown, Detach
<1>4. Vacant' /\ Attempts'
  BY DEF IndInv, TypeOK, Vacant, Attempts, CloseTeardown, Detach
<1>5. ClosedClean'
  BY DEF IndInv, TypeOK, ClosedClean, Vacant, CloseTeardown, Detach
<1> QED BY <1>1, <1>2, <1>3, <1>4, <1>5 DEF IndInv

\* Close closes the session it took out.
LEMMA CloseDropGood ==
  ASSUME IndInv, CloseDrop
  PROVE  IndInv'
<1>1. TypeOK'
  <2>1. session' \in [Session -> SessionRecord]
    BY CloseTypes DEF IndInv, TypeOK, CloseDrop
  <2>2. "returned" \in AppPC
    BY DEF AppPC
  <2>3. app' \in AppRecord
    BY <2>2, Zenon DEF IndInv, TypeOK, AppRecord, CloseDrop
  <2> QED BY <2>1, <2>3, TypeRecords DEF IndInv, CloseDrop
<1>2. Owned'
  <2>1. app.pc = "drop" /\ CloseSession(app.held) /\ UNCHANGED <<client, tunnel>>
    BY DEF CloseDrop
  <2>2. \A k \in Session : session'[k].mux = "open" => session[k].mux = "open" /\ k # app.held
    BY <2>1, ClosedSession DEF IndInv
  <2> QED BY <2>1, <2>2 DEF IndInv, Owned
<1>3. Stoppable'
  BY DEF IndInv, TypeOK, Stoppable, Beating, Vacant, CloseDrop, CloseSession
<1>4. Vacant' /\ Attempts'
  BY DEF IndInv, TypeOK, Vacant, Attempts, CloseDrop, CloseSession
<1>5. ClosedClean'
  BY DEF IndInv, TypeOK, ClosedClean, Vacant, CloseDrop, CloseSession
<1> QED BY <1>1, <1>2, <1>3, <1>4, <1>5 DEF IndInv

-----------------------------------------------------------------------------
\* The network

\* A link goes silent or is lost.
LEMMA LinkFailsGood ==
  ASSUME IndInv, NEW n \in Session, NEW how \in {"silent", "lost"}, LinkFails(n, how)
  PROVE  IndInv'
<1>1. TypeOK'
  BY DEF IndInv, TypeOK, LinkFails
<1>2. Owned'
  BY DEF IndInv, TypeOK, Owned, Vacant, LinkFails
<1>3. Stoppable'
  BY DEF IndInv, TypeOK, Stoppable, Beating, Vacant, LinkFails
<1>4. Vacant' /\ Attempts'
  BY DEF IndInv, TypeOK, Vacant, Attempts, LinkFails
<1>5. ClosedClean'
  BY DEF IndInv, TypeOK, ClosedClean, Vacant, LinkFails
<1> QED BY <1>1, <1>2, <1>3, <1>4, <1>5 DEF IndInv

\* The session's own loops close it.
LEMMA SessionDiesGood ==
  ASSUME IndInv, NEW n \in Session, SessionDies(n)
  PROVE  IndInv'
<1>1. TypeOK'
  BY DEF IndInv, TypeOK, SessionDies
<1>2. Owned'
  BY DEF IndInv, TypeOK, Owned, Vacant, SessionDies
<1>3. Stoppable'
  BY DEF IndInv, TypeOK, Stoppable, Beating, Vacant, SessionDies
<1>4. Vacant' /\ Attempts'
  BY DEF IndInv, TypeOK, Vacant, Attempts, SessionDies
<1>5. ClosedClean'
  BY DEF IndInv, TypeOK, ClosedClean, Vacant, SessionDies
<1> QED BY <1>1, <1>2, <1>3, <1>4, <1>5 DEF IndInv

-----------------------------------------------------------------------------
\* Every step preserves the invariant.
LEMMA StepGood == IndInv /\ [Next]_vars => IndInv'
<1> SUFFICES ASSUME IndInv, [Next]_vars PROVE IndInv'
  OBVIOUS
<1>1. CASE TunnelStep
  BY <1>1, StartGood, AcceptLoopGood, AcceptExitGood, ExitedGood, SelectDoneGood,
     SelectReconnectGood, TunnelTeardownGood, TunnelDropGood, BackoffGood, GiveUpGood,
     ConnectGood, DialFailsGood, DialedGood, InstallGood, StartHeartbeatGood
     DEF TunnelStep
<1>2. CASE AppStep \/ Shutdown
  BY <1>2, ShutdownGood, StopGood, StoppedGood, StopTimesOutGood, CloseClientGood,
     CloseTeardownGood, CloseDropGood DEF AppStep
<1>3. ASSUME NEW n \in Session, HeartbeatStep(n) PROVE IndInv'
  BY <1>3, HeartbeatStopGood, HeartbeatTickGood, PongGood, PingFailsGood DEF HeartbeatStep
<1>4. ASSUME NEW n \in Session,
             SessionDies(n) \/ \E how \in {"silent", "lost"} : LinkFails(n, how)
      PROVE  IndInv'
  BY <1>4, SessionDiesGood, LinkFailsGood
<1>5. CASE UNCHANGED vars
  BY <1>5 DEF vars, IndInv, TypeOK, Owned, Stoppable, Beating, Vacant, Attempts, ClosedClean
<1> QED BY <1>1, <1>2, <1>3, <1>4, <1>5 DEF Next

\* The invariant holds in every behaviour.
THEOREM Inductive == Spec => []IndInv
  BY InitGood, StepGood, PTL DEF Spec

\* The variables of the agent keep their types; in particular Reconnect makes at
\* most MaxReconnectAttempts attempts before Start returns its error.
THEOREM TypesKept == Spec => []TypeOK
<1>1. IndInv => TypeOK
  BY DEF IndInv
<1> QED BY <1>1, Inductive, PTL

\* A set whose members are all equal to k has at most one.
LEMMA AtMostOne ==
  ASSUME NEW S, NEW k, \A n \in S : n = k
  PROVE  Cardinality(S) <= 1
<1>1. CASE S = {}
  BY <1>1, FS_EmptySet
<1>2. CASE S # {}
  <2>1. S = {k}
    BY <1>2
  <2> QED BY <2>1, FS_Singleton
<1> QED BY <1>1, <1>2

\* Reconnect and Connect (client_impl.go): however Close, link failures and
\* heartbeats cross a reconnection, at most one session of the agent is open
\* with nobody about to close it, and at most one heartbeat runs.
THEOREM NeverTwoSessions == Spec => []OneSession
<1>1. IndInv => OneSession
  <2> SUFFICES ASSUME IndInv PROVE OneSession
    OBVIOUS
  <2>0. 0 \notin Session
    BY AgentAssumption DEF Session
  <2> DEFINE k == IF tunnel.pc = "install" THEN tunnel.held ELSE client.mux
  <2>1. \A n \in {m \in Session : Live(m)} : n = k
    BY <2>0 DEF IndInv, Owned, Vacant, Live
  <2>2. \A n \in {m \in Session : Beating(m)} : n = client.heartbeatStop
    BY DEF IndInv, Stoppable
  <2> HIDE DEF k
  <2>3. Cardinality({n \in Session : Live(n)}) <= 1
    BY <2>1, AtMostOne
  <2>4. Cardinality({n \in Session : Beating(n)}) <= 1
    BY <2>2, AtMostOne
  <2> QED BY <2>3, <2>4 DEF OneSession
<1> QED BY <1>1, Inductive, PTL

\* Stop, then Close (cmd/agent): when Stop saw Start return, no session is left
\* open and no heartbeat running, wherever in a reconnection Start was.
THEOREM ShutdownLeavesNothing == Spec => []ShutdownIsClean
<1>1. IndInv => ShutdownIsClean
  <2> SUFFICES ASSUME IndInv, app.pc = "returned", app.stopped, client.closed, NEW n \in Session
               PROVE  ~ Live(n) /\ ~ Beating(n)
    BY DEF ShutdownIsClean
  <2>0. n # 0
    BY AgentAssumption DEF Session
  <2>1. tunnel.pc = "done" /\ client.mux = 0 /\ client.heartbeatStop = 0
    BY DEF IndInv, ClosedClean
  <2> QED BY <2>0, <2>1 DEF IndInv, Owned, Stoppable, Live
<1> QED BY <1>1, Inductive, PTL
=============================================================================
