------------------------------- MODULE MCMux --------------------------------
(***************************************************************************)
(* The instances of MuxSession that TLC checks.  A scenario says how many  *)
(* streams each end opens, how many it allows at once, and which calls the *)
(* applications make; a run explores all the scenarios it is given.        *)
(***************************************************************************)
EXTENDS MuxProperties

Scenario(relayOpens, agentOpens, limit, ops) ==
  [opens |-> [e \in {"relay", "agent"} |->
                IF e = "relay" THEN relayOpens ELSE agentOpens],
   MaxConcurrentStreams |-> limit,
   ops |-> ops]

Both(op) == {"relay", "agent"} \X {op}

\* One stream of the relay: its data and its graceful end; its end by Reset,
\* with a GOAWAY; its end by Close() of a session, and by a lost connection.
WriteClose == Scenario(1, 0, 1, Both("write") \cup Both("close"))
WriteReset == Scenario(1, 0, 1, {<<"relay", "write">>, <<"relay", "reset">>, <<"agent", "write">>})
RelayWritesClose == Scenario(1, 0, 1, {<<"relay", "write">>} \cup Both("close"))
ResetGoAway == Scenario(1, 0, 1, Both("reset") \cup {<<"agent", "goaway">>})
Shutdown == Scenario(1, 0, 1, Both("shutdown"))
Broken == Scenario(1, 0, 1, {<<"network", "break">>})

\* Two streams: both ends open one, with cancellation and Reset; the relay
\* opens two in turn, on one ID.
Crossed == Scenario(1, 1, 2, {<<"relay", "cancel">>, <<"agent", "reset">>})
Recycled == Scenario(2, 0, 1, {<<"relay", "write">>} \cup Both("close"))

Data == {WriteClose, WriteReset}
Lifecycles == {RelayWritesClose, ResetGoAway, Shutdown, Broken}
Streams2 == {Crossed, Recycled}

\* The scenarios of the counterexamples.
ResetTwice == {Scenario(2, 0, 1, Both("reset"))}
CloseThrice == {Scenario(3, 0, 2, Both("close"))}
=============================================================================
