------------------------------ MODULE Forwarder ------------------------------
(***************************************************************************)
(* The agent's Forward call (forwarder_impl.go): it dials the local        *)
(* service and joins it to an accepted stream with two copying goroutines. *)
(* The peer of the stream and the service do as they please.               *)
(***************************************************************************)
EXTENDS Naturals, Sequences

CONSTANT MaxChunks \* bound: chunks that the peer, and the service, sends

ASSUME ForwarderAssumption == MaxChunks \in Nat

VARIABLES
  pc,      \* where Forward is: see PC
  stream,  \* the accepted StreamSession
  sock,    \* the TCP connection to the service
  down,    \* copyStreamToLocal
  up,      \* copyLocalToStream
  done,    \* the channel of the two results
  result,  \* the error Forward returns
  ctxDone, \* the accept loop's context is canceled
  aborted  \* forwardLink.aborted

fwdVars == <<pc, stream, sock, down, up, done, result, ctxDone, aborted>>

\* The select of waitDirection for each result; abort() in two steps, then the
\* receives that follow it.
PC == {"dial", "first", "second", "abort1", "abort2", "reset1", "reset2",
       "collect1", "last", "collect2", "returned"}

\* in: chunks to read; sent, got: chunks that the peer sent, and that were put
\* on writeOut for it; stalled: writeOut is full, as the peer reads no more.
StreamEnd == [state : {"Open", "HalfClosedLocal", "HalfClosedRemote", "Closed", "Reset"},
              in : 0 .. MaxChunks, sent : 0 .. MaxChunks, got : 0 .. MaxChunks,
              stalled : BOOLEAN]

\* The same for the service; open: our descriptor; wshut: CloseWrite was called;
\* eof: the service closed its side; broken: the connection failed; idle: it is
\* wrapped in an idleConn, whose deadline may pass in any Read or Write.
Socket == [idle : BOOLEAN, open : BOOLEAN, wshut : BOOLEAN, eof : BOOLEAN, broken : BOOLEAN,
           in : 0 .. MaxChunks, sent : 0 .. MaxChunks, got : 0 .. MaxChunks,
           stalled : BOOLEAN]

Copy == [pc : {"off", "read", "write", "end", "done"}, err : BOOLEAN]

Init ==
  /\ pc = "dial"
  /\ stream = [state |-> "Open", in |-> 0, sent |-> 0, got |-> 0, stalled |-> FALSE]
  /\ sock = [idle |-> FALSE, open |-> FALSE, wshut |-> FALSE, eof |-> FALSE,
             broken |-> FALSE, in |-> 0, sent |-> 0, got |-> 0, stalled |-> FALSE]
  /\ down = [pc |-> "off", err |-> FALSE]
  /\ up = [pc |-> "off", err |-> FALSE]
  /\ done = <<>>
  /\ result = FALSE
  /\ ctxDone = FALSE
  /\ aborted = FALSE

ReadClosed == stream.state \in {"HalfClosedRemote", "Closed", "Reset"}
WriteClosed == stream.state \in {"HalfClosedLocal", "Closed", "Reset"}

ResetStream(s) ==
  IF s.state \in {"Closed", "Reset"} THEN s
  ELSE [s EXCEPT !.state = "Reset", !.in = 0]

-----------------------------------------------------------------------------
\* Forward

\* A dial error returns with the stream neither closed nor reset.
DialFails ==
  /\ pc = "dial"
  /\ pc' = "returned"
  /\ result' = TRUE
  /\ UNCHANGED <<stream, sock, down, up, done, ctxDone, aborted>>

\* With or without a configured IdleTimeout.
Dial ==
  /\ pc = "dial"
  /\ pc' = "first"
  /\ \E idle \in BOOLEAN : sock' = [sock EXCEPT !.open = TRUE, !.idle = idle]
  /\ down' = [down EXCEPT !.pc = "read"]
  /\ up' = [up EXCEPT !.pc = "read"]
  /\ UNCHANGED <<stream, done, result, ctxDone, aborted>>

\* The return of Forward runs the deferred local.Close().
Return(err) ==
  /\ pc' = "returned"
  /\ result' = err
  /\ sock' = [sock EXCEPT !.open = FALSE]

\* waitDirection: a result is there.
FirstDone ==
  /\ pc = "first"
  /\ done # <<>>
  /\ pc' = "second"
  /\ result' = Head(done)
  /\ done' = Tail(done)
  /\ UNCHANGED <<stream, sock, down, up, ctxDone, aborted>>

SecondDone ==
  /\ pc = "second"
  /\ done # <<>>
  /\ done' = Tail(done)
  /\ Return(result \/ Head(done))
  /\ UNCHANGED <<stream, down, up, ctxDone, aborted>>

\* waitDirection: the context is canceled, or (second time only) the linger
\* timer, which may fire whenever it is armed.
Canceled ==
  /\ pc = "first"
  /\ ctxDone
  /\ pc' = "abort1"
  /\ UNCHANGED <<stream, sock, down, up, done, result, ctxDone, aborted>>

Lingered ==
  /\ pc = "second"
  /\ pc' = "abort2"
  /\ UNCHANGED <<stream, sock, down, up, done, result, ctxDone, aborted>>

\* abort(): the flag and the socket, then the stream.
Abort ==
  /\ \/ pc = "abort1" /\ pc' = "reset1"
     \/ pc = "abort2" /\ pc' = "reset2"
  /\ aborted' = TRUE
  /\ sock' = [sock EXCEPT !.open = FALSE]
  /\ UNCHANGED <<stream, down, up, done, result, ctxDone>>

\* Mutant: only the socket is closed.
AbortStream_Skipped ==
  /\ \/ pc = "reset1" /\ pc' = "collect1"
     \/ pc = "reset2" /\ pc' = "collect2"
  /\ UNCHANGED <<stream, sock, down, up, done, result, ctxDone, aborted>>

AbortStream ==
  /\ \/ pc = "reset1" /\ pc' = "collect1"
     \/ pc = "reset2" /\ pc' = "collect2"
  /\ stream' = ResetStream(stream)
  /\ UNCHANGED <<sock, down, up, done, result, ctxDone, aborted>>

\* <-done in waitDirection after abort(), and in await.
Collect ==
  /\ pc = "collect1"
  /\ done # <<>>
  /\ done' = Tail(done)
  /\ pc' = "last"
  /\ UNCHANGED <<stream, sock, down, up, result, ctxDone, aborted>>

\* Mutant: await does not wait for the second result of a canceled Forward.
CollectLast_First ==
  /\ \/ pc = "last"
     \/ pc = "collect2" /\ done # <<>>
  /\ done' = <<>>
  /\ Return(result)
  /\ UNCHANGED <<stream, down, up, ctxDone, aborted>>

CollectLast ==
  /\ pc \in {"last", "collect2"}
  /\ done # <<>>
  /\ done' = Tail(done)
  /\ Return(result)
  /\ UNCHANGED <<stream, down, up, ctxDone, aborted>>

-----------------------------------------------------------------------------
\* copyStreamToLocal

DownRead ==
  /\ down.pc = "read"
  /\ stream.in > 0
  /\ stream' = [stream EXCEPT !.in = @ - 1]
  /\ down' = [down EXCEPT !.pc = "write"]
  /\ UNCHANGED <<pc, sock, up, done, result, ctxDone, aborted>>

\* Mutant: Read reports the end of the stream with chunks still in its buffer.
DownEof_Early ==
  /\ down.pc = "read"
  /\ ReadClosed
  /\ down' = [down EXCEPT !.pc = "end"]
  /\ UNCHANGED <<pc, stream, sock, up, done, result, ctxDone, aborted>>

\* Read returns io.EOF, after a Reset too.
DownEof ==
  /\ down.pc = "read"
  /\ stream.in = 0
  /\ ReadClosed
  /\ down' = [down EXCEPT !.pc = "end"]
  /\ UNCHANGED <<pc, stream, sock, up, done, result, ctxDone, aborted>>

DownWrite ==
  /\ down.pc = "write"
  /\ sock.open /\ ~ sock.broken
  /\ ~ sock.stalled
  /\ sock' = [sock EXCEPT !.got = @ + 1]
  /\ down' = [down EXCEPT !.pc = "read"]
  /\ UNCHANGED <<pc, stream, up, done, result, ctxDone, aborted>>

DownWriteFails ==
  /\ down.pc = "write"
  /\ ~ sock.open \/ sock.broken \/ sock.idle
  /\ down' = [pc |-> "end", err |-> TRUE]
  /\ UNCHANGED <<pc, stream, sock, up, done, result, ctxDone, aborted>>

\* Mutant: the copy loop goes on after its result was sent.
DownEnds_Continues ==
  /\ down.pc = "end"
  /\ sock' = [sock EXCEPT !.wshut = @ \/ sock.open]
  /\ done' = Append(done, down.err /\ ~ aborted)
  /\ down' = [down EXCEPT !.pc = "read"]
  /\ UNCHANGED <<pc, stream, up, result, ctxDone, aborted>>

\* CloseWrite() and done <- filter(err)
DownEnds ==
  /\ down.pc = "end"
  /\ sock' = [sock EXCEPT !.wshut = @ \/ sock.open]
  /\ done' = Append(done, down.err /\ ~ aborted)
  /\ down' = [down EXCEPT !.pc = "done"]
  /\ UNCHANGED <<pc, stream, up, result, ctxDone, aborted>>

\* copyLocalToStream

UpRead ==
  /\ up.pc = "read"
  /\ sock.open /\ ~ sock.broken
  /\ sock.in > 0
  /\ sock' = [sock EXCEPT !.in = @ - 1]
  /\ up' = [up EXCEPT !.pc = "write"]
  /\ UNCHANGED <<pc, stream, down, done, result, ctxDone, aborted>>

UpEof ==
  /\ up.pc = "read"
  /\ sock.open /\ ~ sock.broken
  /\ sock.in = 0 /\ sock.eof
  /\ up' = [up EXCEPT !.pc = "end"]
  /\ UNCHANGED <<pc, stream, sock, down, done, result, ctxDone, aborted>>

UpReadFails ==
  /\ up.pc = "read"
  /\ ~ sock.open \/ sock.broken \/ sock.idle
  /\ up' = [pc |-> "end", err |-> TRUE]
  /\ UNCHANGED <<pc, stream, sock, down, done, result, ctxDone, aborted>>

\* Write: blocked while writeOut is full, until the stream is Closed or Reset.
UpWrite ==
  /\ up.pc = "write"
  /\ ~ WriteClosed
  /\ ~ stream.stalled
  /\ stream' = [stream EXCEPT !.got = @ + 1]
  /\ up' = [up EXCEPT !.pc = "read"]
  /\ UNCHANGED <<pc, sock, down, done, result, ctxDone, aborted>>

UpWriteFails ==
  /\ up.pc = "write"
  /\ WriteClosed
  /\ up' = [pc |-> "end", err |-> TRUE]
  /\ UNCHANGED <<pc, stream, sock, down, done, result, ctxDone, aborted>>

\* stream.Close() and done <- filter(err)
UpEnds ==
  /\ up.pc = "end"
  /\ stream' = [stream EXCEPT !.state = CASE @ = "Open" -> "HalfClosedLocal"
                                          [] @ = "HalfClosedRemote" -> "Closed"
                                          [] OTHER -> @]
  /\ done' = Append(done, up.err /\ ~ aborted)
  /\ up' = [up EXCEPT !.pc = "done"]
  /\ UNCHANGED <<pc, sock, down, result, ctxDone, aborted>>

-----------------------------------------------------------------------------
\* The accept loop ends; the peer of the stream; the service: all until Forward
\* returns, and each as it likes.

Cancel ==
  /\ pc # "returned"
  /\ ~ ctxDone
  /\ ctxDone' = TRUE
  /\ UNCHANGED <<pc, stream, sock, down, up, done, result, aborted>>

\* Data in flight still reaches a stream that was reset here.
PeerStep ==
  /\ pc # "returned"
  /\ \/ /\ stream.state \in {"Open", "HalfClosedLocal", "Reset"}
        /\ stream.sent < MaxChunks
        /\ stream' = [stream EXCEPT !.in = @ + 1, !.sent = @ + 1]
     \/ /\ stream.state = "Open"
        /\ stream' = [stream EXCEPT !.state = "HalfClosedRemote"]
     \/ /\ stream.state = "HalfClosedLocal"
        /\ stream' = [stream EXCEPT !.state = "Closed"]
     \/ /\ stream.state # ResetStream(stream).state
        /\ stream' = ResetStream(stream)
     \/ /\ ~ stream.stalled
        /\ stream' = [stream EXCEPT !.stalled = TRUE]
  /\ UNCHANGED <<pc, sock, down, up, done, result, ctxDone, aborted>>

ServiceStep ==
  /\ pc # "returned"
  /\ \/ /\ sock.open /\ ~ sock.eof /\ ~ sock.broken
        /\ sock.sent < MaxChunks
        /\ sock' = [sock EXCEPT !.in = @ + 1, !.sent = @ + 1]
     \/ /\ sock.open /\ ~ sock.eof
        /\ sock' = [sock EXCEPT !.eof = TRUE]
     \/ /\ sock.open /\ ~ sock.broken
        /\ sock' = [sock EXCEPT !.broken = TRUE]
     \/ /\ sock.open /\ ~ sock.stalled
        /\ sock' = [sock EXCEPT !.stalled = TRUE]
  /\ UNCHANGED <<pc, stream, down, up, done, result, ctxDone, aborted>>

Forward ==
  \/ DialFails \/ Dial \/ FirstDone \/ SecondDone \/ Canceled \/ Lingered
  \/ Abort \/ AbortStream \/ Collect \/ CollectLast

CopyDown == DownRead \/ DownEof \/ DownWrite \/ DownWriteFails \/ DownEnds
CopyUp == UpRead \/ UpEof \/ UpReadFails \/ UpWrite \/ UpWriteFails \/ UpEnds

Next == Forward \/ CopyDown \/ CopyUp \/ Cancel \/ PeerStep \/ ServiceStep

\* The goroutines run and the dial and linger timers expire; nothing is asked
\* of the peer or of the service.
Fairness == WF_fwdVars(Forward) /\ WF_fwdVars(CopyDown) /\ WF_fwdVars(CopyUp)

Spec == Init /\ [][Next]_fwdVars /\ Fairness

-----------------------------------------------------------------------------
\* The shape of the state: the two results fit in the channel.
TypeOK ==
  /\ pc \in PC
  /\ stream \in StreamEnd
  /\ sock \in Socket
  /\ down \in Copy /\ up \in Copy
  /\ done \in {<<>>} \cup [1 .. 1 -> BOOLEAN] \cup [1 .. 2 -> BOOLEAN]
  /\ {result, ctxDone, aborted} \subseteq BOOLEAN

\* When Forward has returned after a successful dial, whichever of the
\* results, the linger timer and the cancellation came first, both copies have
\* ended, the socket is released and the stream is closed or reset.
NothingLeft ==
  (pc = "returned" /\ down.pc # "off") =>
    /\ down.pc = "done" /\ up.pc = "done"
    /\ done = <<>>
    /\ ~ sock.open
    /\ WriteClosed

\* The service sees end of request only with the whole request, and the peer
\* the FIN only with the whole answer, unless the stream was reset or a copy
\* failed.
WholeTransfer ==
  stream.state # "Reset" =>
    /\ (sock.wshut /\ ~ down.err) => sock.got = stream.sent
    /\ (WriteClosed /\ ~ up.err) => stream.got = sock.sent

\* A peer or a service that never answers cannot keep Forward: once a direction
\* has ended or the context is canceled, Forward returns.
ForwardReturns ==
  (ctxDone \/ down.pc = "done" \/ up.pc = "done") ~> (pc = "returned")
=============================================================================
