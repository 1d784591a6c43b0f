---------------------------- MODULE MuxProperties ----------------------------
(***************************************************************************)
(* Further properties of MuxSession: that each direction of a stream is a  *)
(* StreamPipe, that the two ends agree when nothing is in flight, what the *)
(* goroutines must eventually do, and two that the code does not have.     *)
(***************************************************************************)
EXTENDS MuxSession

\* The chunks that one end of stream 1 writes, as the other end can read them.
\* Nothing is promised once the reader's stream is Reset: Reset() drops what is
\* buffered, and Deliver still buffers what was in flight.
Chunks(o) ==
  IF obj[o].state = "Reset" THEN <<>>
  ELSE [i \in DOMAIN obj[o].readBuf |-> obj[o].readBuf[i].seq]
EndOf(o) ==
  IF obj[o].state = "Reset" THEN "reset"
  ELSE IF obj[o].state \in {"HalfClosedRemote", "Closed"} THEN "eof" ELSE "open"

ToAgent == INSTANCE StreamPipe WITH
  written <- obj[<<"relay", 1>>].wrote,
  closed <- obj[<<"relay", 1>>].closer # "no",
  closedAt <- obj[<<"relay", 1>>].closedAt,
  received <- Chunks(<<"agent", 1>>),
  end <- EndOf(<<"agent", 1>>)
ToRelay == INSTANCE StreamPipe WITH
  written <- obj[<<"agent", 1>>].wrote,
  closed <- obj[<<"agent", 1>>].closer # "no",
  closedAt <- obj[<<"agent", 1>>].closedAt,
  received <- Chunks(<<"relay", 1>>),
  end <- EndOf(<<"relay", 1>>)

\* Each direction of the first stream, from Write and Close at one end through
\* drainStream, the queues, the loops and the transport to Read at the other
\* end, implements StreamPipe: every chunk once and in order, and no end of
\* file before the chunks of every Write that returned before Close().
ImplementsPipe == ToAgent!Spec /\ ToRelay!Spec

InMap(o) == \E i \in Ids : mux[o[1]].streams[i] = o

Quiet ==
  /\ \A e \in Endpoint :
       /\ wire[e] = <<>> /\ ~Queued(mux[e])
       /\ mux[e].rl.pc = "read" /\ mux[e].acceptCh = <<>>
  /\ \A o \in Obj :
       /\ obj[o].call \in {"none", "failed", "ok"}
       /\ obj[o].closer \in {"no", "done"}
       /\ obj[o].resetter \in {"no", "done"}
       /\ obj[o].drain \in {"none", "select", "done"}
       /\ obj[o].finCh => obj[o].drain = "done"

\* When nothing is in flight and no goroutine has work left, the two ends of a
\* stream agree on it, whatever Close and Reset calls crossed on the way: each
\* end's state mirrors the other's, and each end has the stream in its map
\* exactly while it is not Closed or Reset.
MirrorWhenQuiet ==
  Quiet =>
    \A o, p \in Obj :
      obj[p].origin = o =>
        /\ \/ obj[o].state \in Terminal /\ obj[p].state \in Terminal
           \/ <<obj[o].state, obj[p].state>> \in
                {<<"Open", "Open">>, <<"HalfClosedLocal", "HalfClosedRemote">>,
                 <<"HalfClosedRemote", "HalfClosedLocal">>}
        /\ \A x \in {o, p} :
             InMap(x) <=> obj[x].state \notin Terminal

\* Once a stream is Closed or Reset its drainStream goroutine ends: awaitFIN
\* always gets the token of Close(), and Reset needs none.
DrainEnds ==
  \A o \in Obj :
    (obj[o].state \in Terminal /\ obj[o].drain # "none") ~> (obj[o].drain = "done")

ObjOf(e) == {o \in Obj : o[1] = e}

\* After both applications closed a stream, both sessions release it.
GracefulRelease ==
  \A o \in ObjOf("relay"), p \in ObjOf("agent") :
    (Partners(o, p) /\ obj[o].closer # "no" /\ obj[p].closer # "no")
      ~> (~InMap(o) /\ ~InMap(p))

\* A Reset at one end ends the stream at the other end, as long as both
\* sessions live and no FIN crosses the Reset.
ResetReachesPeer ==
  \A e \in Endpoint : \A o \in ObjOf(e), p \in ObjOf(Peer(e)) :
    (Partners(o, p) /\ obj[o].state = "Reset")
      ~> (obj[p].state \in Terminal \/ \E d \in Endpoint : mux[d].closing # "no")

\* Without cancellation, reset and shutdown every OpenStream call is answered.
OpenAnswered ==
  \A o \in Obj : (obj[o].call = "wait") ~> (obj[o].call # "wait")

\* Close() ends every goroutine of the session: the loops, the drain
\* goroutines, and the callers blocked in OpenStream.
CloseUnblocks ==
  \A e \in Endpoint :
    (mux[e].closing # "no")
      ~> /\ mux[e].closing = "closed"
         /\ mux[e].rl.pc = "done" /\ mux[e].wl = "done"
         /\ \A o \in Obj : o[1] = e => /\ obj[o].drain \in {"none", "done"}
                                       /\ obj[o].call \in {"none", "failed", "queued", "ok"}

\* A frame is only ever applied to the stream it was sent for: old and new
\* streams with the same recycled ID are not confused.
NoCrossTalk ==
  \A e \in Endpoint, cmd \in {"DATA", "CLOSE", "RESET"} :
    HasFrame(e, cmd) =>
      LET f == Head(wire[Peer(e)])
          o == mux[e].streams[f.id]
      IN o # NoObj => Partners(o, f.src)

\* Two streams an application holds open on one session have different IDs.
UniqueIDs ==
  \A o, p \in Obj :
    o # p /\ o[1] = p[1] /\ obj[o].call = "ok" /\ obj[p].call = "ok"
      /\ obj[o].state \notin Terminal /\ obj[p].state \notin Terminal
      => obj[o].id # obj[p].id
==============================================================================
