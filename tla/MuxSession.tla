----------------------------- MODULE MuxSession -----------------------------
(***************************************************************************)
(* The stream multiplexer of pkg/protocol (mux_session.go, stream_impl.go, *)
(* write_queue.go): two MuxSessions, one on the relay and one on the       *)
(* agent, joined by one reliable FIFO transport in each direction.         *)
(*                                                                         *)
(* Every goroutine of the code is a process here.  Per session: readLoop   *)
(* (rl), writeLoop (wl) and the one caller that runs Close (closing).  Per *)
(* StreamSession object: the drainStream goroutine (drain), the OpenStream *)
(* caller (call), a writer (writing), the tail of Close() (closer) and the *)
(* onReset callback (resetter).  A step is the code between two points at  *)
(* which another goroutine's step can be seen: one critical section of     *)
(* m.mu, pendingMu, s.mu or the queue's mu.                                *)
(*                                                                         *)
(* A stream OBJECT is <<e, n>>: the n-th StreamSession endpoint e created. *)
(* A stream ID names different objects over time, because freeIDs recycles *)
(* it; frames carry only the ID, so src (the sending object) and seq (the  *)
(* chunk number) of a frame are history that no action looks at.  So are   *)
(* the fields origin, closedAt and sentGoAway.                             *)
(***************************************************************************)
EXTENDS Integers, Sequences, FiniteSets

CONSTANTS
  MaxObj,    \* bound: StreamSession objects created per endpoint
  MaxWrites, \* bound: Write calls per stream object
  WriteOutCap, \* the buffer of StreamSession.writeOut (64 in the code)
  Scenarios  \* bounds: what the applications may do; see app

Operation == ({"relay", "agent"} \X {"write", "close", "reset", "cancel", "goaway",
                                     "shutdown"}) \cup {<<"network", "break">>}

ASSUME MuxAssumption ==
  /\ MaxObj \in Nat \ {0}
  /\ MaxWrites \in Nat
  /\ WriteOutCap \in Nat \ {0}
  /\ Scenarios \subseteq [opens : [{"relay", "agent"} -> Nat],
                          MaxConcurrentStreams : Nat \ {0},
                          ops : SUBSET Operation]

Endpoint == {"relay", "agent"}
Peer(e) == IF e = "relay" THEN "agent" ELSE "relay"

Obj == Endpoint \X (1 .. MaxObj)
NoObj == <<"none", 0>>
Ids == 1 .. (2 * MaxObj)

StreamState == {"Idle", "Open", "HalfClosedLocal", "HalfClosedRemote",
                "Closed", "Reset"}
Terminal == {"Closed", "Reset"}

Command == {"OPEN", "ACK", "DATA", "CLOSE", "RESET", "GOAWAY"}
Frame == [cmd : Command, id : Ids \cup {0}, src : Obj \cup {NoObj},
          seq : 0 .. MaxWrites]
NewFrame(cmd, id, src, seq) ==
  [cmd |-> cmd, id |-> id, src |-> src, seq |-> seq]

VARIABLES
  mux,   \* the MuxSession of each endpoint
  obj,   \* the StreamSession objects
  wire,  \* the frames written by e and not yet read by its peer
  up,    \* FALSE once the connection broke
  app    \* what this behaviour is made of, chosen once: the OpenStream calls of
         \* each end, its MuxConfig, and the <<end, call>> its application makes

vars == <<mux, obj, wire, up, app>>

-----------------------------------------------------------------------------
\* State of a MuxSession.

\* readLoop: "read" is ReadFrame; the others are the points inside handleFrame
\* at which other goroutines can run.
ReadPC == {"read", "remove", "inReset", "tail", "accept", "done"}
Reading == [pc |-> "read", id |-> 0, obj |-> NoObj]

Session == [
  streams : [Ids -> Obj \cup {NoObj}], \* NoObj: no entry
  nextStreamID : Nat,
  freeIDs : Seq(Ids),                  \* taken from and returned to the end
  pendingOpen : [Ids -> Obj \cup {NoObj}], \* the object whose ackCh waits
  acceptCh : Seq(Obj),
  goingAway : BOOLEAN,
  control : Seq(Frame),                \* WriteQueue.control
  data : Seq(Frame),                   \* WriteQueue.data
  closing : {"no", "signalled", "torn", "closed"},  \* progress of Close()
  rl : [pc : ReadPC, id : Ids \cup {0}, obj : Obj \cup {NoObj}],
  wl : {"run", "done"},
  calls : Nat,    \* OpenStream calls past the goingAway test, before m.mu
  opened : Nat,   \* OpenStream calls made
  count : 0 .. MaxObj,   \* objects created
  sentGoAway : BOOLEAN ]

NewMuxSession(e) == [
  streams |-> [i \in Ids |-> NoObj],
  nextStreamID |-> IF e = "relay" THEN 1 ELSE 2,
  freeIDs |-> <<>>,
  pendingOpen |-> [i \in Ids |-> NoObj],
  acceptCh |-> <<>>,
  goingAway |-> FALSE,
  control |-> <<>>,
  data |-> <<>>,
  closing |-> "no",
  rl |-> Reading,
  wl |-> "run",
  calls |-> 0,
  opened |-> 0,
  count |-> 0,
  sentGoAway |-> FALSE ]

\* State of a StreamSession and of the goroutines that work on it.
\* call - "alloc": in the map, OPEN not sent yet; "wait": OpenStream's select;
\* "canceled", "removed": before and inside removeStream; "queued": in
\* handleStreamOpen or acceptCh; "ok": held by the application.
Stream == [
  id : Ids \cup {0},
  state : StreamState,
  wrote : 0 .. MaxWrites,              \* chunks put on writeOut so far
  sent : 0 .. MaxWrites,               \* chunks drainStream took from it
  readBuf : Seq([src : Obj \cup {NoObj}, seq : 0 .. MaxWrites]),
  finCh : BOOLEAN,                     \* holds its token
  ackCh : BOOLEAN,                     \* holds its token
  drain : {"none", "select", "await", "flush", "done"},
  call : {"none", "alloc", "wait", "canceled", "removed", "failed", "queued", "ok"},
  victim : Obj \cup {NoObj},           \* the object removeStream(id) found
  writing : BOOLEAN,                   \* Write is past its state check
  closer : {"no", "notify", "remove", "done"},
  resetter : {"no", "callback", "delete", "send", "done"},
  origin : Obj \cup {NoObj},           \* the object whose OPEN created this one
  closedAt : 0 .. MaxWrites ]          \* Writes that returned before Close()

NewStreamSession == [
  id |-> 0, state |-> "Idle", wrote |-> 0, sent |-> 0, readBuf |-> <<>>,
  finCh |-> FALSE, ackCh |-> FALSE, drain |-> "none", call |-> "none",
  victim |-> NoObj, writing |-> FALSE, closer |-> "no", resetter |-> "no",
  origin |-> NoObj, closedAt |-> 0 ]

Init ==
  /\ mux = [e \in Endpoint |-> NewMuxSession(e)]
  /\ obj = [o \in Obj |-> NewStreamSession]
  /\ wire = [e \in Endpoint |-> <<>>]
  /\ up = TRUE
  /\ app \in Scenarios

-----------------------------------------------------------------------------
\* Methods of MuxSession, as functions of the session record m.

\* WriteQueue.Enqueue: a frame that arrives after Close is dropped.
EnqueueData(m, f) ==
  IF m.closing = "no" THEN [m EXCEPT !.data = Append(@, f)] ELSE m
EnqueueControl(m, f) ==
  IF m.closing = "no" THEN [m EXCEPT !.control = Append(@, f)] ELSE m

ownsID(m, id) == id % 2 = m.nextStreamID % 2

\* Mutant: recycle every ID, whoever owns it.
freeID_AnyParity(m, id) == [m EXCEPT !.freeIDs = Append(@, id)]

freeID(m, id) ==
  IF ownsID(m, id) THEN [m EXCEPT !.freeIDs = Append(@, id)] ELSE m

\* delete(m.streams, id); m.freeID(id)
Remove(m, id) == freeID([m EXCEPT !.streams[id] = NoObj], id)

\* maybeRemoveStream does not ask whether the entry is still this stream's.
maybeRemoveStream(m, id, s) == IF s.state \in Terminal THEN Remove(m, id) ELSE m

NumStreams(m) == Cardinality({i \in Ids : m.streams[i] # NoObj})

\* Methods of StreamSession, as functions of the stream record s.

isWriteClosed(s) == s.state \in {"HalfClosedLocal", "Closed", "Reset"}

\* Mutant: the FIN of the peer is ignored once the local side has closed.
RemoteClose_OpenOnly(s) ==
  IF s.state = "Open" THEN [s EXCEPT !.state = "HalfClosedRemote"] ELSE s

RemoteClose(s) ==
  CASE s.state = "Open" -> [s EXCEPT !.state = "HalfClosedRemote"]
    [] s.state = "HalfClosedLocal" -> [s EXCEPT !.state = "Closed"]
    [] OTHER -> s

\* Reset up to the release of s.mu; onReset runs next, in the same goroutine.
ResetStream(s) ==
  IF s.state \in Terminal THEN s
  ELSE [s EXCEPT !.state = "Reset", !.readBuf = <<>>, !.resetter = "callback"]

-----------------------------------------------------------------------------
\* OpenStreamWithPayload

\* The goingAway test, made before m.mu is taken.
OpenCheck(e) ==
  /\ mux[e].opened < app.opens[e]
  /\ mux' = [mux EXCEPT ![e].opened = @ + 1,
                        ![e].calls = IF mux[e].goingAway THEN @ ELSE @ + 1]
  /\ UNCHANGED <<obj, wire, up, app>>

\* Under m.mu: ErrMaxStreamsExceeded.
OpenRefused(e) ==
  /\ mux[e].calls > 0
  /\ NumStreams(mux[e]) >= app.MaxConcurrentStreams
  /\ mux' = [mux EXCEPT ![e].calls = @ - 1]
  /\ UNCHANGED <<obj, wire, up, app>>

\* Under m.mu: the last recycled ID, or else the next new one.
AllocID(m) ==
  IF m.freeIDs # <<>> THEN m.freeIDs[Len(m.freeIDs)] ELSE m.nextStreamID
TakeID(m) ==
  IF m.freeIDs # <<>>
  THEN [m EXCEPT !.freeIDs = SubSeq(@, 1, Len(@) - 1)]
  ELSE [m EXCEPT !.nextStreamID = @ + 2]

\* Under m.mu: create the stream, already Open, and enter it in the map.
OpenAlloc(e) ==
  LET m == mux[e]
      id == AllocID(m)
      o == <<e, m.count + 1>>
  IN /\ m.calls > 0
     /\ m.count < MaxObj
     /\ NumStreams(m) < app.MaxConcurrentStreams
     /\ mux' = [mux EXCEPT ![e] = [TakeID(m) EXCEPT !.streams[id] = o,
                                                    !.calls = @ - 1,
                                                    !.count = @ + 1]]
     /\ obj' = [obj EXCEPT ![o].id = id, ![o].state = "Open", ![o].call = "alloc"]
     /\ UNCHANGED <<wire, up, app>>

\* Register ackCh, enqueue STREAM_OPEN, start drainStream.
OpenSend(o) ==
  LET e == o[1]
      id == obj[o].id
  IN /\ obj[o].call = "alloc"
     /\ mux' = [mux EXCEPT ![e] =
                  EnqueueData([@ EXCEPT !.pendingOpen[id] = o],
                              NewFrame("OPEN", id, o, 0))]
     /\ obj' = [obj EXCEPT ![o].call = "wait", ![o].drain = "select"]
     /\ UNCHANGED <<wire, up, app>>

\* case <-ackCh
OpenAcked(o) ==
  /\ obj[o].call = "wait"
  /\ obj[o].ackCh
  /\ obj' = [obj EXCEPT ![o].call = "ok", ![o].ackCh = FALSE]
  /\ UNCHANGED <<mux, wire, up, app>>

\* case <-ctx.Done(): cleanupPendingOpen ...
OpenCanceled(o) ==
  /\ <<o[1], "cancel">> \in app.ops
  /\ obj[o].call = "wait"
  /\ mux' = [mux EXCEPT ![o[1]].pendingOpen[obj[o].id] = NoObj]
  /\ obj' = [obj EXCEPT ![o].call = "canceled"]
  /\ UNCHANGED <<wire, up, app>>

\* ... then removeStream: under m.mu, whatever stream has the ID by now ...
removeStream(o) ==
  LET e == o[1]
      id == obj[o].id
      p == mux[e].streams[id]
  IN /\ obj[o].call = "canceled"
     /\ mux' = [mux EXCEPT ![e] = IF p # NoObj THEN Remove(@, id) ELSE @]
     /\ obj' = [obj EXCEPT ![o].call = IF p # NoObj THEN "removed" ELSE "failed",
                           ![o].victim = p]
     /\ UNCHANGED <<wire, up, app>>

\* ... and, m.mu released, Reset of that stream.
CancelReset(o) ==
  LET p == obj[o].victim IN
  /\ obj[o].call = "removed"
  /\ obj' = [[obj EXCEPT ![o].call = "failed"] EXCEPT ![p] = ResetStream(@)]
  /\ UNCHANGED <<mux, wire, up, app>>

\* Mutant: the select of OpenStream has no closeCh case.
OpenClosed_Missing(o) == FALSE /\ UNCHANGED vars

\* case <-m.closeCh: cleanupPendingOpen, and nothing else.
OpenClosed(o) ==
  /\ obj[o].call = "wait"
  /\ mux[o[1]].closing # "no"
  /\ mux' = [mux EXCEPT ![o[1]].pendingOpen[obj[o].id] = NoObj]
  /\ obj' = [obj EXCEPT ![o].call = "failed"]
  /\ UNCHANGED <<wire, up, app>>

\* AcceptStream: case s := <-m.acceptCh.  After Close this case may still be
\* picked: select chooses among all that are ready.
AcceptStream(e) ==
  /\ mux[e].acceptCh # <<>>
  /\ mux' = [mux EXCEPT ![e].acceptCh = Tail(@)]
  /\ obj' = [obj EXCEPT ![Head(mux[e].acceptCh)].call = "ok"]
  /\ UNCHANGED <<wire, up, app>>

-----------------------------------------------------------------------------
\* Calls on a stream by the application that holds it

\* Write: the state check under s.mu ...
WriteCheck(o) ==
  /\ <<o[1], "write">> \in app.ops
  /\ obj[o].call = "ok"
  /\ ~obj[o].writing
  /\ obj[o].wrote < MaxWrites
  /\ ~isWriteClosed(obj[o])
  /\ obj' = [obj EXCEPT ![o].writing = TRUE]
  /\ UNCHANGED <<mux, wire, up, app>>

\* ... then, without s.mu, the select on writeOut, which may be full, and
\* closedCh.
WritePut(o) ==
  /\ obj[o].writing
  /\ obj[o].wrote - obj[o].sent < WriteOutCap
  /\ obj' = [obj EXCEPT ![o].writing = FALSE, ![o].wrote = @ + 1]
  /\ UNCHANGED <<mux, wire, up, app>>

WriteAborted(o) ==
  /\ obj[o].writing
  /\ obj[o].state \in Terminal
  /\ obj' = [obj EXCEPT ![o].writing = FALSE]
  /\ UNCHANGED <<mux, wire, up, app>>

\* Close(): the transition under s.mu; a no-op in the other states.
CloseLocal(o) ==
  /\ <<o[1], "close">> \in app.ops
  /\ obj[o].call = "ok"
  /\ obj[o].state \in {"Open", "HalfClosedRemote"}
  /\ obj' = [obj EXCEPT ![o].state = IF @ = "Open" THEN "HalfClosedLocal"
                                                   ELSE "Closed",
                        ![o].closer = "notify",
                        ![o].closedAt = obj[o].wrote]
  /\ UNCHANGED <<mux, wire, up, app>>

\* Close(): finCh <- struct{}{}
CloseNotify(o) ==
  /\ obj[o].closer = "notify"
  /\ obj' = [obj EXCEPT ![o].closer = "remove", ![o].finCh = TRUE]
  /\ UNCHANGED <<mux, wire, up, app>>

\* Close(): onLocalClose
CloseRemove(o) ==
  /\ obj[o].closer = "remove"
  /\ obj' = [obj EXCEPT ![o].closer = "done"]
  /\ mux' = [mux EXCEPT ![o[1]] = maybeRemoveStream(@, obj[o].id, obj[o])]
  /\ UNCHANGED <<wire, up, app>>

\* Reset()
ResetLocal(o) ==
  /\ <<o[1], "reset">> \in app.ops
  /\ obj[o].call = "ok"
  /\ obj[o].state \notin Terminal
  /\ obj' = [obj EXCEPT ![o] = ResetStream(@)]
  /\ UNCHANGED <<mux, wire, up, app>>

\* onReset: nothing during teardown ...
OnReset(o) ==
  /\ obj[o].resetter = "callback"
  /\ obj' = [obj EXCEPT ![o].resetter =
                IF mux[o[1]].closing = "no" THEN "delete" ELSE "done"]
  /\ UNCHANGED <<mux, wire, up, app>>

\* ... otherwise delete the map entry of this ID, whichever stream's it is.
OnResetDelete(o) ==
  LET exists == mux[o[1]].streams[obj[o].id] # NoObj
  IN /\ obj[o].resetter = "delete"
     /\ mux' = [mux EXCEPT ![o[1]] = IF exists THEN Remove(@, obj[o].id) ELSE @]
     /\ obj' = [obj EXCEPT ![o].resetter = IF exists THEN "send" ELSE "done"]
     /\ UNCHANGED <<wire, up, app>>

\* Mutant: the local reset is not announced.
SendReset_Silent(o) ==
  /\ obj[o].resetter = "send"
  /\ obj' = [obj EXCEPT ![o].resetter = "done"]
  /\ UNCHANGED <<mux, wire, up, app>>

\* onReset: enqueue STREAM_RESET
SendReset(o) ==
  /\ obj[o].resetter = "send"
  /\ mux' = [mux EXCEPT ![o[1]] =
               EnqueueControl(@, NewFrame("RESET", obj[o].id, o, 0))]
  /\ obj' = [obj EXCEPT ![o].resetter = "done"]
  /\ UNCHANGED <<wire, up, app>>

-----------------------------------------------------------------------------
\* drainStream: each select takes any case that is ready

\* Mutant: take one chunk more than there is.
DrainData_OffByOne(o) ==
  /\ obj[o].drain \in {"select", "flush"}
  /\ obj[o].sent <= obj[o].wrote
  /\ mux' = [mux EXCEPT ![o[1]] =
               EnqueueData(@, NewFrame("DATA", obj[o].id, o, obj[o].sent + 1))]
  /\ obj' = [obj EXCEPT ![o].sent = @ + 1]
  /\ UNCHANGED <<wire, up, app>>

\* case data := <-s.writeOut, in drainStream and in flushAndFIN
DrainData(o) ==
  /\ obj[o].drain \in {"select", "flush"}
  /\ obj[o].sent < obj[o].wrote
  /\ mux' = [mux EXCEPT ![o[1]] =
               EnqueueData(@, NewFrame("DATA", obj[o].id, o, obj[o].sent + 1))]
  /\ obj' = [obj EXCEPT ![o].sent = @ + 1]
  /\ UNCHANGED <<wire, up, app>>

\* case <-s.finCh, in drainStream and in awaitFIN
DrainFin(o) ==
  /\ obj[o].drain \in {"select", "await"}
  /\ obj[o].finCh
  /\ obj' = [obj EXCEPT ![o].finCh = FALSE, ![o].drain = "flush"]
  /\ UNCHANGED <<mux, wire, up, app>>

\* Mutants: wait for FIN after a Reset too; return without FIN when Closed.
DrainClosed_AwaitAlways(o) ==
  /\ obj[o].drain = "select"
  /\ obj[o].state \in Terminal
  /\ obj' = [obj EXCEPT ![o].drain = "await"]
  /\ UNCHANGED <<mux, wire, up, app>>
DrainClosed_NoFin(o) ==
  /\ obj[o].drain = "select"
  /\ obj[o].state \in Terminal
  /\ obj' = [obj EXCEPT ![o].drain = "done"]
  /\ UNCHANGED <<mux, wire, up, app>>

\* case <-s.closedCh
DrainClosed(o) ==
  /\ obj[o].drain = "select"
  /\ obj[o].state \in Terminal
  /\ obj' = [obj EXCEPT ![o].drain = IF obj[o].state = "Reset" THEN "done"
                                                               ELSE "await"]
  /\ UNCHANGED <<mux, wire, up, app>>

\* Mutants: FIN first and the buffered writes after it; FIN without a flush.
DrainFlushed_FinFirst(o) ==
  /\ obj[o].drain = "flush"
  /\ mux' = [mux EXCEPT ![o[1]] =
               EnqueueData(@, NewFrame("CLOSE", obj[o].id, o, 0))]
  /\ obj' = [obj EXCEPT ![o].drain = "select"]
  /\ UNCHANGED <<wire, up, app>>
DrainFlushed_NoFlush(o) ==
  /\ obj[o].drain = "flush"
  /\ mux' = [mux EXCEPT ![o[1]] =
               EnqueueData(@, NewFrame("CLOSE", obj[o].id, o, 0))]
  /\ obj' = [obj EXCEPT ![o].drain = "done"]
  /\ UNCHANGED <<wire, up, app>>

\* flushAndFIN, default: writeOut is empty
DrainFlushed(o) ==
  /\ obj[o].drain = "flush"
  /\ obj[o].sent = obj[o].wrote
  /\ mux' = [mux EXCEPT ![o[1]] =
               EnqueueData(@, NewFrame("CLOSE", obj[o].id, o, 0))]
  /\ obj' = [obj EXCEPT ![o].drain = "done"]
  /\ UNCHANGED <<wire, up, app>>

\* case <-m.closeCh
DrainStop(o) ==
  /\ obj[o].drain \in {"select", "await"}
  /\ mux[o[1]].closing # "no"
  /\ obj' = [obj EXCEPT ![o].drain = "done"]
  /\ UNCHANGED <<mux, wire, up, app>>

-----------------------------------------------------------------------------
\* readLoop: ReadFrame, then handleFrame

HasFrame(e, cmd) ==
  /\ mux[e].rl.pc = "read"
  /\ mux[e].closing # "closed"
  /\ wire[Peer(e)] # <<>>
  /\ Head(wire[Peer(e)]).cmd = cmd

ReadFrame(e) == wire' = [wire EXCEPT ![Peer(e)] = Tail(@)]

\* Mutant: the waiting OpenStream is not notified.
RecvAck_Unnotified(e) ==
  /\ HasFrame(e, "ACK")
  /\ ReadFrame(e)
  /\ mux' = [mux EXCEPT ![e].pendingOpen[Head(wire[Peer(e)]).id] = NoObj]
  /\ UNCHANGED <<obj, up, app>>

\* handleStreamOpen with the ACK flag
RecvAck(e) ==
  LET f == Head(wire[Peer(e)])
      o == mux[e].pendingOpen[f.id]
  IN /\ HasFrame(e, "ACK")
     /\ ReadFrame(e)
     /\ mux' = [mux EXCEPT ![e].pendingOpen[f.id] = NoObj]
     /\ obj' = IF o # NoObj THEN [obj EXCEPT ![o].ackCh = TRUE] ELSE obj
     /\ UNCHANGED <<up, app>>

\* handleStreamOpen, acceptPeerOpen says no: an active ID is dropped, an ID of
\* the local parity is answered with STREAM_RESET.
RejectOpen(e) ==
  LET f == Head(wire[Peer(e)])
      active == mux[e].streams[f.id] # NoObj
  IN /\ HasFrame(e, "OPEN")
     /\ active \/ ownsID(mux[e], f.id)
     /\ ReadFrame(e)
     /\ mux' = IF active THEN mux
               ELSE [mux EXCEPT ![e] =
                       EnqueueControl(@, NewFrame("RESET", f.id, NoObj, 0))]
     /\ UNCHANGED <<obj, up, app>>

\* handleStreamOpen: create the stream, start drainStream, enqueue the ACK.
RecvOpen(e) ==
  LET f == Head(wire[Peer(e)])
      m == mux[e]
      o == <<e, m.count + 1>>
  IN /\ HasFrame(e, "OPEN")
     /\ m.streams[f.id] = NoObj /\ ~ownsID(m, f.id)
     /\ m.count < MaxObj
     /\ ReadFrame(e)
     /\ mux' = [mux EXCEPT ![e] =
                  EnqueueData([m EXCEPT !.streams[f.id] = o,
                                        !.count = @ + 1,
                                        !.rl = [pc |-> "accept", id |-> f.id, obj |-> o]],
                              NewFrame("ACK", f.id, o, 0))]
     /\ obj' = [obj EXCEPT ![o].id = f.id, ![o].state = "Open",
                           ![o].call = "queued", ![o].drain = "select",
                           ![o].origin = f.src]
     /\ UNCHANGED <<up, app>>

\* handleStreamOpen: the select that delivers to AcceptStream.  A full acceptCh
\* stops the read loop here.
Deliver(e) ==
  /\ mux[e].rl.pc = "accept"
  /\ \/ /\ Len(mux[e].acceptCh) < app.MaxConcurrentStreams
        /\ mux' = [mux EXCEPT ![e].acceptCh = Append(@, mux[e].rl.obj),
                              ![e].rl = Reading]
     \/ /\ mux[e].closing # "no"
        /\ mux' = [mux EXCEPT ![e].rl = Reading]
  /\ UNCHANGED <<obj, wire, up, app>>

\* handleStreamData: Deliver appends whatever the state.  No sender in this
\* code sets FIN on STREAM_DATA.
RecvData(e) ==
  LET f == Head(wire[Peer(e)])
      o == mux[e].streams[f.id]
  IN /\ HasFrame(e, "DATA")
     /\ ReadFrame(e)
     /\ obj' = IF o = NoObj THEN obj
               ELSE [obj EXCEPT ![o].readBuf =
                       Append(@, [src |-> f.src, seq |-> f.seq])]
     /\ UNCHANGED <<mux, up, app>>

\* handleStreamClose: look the ID up, RemoteClose ...
RecvClose(e) ==
  LET f == Head(wire[Peer(e)])
      o == mux[e].streams[f.id]
  IN /\ HasFrame(e, "CLOSE")
     /\ ReadFrame(e)
     /\ IF o = NoObj THEN UNCHANGED <<mux, obj, app>>
        ELSE /\ obj' = [obj EXCEPT ![o] = RemoteClose(@)]
             /\ mux' = [mux EXCEPT ![e].rl = [pc |-> "remove", id |-> f.id, obj |-> o]]
     /\ UNCHANGED <<up, app>>

\* ... then maybeRemoveStream
RemoveClosed(e) ==
  LET r == mux[e].rl IN
  /\ r.pc = "remove"
  /\ mux' = [mux EXCEPT ![e] = [maybeRemoveStream(@, r.id, obj[r.obj])
                                 EXCEPT !.rl = Reading]]
  /\ UNCHANGED <<obj, wire, up, app>>

\* handleStreamReset: look the ID up and Reset; when this Reset changed the
\* state, the read loop itself runs onReset ("inReset").
RecvReset(e) ==
  LET f == Head(wire[Peer(e)])
      o == mux[e].streams[f.id]
      pc == IF obj[o].state \in Terminal THEN "tail" ELSE "inReset"
  IN /\ HasFrame(e, "RESET")
     /\ ReadFrame(e)
     /\ IF o = NoObj THEN UNCHANGED <<mux, obj, app>>
        ELSE /\ obj' = [obj EXCEPT ![o] = ResetStream(@)]
             /\ mux' = [mux EXCEPT ![e].rl = [pc |-> pc, id |-> f.id, obj |-> o]]
     /\ UNCHANGED <<up, app>>

\* handleStreamReset: remove the entry if the ID still has one.
ResetTail(e) ==
  LET m == mux[e] IN
  /\ \/ m.rl.pc = "tail"
     \/ m.rl.pc = "inReset" /\ obj[m.rl.obj].resetter = "done"
  /\ mux' = [mux EXCEPT ![e] =
               [IF m.streams[m.rl.id] # NoObj THEN Remove(m, m.rl.id) ELSE m
                 EXCEPT !.rl = Reading]]
  /\ UNCHANGED <<obj, wire, up, app>>

\* handleGoAway
RecvGoAway(e) ==
  /\ HasFrame(e, "GOAWAY")
  /\ ReadFrame(e)
  /\ mux' = [mux EXCEPT ![e].goingAway = TRUE]
  /\ UNCHANGED <<obj, up, app>>

-----------------------------------------------------------------------------
\* writeLoop, GoAway, Close and the transport

\* Dequeue: control before data.
Dequeue(m) ==
  IF m.control # <<>> THEN [m EXCEPT !.control = Tail(@)]
                      ELSE [m EXCEPT !.data = Tail(@)]
NextFrame(m) == IF m.control # <<>> THEN Head(m.control) ELSE Head(m.data)
Queued(m) == m.control # <<>> \/ m.data # <<>>

\* Dequeue and WriteFrame.  The loop tests closeCh before each Dequeue, so it
\* writes at most one frame after Close() began.
WriteLoop(e) ==
  /\ mux[e].wl = "run"
  /\ Queued(mux[e])
  /\ up /\ mux[e].closing # "closed"
  /\ wire' = [wire EXCEPT ![e] = Append(@, NextFrame(mux[e]))]
  /\ mux' = [mux EXCEPT ![e] =
               [Dequeue(@) EXCEPT !.wl = IF mux[e].closing = "no" THEN "run" ELSE "done"]]
  /\ UNCHANGED <<obj, up, app>>

\* The first part of Close(), for whoever calls it first: closeCh, queue closed.
StartClose(m) == IF m.closing = "no" THEN [m EXCEPT !.closing = "signalled"] ELSE m

Gone(e) == ~up \/ mux["relay"].closing = "closed" \/ mux["agent"].closing = "closed"

WriteError(e) ==
  /\ mux[e].wl = "run"
  /\ Queued(mux[e])
  /\ Gone(e)
  /\ mux' = [mux EXCEPT ![e] = StartClose([Dequeue(@) EXCEPT !.wl = "done"])]
  /\ UNCHANGED <<obj, wire, up, app>>

WriteLoopExit(e) ==
  /\ mux[e].wl = "run"
  /\ mux[e].closing # "no"
  /\ mux' = [mux EXCEPT ![e].wl = "done"]
  /\ UNCHANGED <<obj, wire, up, app>>

ReadError(e) ==
  /\ mux[e].rl.pc = "read"
  /\ \/ mux[e].closing = "closed"
     \/ ~up
     \/ mux[Peer(e)].closing = "closed" /\ wire[Peer(e)] = <<>>
  /\ mux' = [mux EXCEPT ![e] = StartClose([@ EXCEPT !.rl.pc = "done"])]
  /\ UNCHANGED <<obj, wire, up, app>>

Close(e) ==
  /\ <<e, "shutdown">> \in app.ops
  /\ mux[e].closing = "no"
  /\ mux' = [mux EXCEPT ![e] = StartClose(@)]
  /\ UNCHANGED <<obj, wire, up, app>>

\* Under m.mu: Reset every stream of the map (onReset returns at once: closeCh
\* is closed) and replace the map.
CloseStreams(e) ==
  LET m == mux[e]
      Live(o) == \E i \in Ids : m.streams[i] = o
      TornDown(s) == IF s.state \in Terminal THEN s
                     ELSE [ResetStream(s) EXCEPT !.resetter = "done"]
  IN /\ m.closing = "signalled"
     /\ obj' = [o \in Obj |-> IF Live(o) THEN TornDown(obj[o]) ELSE obj[o]]
     /\ mux' = [mux EXCEPT ![e].closing = "torn",
                           ![e].streams = [i \in Ids |-> NoObj]]
     /\ UNCHANGED <<wire, up, app>>

CloseTransport(e) ==
  /\ mux[e].closing = "torn"
  /\ mux' = [mux EXCEPT ![e].closing = "closed"]
  /\ UNCHANGED <<obj, wire, up, app>>

GoAway(e) ==
  /\ <<e, "goaway">> \in app.ops
  /\ ~mux[e].sentGoAway
  /\ mux' = [mux EXCEPT ![e] =
               EnqueueControl([@ EXCEPT !.goingAway = TRUE, !.sentGoAway = TRUE],
                              NewFrame("GOAWAY", 0, NoObj, 0))]
  /\ UNCHANGED <<obj, wire, up, app>>

\* The connection fails: what is in flight is lost, in both directions.
Break ==
  /\ <<"network", "break">> \in app.ops
  /\ up
  /\ up' = FALSE
  /\ wire' = [e \in Endpoint |-> <<>>]
  /\ UNCHANGED <<mux, obj, app>>

-----------------------------------------------------------------------------
\* What the application may do, and what the session's goroutines do.

AppCall(e) == OpenCheck(e) \/ Close(e) \/ GoAway(e)
StreamCall(o) == WriteCheck(o) \/ CloseLocal(o) \/ ResetLocal(o) \/ OpenCanceled(o)

OpenStep(e) == OpenRefused(e) \/ OpenAlloc(e)
OpenerStep(o) ==
  \/ OpenSend(o) \/ OpenAcked(o) \/ OpenClosed(o)
  \/ removeStream(o) \/ CancelReset(o)
WriterStep(o) == WritePut(o) \/ WriteAborted(o)
CloserStep(o) == CloseNotify(o) \/ CloseRemove(o)
ResetterStep(o) == OnReset(o) \/ OnResetDelete(o) \/ SendReset(o)
DrainStep(o) ==
  \/ DrainData(o) \/ DrainFin(o) \/ DrainClosed(o) \/ DrainFlushed(o)
  \/ DrainStop(o)
ReadStep(e) ==
  \/ RecvAck(e) \/ RejectOpen(e) \/ RecvOpen(e) \/ Deliver(e) \/ RecvData(e)
  \/ RecvClose(e) \/ RemoveClosed(e) \/ RecvReset(e) \/ ResetTail(e)
  \/ RecvGoAway(e) \/ ReadError(e)
WriteStep(e) == WriteLoop(e) \/ WriteError(e) \/ WriteLoopExit(e)
CloseStep(e) == CloseStreams(e) \/ CloseTransport(e)

Next ==
  \/ \E e \in Endpoint :
       \/ AppCall(e) \/ OpenStep(e) \/ AcceptStream(e)
       \/ ReadStep(e) \/ WriteStep(e) \/ CloseStep(e)
  \/ \E o \in Obj :
       \/ StreamCall(o) \/ OpenerStep(o) \/ WriterStep(o)
       \/ CloserStep(o) \/ ResetterStep(o) \/ DrainStep(o)
  \/ Break

Spec == Init /\ [][Next]_vars

\* Every goroutine that can run eventually runs, and the application keeps
\* calling AcceptStream (the agent's acceptLoop); no other call is promised.
Fairness ==
  /\ \A e \in Endpoint :
       /\ WF_vars(OpenStep(e)) /\ WF_vars(AcceptStream(e))
       /\ WF_vars(ReadStep(e)) /\ WF_vars(WriteStep(e)) /\ WF_vars(CloseStep(e))
  /\ \A o \in Obj :
       /\ WF_vars(OpenerStep(o)) /\ WF_vars(WriterStep(o))
       /\ WF_vars(CloserStep(o)) /\ WF_vars(ResetterStep(o))
       /\ WF_vars(DrainStep(o))

FairSpec == Spec /\ Fairness

-----------------------------------------------------------------------------
\* Properties

\* Type invariant of the two sessions, their streams and the transport.
TypeOK ==
  /\ mux \in [Endpoint -> Session]
  /\ obj \in [Obj -> Stream]
  /\ wire \in [Endpoint -> Seq(Frame)]
  /\ up \in BOOLEAN

LocallyOpened(o) == obj[o].id # 0 /\ obj[o].origin = NoObj

\* The two ends never pick the same stream ID, however often IDs are recycled
\* (freeID keeps only IDs of the local parity), so a peer's STREAM_OPEN never
\* falls in the receiver's own ID space and the reset branch of acceptPeerOpen
\* is dead between two sessions of this code.
IdSpacesDisjoint ==
  /\ \A o, p \in Obj :
       LocallyOpened(o) /\ LocallyOpened(p) /\ o[1] # p[1]
         => obj[o].id # obj[p].id
  /\ \A e \in Endpoint : \A i \in DOMAIN wire[Peer(e)] :
       wire[Peer(e)][i].cmd = "OPEN" => ~ownsID(mux[e], wire[Peer(e)][i].id)

\* drainStream and flushAndFIN: no data frame of a stream follows its
\* STREAM_CLOSE+FIN, even when Write races with Close ("a Close() issued right
\* after Write() can never overtake the data").
FinLast ==
  \A e \in Endpoint :
    LET out == wire[e] \o mux[e].data IN
    \A i, j \in DOMAIN out :
      i < j /\ out[i].cmd = "CLOSE" /\ out[j].cmd = "DATA"
        => out[i].src # out[j].src

Partners(o, p) == obj[o].origin = p \/ obj[p].origin = o

\* No session has given one ID to two of its streams.
IDsUsedOnce ==
  \A o, p \in Obj :
    o # p /\ o[1] = p[1] /\ obj[o].id # 0 => obj[o].id # obj[p].id

\* End to end, while no ID has been used twice: a stream that was not reset
\* receives its partner's chunks in order, and once it has seen the FIN (Read
\* returns io.EOF after the buffer) it holds every chunk whose Write returned
\* before the partner's Close() was called.
NoTruncation ==
  IDsUsedOnce =>
    \A o, p \in Obj :
      Partners(o, p) =>
        /\ obj[o].state # "Reset" => \A i \in DOMAIN obj[o].readBuf :
             obj[o].readBuf[i] = [src |-> p, seq |-> i]
        /\ obj[o].state \in {"HalfClosedRemote", "Closed"} =>
             /\ Len(obj[o].readBuf) = obj[p].sent
             /\ obj[p].sent >= obj[p].closedAt
=============================================================================
