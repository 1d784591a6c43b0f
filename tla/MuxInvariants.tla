--------------------------- MODULE MuxInvariants ----------------------------
(***************************************************************************)
(* The inductive invariants of MuxSession.                                 *)
(*                                                                         *)
(* IndInv: a session is good (GoodSession) when its next and recycled IDs  *)
(* have its own parity, its queued frames are good and every stream it     *)
(* refers to is in use (has an ID); a stream is good (GoodStream) when its *)
(* goroutines run only if it is in use and an ID it opened itself has the  *)
(* parity of its end; an OPEN frame carries the parity of its sender.      *)
(*                                                                         *)
(* PipeInv adds three parts to IndInv.  LinkInv: map entries, queued       *)
(* frames and buffered chunks name streams of the right end with the right *)
(* ID.  FinInv: no data frame of a stream is behind its FIN in a queue, on *)
(* the transport or across the two.  FlowInv: the chunks of a stream that  *)
(* its reader lacks are on the transport and then in the write queue, in   *)
(* order and without a gap, for as long as they can still arrive, and all  *)
(* of them are there when a FIN is; so a reader at end of file has them    *)
(* all.                                                                    *)
(***************************************************************************)
EXTENDS MuxSession

\* The parity NewMuxSession gives the stream IDs of endpoint e.
Parity(e) == IF e = "relay" THEN 1 ELSE 0

\* A frame sent by e.
GoodFrame(f, e) ==
  /\ f \in Frame
  /\ f.cmd # "GOAWAY" => f.id # 0
  /\ f.cmd = "OPEN" => f.src \in Obj /\ f.id % 2 = Parity(e)

\* A queue of frames sent by e.
GoodFrames(q, e) ==
  /\ q \in Seq(Frame)
  /\ \A i \in DOMAIN q : GoodFrame(q[i], e)

\* readLoop r inside a handler: it has an ID and a stream in use.
GoodReader(r, U) ==
  r.pc \notin {"read", "done"} => r.id # 0 /\ r.obj \in U

\* A session m of endpoint e when U is the set of streams in use.
GoodSession(m, e, U) ==
  /\ m \in Session
  /\ m.nextStreamID % 2 = Parity(e)
  /\ 0 < m.nextStreamID /\ m.nextStreamID <= 2 * m.count + 2
  /\ \A i \in DOMAIN m.freeIDs : m.freeIDs[i] % 2 = Parity(e)
  /\ \A i \in Ids : m.streams[i] \in U \cup {NoObj}
  /\ \A i \in Ids : m.pendingOpen[i] \in U \cup {NoObj}
  /\ \A i \in DOMAIN m.acceptCh : m.acceptCh[i] \in U
  /\ GoodReader(m.rl, U)
  /\ GoodFrames(m.control, e)
  /\ GoodFrames(m.data, e)

\* A stream s of endpoint e when U is the set of streams in use.
GoodStream(s, e, U) ==
  /\ s \in Stream
  /\ s.id = 0 => /\ s.call = "none" /\ s.drain = "none" /\ ~s.writing
                 /\ s.closer = "no" /\ s.resetter = "no"
  /\ s.id # 0 /\ s.origin = NoObj => s.id % 2 = Parity(e)
  /\ s.call = "alloc" => s.id % 2 = Parity(e)
  /\ s.call = "removed" => s.victim \in U
  /\ s.writing => s.wrote < MaxWrites
  /\ s.sent <= s.wrote

\* The stream objects that were created: they have an ID.
Used == {o \in Obj : obj[o].id # 0}

\* The inductive invariant.
IndInv ==
  /\ mux \in [Endpoint -> Session]
  /\ obj \in [Obj -> Stream]
  /\ wire \in [Endpoint -> Seq(Frame)]
  /\ up \in BOOLEAN
  /\ \A e \in Endpoint : GoodSession(mux[e], e, Used)
  /\ \A o \in Obj : GoodStream(obj[o], o[1], Used)
  /\ \A e \in Endpoint : GoodFrames(wire[e], e)

-----------------------------------------------------------------------------
\* The data path

\* In what follows S is the function obj, before or after a step.

\* o and p are the two ends of one stream: one ID, on the two sides.
Linked(o, p, S) == o[1] # p[1] /\ S[o].id # 0 /\ S[o].id = S[p].id

\* Some object of the other side is the other end of o.
Known(o, S) == \E p \in Obj : Linked(o, p, S)

\* An entry of a map of endpoint e is an object of e with that ID.
OwnEntry(o, e, i, S) == o # NoObj => o[1] = e /\ S[o].id = i

\* What session m of endpoint e refers to.
NamedSession(m, e, S) ==
  /\ \A i \in Ids : OwnEntry(m.streams[i], e, i, S) /\ OwnEntry(m.pendingOpen[i], e, i, S)
  /\ \A i \in DOMAIN m.acceptCh : S[m.acceptCh[i]].origin # NoObj
  /\ m.rl.pc = "accept" => S[m.rl.obj].origin # NoObj
  /\ \A i \in DOMAIN m.control : m.control[i].cmd \in {"RESET", "GOAWAY"}

\* How the goroutines of one stream hang together.
LifeCycle(s) ==
  /\ s.wrote > 0 \/ s.writing \/ s.closer # "no" => s.call = "ok"
  /\ s.closer # "no" => s.state \in {"HalfClosedLocal", "Closed", "Reset"}
  /\ s.closedAt <= s.wrote
  /\ s.finCh \/ s.drain = "flush" => s.closer # "no"
  /\ s.call = "alloc" => s.drain = "none"

\* A frame of endpoint e tells the truth about the stream that sent it.
SentFrame(f, e, S) ==
  f.cmd \in {"OPEN", "ACK", "DATA", "CLOSE"} =>
    /\ f.src \in Obj /\ f.src[1] = e /\ f.id = S[f.src].id
    /\ f.cmd = "ACK" => S[f.src].origin # NoObj
    /\ f.cmd = "DATA" => f.seq >= 1 /\ f.seq <= S[f.src].sent
    /\ f.cmd = "CLOSE" => /\ S[f.src].drain = "done" /\ S[f.src].closer # "no"
                          /\ S[f.src].closedAt <= S[f.src].sent

\* So does every frame of queue q.
SentFrames(q, e, S) == \A i \in DOMAIN q : SentFrame(q[i], e, S)

\* The states of a stream that has seen its partner's FIN.
Eof == {"HalfClosedRemote", "Closed"}

\* What stream o got from the other side came from the other end of the stream.
Settled(o, S) ==
  /\ LifeCycle(S[o])
  /\ S[o].origin # NoObj => Linked(o, S[o].origin, S)
  /\ S[o].ackCh \/ S[o].call \in {"queued", "ok"} \/ S[o].state \in Eof => Known(o, S)
  /\ \A i \in DOMAIN S[o].readBuf : /\ S[o].readBuf[i].src \in Obj
                                    /\ Linked(o, S[o].readBuf[i].src, S)

\* Objects are created in order, and nothing happens to one before that.
Fresh == \A o \in Obj : o[2] > mux[o[1]].count => obj[o] = NewStreamSession

\* Names lead where they should, in both sessions and on the transport.
LinkInv ==
  /\ Fresh
  /\ \A e \in Endpoint : NamedSession(mux[e], e, obj)
  /\ \A e \in Endpoint : SentFrames(mux[e].data, e, obj) /\ SentFrames(wire[e], e, obj)
  /\ \A o \in Obj : Settled(o, obj)

\* f is a data frame of stream p, its FIN; queue q holds that FIN.
DataOf(f, p) == f.cmd = "DATA" /\ f.src = p
FinOf(f, p) == f.cmd = "CLOSE" /\ f.src = p
HasFin(q, p) == \E i \in DOMAIN q : FinOf(q[i], p)

\* In queue q no stream's data is behind its FIN.
FinOrder(q) ==
  \A i, j \in DOMAIN q :
    i < j /\ q[i].cmd = "CLOSE" /\ q[j].cmd = "DATA" => q[i].src # q[j].src

\* Nor is it across the write queue and the transport.
FinInv ==
  \A e \in Endpoint :
    /\ FinOrder(wire[e]) /\ FinOrder(mux[e].data)
    /\ \A i \in DOMAIN mux[e].data :
         mux[e].data[i].cmd = "DATA" => ~HasFin(wire[e], mux[e].data[i].src)

\* The DATA frames of p in queue q are those of the chunks a + 1 .. b, in order.
Carries(q, p, a, b) ==
  /\ \A i \in DOMAIN q : DataOf(q[i], p) => a < q[i].seq /\ q[i].seq <= b
  /\ \A k \in a + 1 .. b : \E i \in DOMAIN q : DataOf(q[i], p) /\ q[i].seq = k
  /\ \A i, j \in DOMAIN q :
       i < j /\ DataOf(q[i], p) /\ DataOf(q[j], p) => q[i].seq < q[j].seq

\* Queue q takes p's chunks from a to b, and to the last one sent if it holds
\* p's FIN, or if it belongs to a session that is not closing.
Reaches(q, p, a, b, sent, closing) ==
  /\ a <= b /\ b <= sent
  /\ Carries(q, p, a, b)
  /\ closing = "no" \/ HasFin(q, p) => b = sent

\* Session m writes what it has queued, as long as the connection is up.
CanSend(m, u) == u = TRUE /\ m.wl = "run" /\ m.closing # "closed"

\* p's chunks from n + 1: on the transport w and, while they can still get
\* there, in the write queue of session m.
InFlight(p, n, sent, w, m, u) ==
  \E a \in Nat :
    /\ Reaches(w, p, n, a, sent, "optional")
    /\ CanSend(m, u) => \E b \in Nat : Reaches(m.data, p, a, b, sent, m.closing)

\* From p to o, two ends of one stream that o has not reset.
Flow(o, p) ==
  LET e == p[1] IN
  /\ \A i \in DOMAIN obj[o].readBuf : obj[o].readBuf[i].seq = i
  /\ obj[o].state \in Eof =>
       /\ Len(obj[o].readBuf) = obj[p].sent
       /\ obj[p].closedAt <= obj[p].sent
       /\ obj[p].drain = "done" /\ obj[p].closer # "no"
  /\ mux[o[1]].streams[obj[o].id] = o =>
       InFlight(p, Len(obj[o].readBuf), obj[p].sent, wire[e], mux[e], up)

\* Every stream flows, while no ID has been used twice.
FlowInv ==
  IDsUsedOnce =>
    \A o, p \in Obj : Linked(o, p, obj) /\ obj[o].state # "Reset" => Flow(o, p)

\* The inductive invariant of the data path.
PipeInv == IndInv /\ LinkInv /\ FinInv /\ FlowInv
=============================================================================
