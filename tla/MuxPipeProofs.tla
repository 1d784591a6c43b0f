--------------------------- MODULE MuxPipeProofs ----------------------------
(***************************************************************************)
(* The steps of MuxSession that put a frame of a stream in a queue (Sends),*)
(* apply one to a stream (Receives) or create a stream (Creates) keep the  *)
(* three parts of PipeInv, for every value of the constants.               *)
(***************************************************************************)
EXTENDS MuxQuietProofs

\* A stream's ID and its read buffer.
LEMMA StreamShape ==
  ASSUME NEW s \in Stream
  PROVE  (s.id # 0 => s.id \in Ids) /\ Len(s.readBuf) \in Nat
  BY DEF Stream

\* newStream, field by field.
LEMMA NewFields ==
  LET s == NewStreamSession IN
  s.id = 0 /\ s.sent = 0 /\ s.drain = "none" /\ s.closer = "no"
  BY DEF NewStreamSession

\* The counters of a session.
LEMMA SessionNumbers ==
  ASSUME NEW m \in Session
  PROVE  m.nextStreamID \in Nat /\ m.count \in Nat
  BY MuxAssumption DEF Session

\* The life cycle of a stream that was just created.
LEMMA NewLife ==
  ASSUME NEW s, s.wrote = 0, s.closedAt = 0, s.closer = "no", ~s.finCh, ~s.writing,
         s.drain # "flush", s.call = "alloc" => s.drain = "none"
  PROVE  LifeCycle(s)
  BY DEF LifeCycle

\* A number beyond the next object is beyond the last one.
LEMMA BeyondNext ==
  ASSUME NEW a \in Nat, NEW c \in Nat, a > c + 1
  PROVE  a > c /\ a # c + 1
  OBVIOUS

\* The chunks of a queue are where they were when another frame is queued.
LEMMA AppendOther ==
  ASSUME NEW q \in Seq(Frame), NEW f \in Frame, f.cmd # "DATA"
  PROVE  \A i \in DOMAIN Append(q, f) : Append(q, f)[i].cmd = "DATA" =>
           i \in DOMAIN q /\ Append(q, f)[i] = q[i]
  BY AppendShift

\* WriteQueue.Enqueue at data priority, field by field.
LEMMA EnqueueFields ==
  ASSUME NEW m \in Session, NEW f \in Frame
  PROVE  LET n == EnqueueData(m, f) IN
         /\ n.count = m.count /\ n.acceptCh = m.acceptCh /\ n.closing = m.closing
         /\ n.rl = m.rl /\ n.streams = m.streams /\ n.pendingOpen = m.pendingOpen
         /\ n.wl = m.wl /\ n.control = m.control
         /\ n.data = IF m.closing = "no" THEN Append(m.data, f) ELSE m.data
<1>1. CASE m.closing = "no"
  BY <1>1 DEF EnqueueData, Session
<1>2. CASE m.closing # "no"
  BY <1>2 DEF EnqueueData
<1> QED BY <1>1, <1>2

\* Stream o through a step that creates none: it may learn of the other end, and
\* its life cycle goes on.
GoesOn(o, S, T) ==
  /\ Kept(S[o], T[o]) /\ LifeCycle(T[o])
  /\ T[o].id = S[o].id /\ T[o].origin = S[o].origin
  /\ S[o].id = 0 => T[o] = S[o]
  /\ T[o].ackCh \/ T[o].call \in {"queued", "ok"} \/ T[o].state \in Eof => Known(o, S)
  /\ \A i \in DOMAIN T[o].readBuf : /\ T[o].readBuf[i].src \in Obj
                                    /\ Linked(o, T[o].readBuf[i].src, S)

\* Frames in the queues and on the transport stay true of the streams.
LEMMA KeptFrames ==
  ASSUME IndInv, LinkInv, IndInv', \A p \in Obj : Kept(obj[p], obj'[p])
  PROVE  \A d \in Endpoint : SentFrames(mux[d].data, d, obj') /\ SentFrames(wire[d], d, obj')
<1> SUFFICES ASSUME NEW d \in Endpoint
             PROVE  SentFrames(mux[d].data, d, obj') /\ SentFrames(wire[d], d, obj')
  OBVIOUS
<1>1. \A p \in Obj : obj[p].sent \in Nat /\ obj'[p].sent \in Nat
  BY StreamNumbers DEF IndInv
<1>2. /\ SentFrames(mux[d].data, d, obj) /\ SentFrames(wire[d], d, obj)
      /\ GoodFrames(mux[d].data, d) /\ GoodFrames(wire[d], d)
  BY PipeFacts
<1> QED BY <1>1, <1>2, FramesKept

\* A step that creates no stream.
LEMMA LinkStep ==
  ASSUME IndInv, LinkInv, IndInv', \A p \in Obj : GoesOn(p, obj, obj'),
         \A d \in Endpoint : mux'[d].count = mux[d].count,
         \A d \in Endpoint : NamedSession(mux'[d], d, obj),
         \A d \in Endpoint : SentFrames(mux'[d].data, d, obj') /\ SentFrames(wire'[d], d, obj')
  PROVE  LinkInv'
\* References to streams depend on their IDs and origins only.
<1>NamedSame.
  ASSUME NEW n \in Session, NEW e, NEW S, NEW T, NamedSession(n, e, S),
         \A p \in Obj : T[p].id = S[p].id /\ T[p].origin = S[p].origin,
         n.rl.pc = "accept" => n.rl.obj \in Obj
  PROVE  NamedSession(n, e, T)
  <2> USE <1>NamedSame
  <2>1. /\ \A i \in Ids : n.streams[i] \in Obj \cup {NoObj} /\ n.pendingOpen[i] \in Obj \cup {NoObj}
        /\ \A i \in DOMAIN n.acceptCh : n.acceptCh[i] \in Obj
    BY DEF Session
  <2>2. \A i \in Ids : OwnEntry(n.streams[i], e, i, T) /\ OwnEntry(n.pendingOpen[i], e, i, T)
    BY <2>1 DEF NamedSession, OwnEntry
  <2>3. /\ \A i \in DOMAIN n.acceptCh : T[n.acceptCh[i]].origin # NoObj
        /\ n.rl.pc = "accept" => T[n.rl.obj].origin # NoObj
    BY <2>1 DEF NamedSession
  <2> QED BY <2>2, <2>3 DEF NamedSession
<1>0. \A p \in Obj :
           /\ Kept(obj[p], obj'[p]) /\ LifeCycle(obj'[p])
           /\ obj'[p].id = obj[p].id /\ obj'[p].origin = obj[p].origin
           /\ obj[p].id = 0 => obj'[p] = obj[p]
           /\ obj'[p].ackCh \/ obj'[p].call \in {"queued", "ok"} \/ obj'[p].state \in Eof
                => Known(p, obj)
           /\ \A i \in DOMAIN obj'[p].readBuf : /\ obj'[p].readBuf[i].src \in Obj
                                                /\ Linked(p, obj'[p].readBuf[i].src, obj)
  BY DEF GoesOn
<1>1. Fresh'
  <2> SUFFICES ASSUME NEW p \in Obj, p[2] > mux'[p[1]].count
               PROVE  obj'[p] = NewStreamSession
    BY DEF Fresh
  <2>1. mux'[p[1]].count = mux[p[1]].count
    BY NoObjFacts
  <2>2. obj[p] = NewStreamSession
    BY <2>1 DEF LinkInv, Fresh
  <2> QED BY <1>0, <2>2 DEF NewStreamSession
<1>2. ASSUME NEW d \in Endpoint PROVE NamedSession(mux'[d], d, obj')
  <2>1. NamedSession(mux'[d], d, obj)
    OBVIOUS
  <2>2. mux'[d] \in Session
    BY DEF IndInv
  <2>3. GoodSession(mux'[d], d, Used')
    BY DEF IndInv
  <2>4. mux'[d].rl.pc = "accept" => mux'[d].rl.obj \in Obj
    BY <2>3 DEF GoodSession, GoodReader, Used
  <2> QED BY <1>0, <2>1, <2>2, <2>4, <1>NamedSame
<1>3. ASSUME NEW p \in Obj PROVE Settled(p, obj')
  <2>1. Settled(p, obj) /\ obj[p].origin \in Obj \cup {NoObj}
    BY PipeFacts DEF Stream
  <2>2. /\ \A x \in Obj : Linked(p, x, obj) => Linked(p, x, obj')
        /\ Known(p, obj) => Known(p, obj')
    BY <1>0, LinkedKept
  <2>3. obj'[p].origin # NoObj => Linked(p, obj'[p].origin, obj')
    BY <1>0, <2>1, <2>2 DEF Settled
  <2> QED BY <1>0, <2>2, <2>3 DEF Settled
<1> QED BY <1>1, <1>2, <1>3 DEF LinkInv

\* Stream o, now t, sends frame f and leaves its session as n.
Sends(o, t, n, f) ==
  /\ obj[o].id # 0 /\ Kept(obj[o], t) /\ LifeCycle(t) /\ t.sent \in Nat
  /\ t.ackCh = obj[o].ackCh /\ t.state = obj[o].state /\ t.readBuf = obj[o].readBuf
  /\ t.call \in {"queued", "ok"} => obj[o].call \in {"queued", "ok"}
  /\ n.count = mux[o[1]].count /\ n.streams = mux[o[1]].streams
  /\ n.closing = mux[o[1]].closing /\ n.wl = mux[o[1]].wl
  /\ n.data = IF mux[o[1]].closing = "no" THEN Append(mux[o[1]].data, f)
                                          ELSE mux[o[1]].data
  /\ NamedSession(n, o[1], obj)
  /\ f \in Frame /\ SentFrame(f, o[1], obj') /\ f.src = o
  /\ \/ t.sent = obj[o].sent /\ f.cmd # "DATA"
     \/ /\ t.sent = obj[o].sent + 1 /\ f.cmd = "DATA" /\ f.seq = t.sent
        /\ obj[o].drain # "done"
  /\ \A p \in Obj : obj'[p] = IF p = o THEN t ELSE obj[p]
  /\ \A d \in Endpoint : mux'[d] = IF d = o[1] THEN n ELSE mux[d]
  /\ \A d \in Endpoint : wire'[d] = wire[d]
  /\ up' = up

\* Chunks in flight when a frame is enqueued.
LEMMA FlightEnqueue ==
  ASSUME NEW p, NEW n \in Nat, NEW k \in Nat, NEW k2 \in Nat, NEW w \in Seq(Frame),
         NEW m, m.data \in Seq(Frame), NEW m2, NEW u, NEW f \in Frame,
         InFlight(p, n, k, w, m, u), m2.closing = m.closing, m2.wl = m.wl,
         m2.data = IF m.closing = "no" THEN Append(m.data, f) ELSE m.data,
         \/ k2 = k /\ ~DataOf(f, p)
         \/ k2 = k + 1 /\ DataOf(f, p) /\ f.seq = k + 1 /\ ~HasFin(w, p) /\ ~HasFin(m.data, p)
  PROVE  InFlight(p, n, k2, w, m2, u)
<1>1. PICK a \in Nat : /\ Reaches(w, p, n, a, k, "optional")
                       /\ CanSend(m, u) => \E b \in Nat : Reaches(m.data, p, a, b, k, m.closing)
  BY DEF InFlight
<1>2. Reaches(w, p, n, a, k2, "optional")
  BY <1>1 DEF Reaches
<1>3. ASSUME CanSend(m2, u) PROVE \E b \in Nat : Reaches(m2.data, p, a, b, k2, m2.closing)
  <2>1. CanSend(m, u)
    BY <1>3 DEF CanSend
  <2>2. PICK b \in Nat : Reaches(m.data, p, a, b, k, m.closing)
    BY <1>1, <2>1
  <2>3. /\ a <= b /\ b <= k /\ Carries(m.data, p, a, b)
        /\ (m.closing = "no" \/ HasFin(m.data, p) => b = k)
    BY <2>2 DEF Reaches
  <2>4. CASE m.closing # "no"
    <3>1. Reaches(m2.data, p, a, b, k2, m2.closing)
      BY <2>3, <2>4 DEF Reaches
    <3> QED BY <3>1
  <2>5. CASE m.closing = "no"
    <3>1. m2.data = Append(m.data, f) /\ b = k
      BY <2>3, <2>5
    <3>2. Carries(m2.data, p, a, k2)
      BY <2>3, <3>1, CarriesAppend
    <3>3. Reaches(m2.data, p, a, k2, k2, m2.closing)
      BY <2>3, <3>1, <3>2 DEF Reaches
    <3> QED BY <3>3
  <2> QED BY <2>4, <2>5
<1> QED BY <1>2, <1>3 DEF InFlight

\* OpenStream registers ackCh and sends STREAM_OPEN.
LEMMA OpenSendStep ==
  ASSUME IndInv, NEW o \in Obj, OpenSend(o)
  PROVE  /\ obj' = [obj EXCEPT ![o] = [obj[o] EXCEPT !.call = "wait", !.drain = "select"]]
         /\ mux' = [mux EXCEPT ![o[1]] =
                      EnqueueData([mux[o[1]] EXCEPT !.pendingOpen[obj[o].id] = o],
                                  NewFrame("OPEN", obj[o].id, o, 0))]
         /\ wire' = wire /\ up' = up /\ obj[o].call = "alloc"
<1>1. obj' = [obj EXCEPT ![o] = [obj[o] EXCEPT !.call = "wait", !.drain = "select"]]
  BY Zenon DEF OpenSend
<1>2. mux' = [mux EXCEPT ![o[1]] =
                      EnqueueData([mux[o[1]] EXCEPT !.pendingOpen[obj[o].id] = o],
                                  NewFrame("OPEN", obj[o].id, o, 0))]
  BY DEF OpenSend
<1>3. wire' = wire /\ up' = up /\ obj[o].call = "alloc"
  BY DEF OpenSend
<1> QED BY <1>1, <1>2, <1>3

\* OpenStream sends STREAM_OPEN; drainStream sends a chunk, and at last the FIN.
LEMMA SendersPipe ==
  ASSUME IndInv, LinkInv, FinInv, FlowInv, IndInv'
  PROVE  \A o \in Obj :
           OpenSend(o) \/ DrainData(o) \/ DrainFlushed(o)
             => LinkInv' /\ FinInv' /\ FlowInv'
\* Links through a step that sends.
<1>SendLink.
  ASSUME NEW o \in Obj, NEW t, NEW n, NEW f, Sends(o, t, n, f)
  PROVE  LinkInv'
  <2> USE <1>SendLink
  <2>0. /\ obj[o].id # 0 /\ Kept(obj[o], t) /\ LifeCycle(t)
        /\ t.ackCh = obj[o].ackCh /\ t.state = obj[o].state /\ t.readBuf = obj[o].readBuf
        /\ t.call \in {"queued", "ok"} => obj[o].call \in {"queued", "ok"}
        /\ n.count = mux[o[1]].count /\ NamedSession(n, o[1], obj)
        /\ n.data \in {mux[o[1]].data, Append(mux[o[1]].data, f)}
        /\ f \in Frame /\ SentFrame(f, o[1], obj')
        /\ \A p \in Obj : obj'[p] = IF p = o THEN t ELSE obj[p]
        /\ \A d \in Endpoint : mux'[d] = IF d = o[1] THEN n ELSE mux[d]
        /\ \A d \in Endpoint : wire'[d] = wire[d]
    BY DEF Sends
  <2> USE <2>0
  <2> DEFINE e == o[1]
  <2>1. \A p \in Obj : obj'[p] = IF p = o THEN t ELSE obj[p]
    OBVIOUS
  <2>2. \A p \in Obj : obj[p].sent \in Nat /\ obj'[p].sent \in Nat
    BY StreamNumbers DEF IndInv
  <2>3. \A p \in Obj : Kept(obj[p], obj'[p])
    BY <2>1, <2>2 DEF Kept
  <2>4. \A d \in Endpoint : mux'[d] = IF d = e THEN n ELSE mux[d]
    OBVIOUS
  <2>5. \A d \in Endpoint : SentFrames(mux[d].data, d, obj') /\ SentFrames(wire[d], d, obj')
    BY <2>3, KeptFrames
  <2>6. \A d \in Endpoint : SentFrames(mux'[d].data, d, obj') /\ SentFrames(wire'[d], d, obj')
    <3>1. e \in Endpoint /\ mux[e].data \in Seq(Frame)
      BY PipeFacts, NoObjFacts
    <3>2. SentFrames(Append(mux[e].data, f), e, obj')
      BY <2>5, <3>1, FramesAppend, Zenon
    <3>3. SentFrames(n.data, e, obj')
      <4>1. CASE n.data = mux[e].data BY <4>1, <2>5, <3>1
      <4>2. CASE n.data = Append(mux[e].data, f) BY <4>2, <3>2
      <4> QED BY <4>1, <4>2
    <3> QED BY <2>4, <2>5, <3>3
  <2>7. \A d \in Endpoint : mux'[d].count = mux[d].count
    BY <2>4
  <2>8. \A d \in Endpoint : NamedSession(mux'[d], d, obj)
    BY <2>4, PipeFacts
  <2>9. ASSUME NEW p \in Obj PROVE GoesOn(p, obj, obj')
    <3>1. Settled(p, obj)
      BY PipeFacts
    <3>2. CASE p # o
      <4>1. obj'[p] = obj[p]
        BY <2>1, <3>2, Zenon
      <4> QED BY <2>3, <3>1, <4>1, Zenon DEF Settled, GoesOn
    <3>3. CASE p = o
      <4>1. obj'[p] = t
        BY <2>1, <3>3
      <4>2. t.id = obj[p].id /\ t.origin = obj[p].origin
        BY <3>3 DEF Kept
      <4> QED BY <2>3, <3>1, <3>3, <4>1, <4>2, Zenon DEF Settled, GoesOn
    <3> QED BY <3>2, <3>3
  <2> QED BY <2>6, <2>7, <2>8, <2>9, LinkStep
\* drainStream sends nothing after the FIN: before it is done there is none.
<1>NoFinYet.
  ASSUME NEW o \in Obj, obj[o].drain # "done"
  PROVE  ~HasFin(wire[o[1]], o) /\ ~HasFin(mux[o[1]].data, o)
  <2> USE <1>NoFinYet
  <2>1. SentFrames(wire[o[1]], o[1], obj) /\ SentFrames(mux[o[1]].data, o[1], obj)
    BY PipeFacts, NoObjFacts
  <2>2. ASSUME NEW q, SentFrames(q, o[1], obj), HasFin(q, o) PROVE FALSE
    <3>1. PICK i \in DOMAIN q : q[i].cmd = "CLOSE" /\ q[i].src = o
      BY <2>2 DEF HasFin, FinOf
    <3>2. SentFrame(q[i], o[1], obj)
      BY <2>2 DEF SentFrames
    <3> QED BY <3>1, <3>2 DEF SentFrame
  <2> QED BY <2>1, <2>2
\* The order of FIN frames through a step that sends.
<1>SendFin.
  ASSUME NEW o \in Obj, NEW t, NEW n, NEW f, Sends(o, t, n, f)
  PROVE  FinInv'
  <2> USE <1>SendFin
  <2>0. /\ f \in Frame /\ f.src = o /\ (f.cmd = "DATA" => obj[o].drain # "done")
        /\ n.data \in {mux[o[1]].data, Append(mux[o[1]].data, f)}
        /\ \A d \in Endpoint : mux'[d] = IF d = o[1] THEN n ELSE mux[d]
        /\ \A d \in Endpoint : wire'[d] = wire[d]
    BY Zenon DEF Sends
  <2> USE <2>0
  <2> DEFINE e == o[1]
             q == mux[e].data
  <2>1. /\ e \in Endpoint /\ q \in Seq(Frame) /\ FinOrder(q)
        /\ \A i \in DOMAIN q : q[i].cmd = "DATA" => ~HasFin(wire[e], q[i].src)
    BY PipeFacts, NoObjFacts DEF FinInv
  <2>2. f.cmd = "DATA" => ~HasFin(wire[e], f.src) /\ ~HasFin(q, f.src)
    BY <1>NoFinYet
  <2>3. FinOrder(Append(q, f))
    BY <2>1, <2>2, FinAppend
  <2>4. \A i \in DOMAIN Append(q, f) :
            Append(q, f)[i].cmd = "DATA" => ~HasFin(wire[e], Append(q, f)[i].src)
    <3> HIDE DEF q
    <3>1. \A i \in DOMAIN Append(q, f) :
              Append(q, f)[i] = f \/ \E j \in DOMAIN q : Append(q, f)[i] = q[j]
      BY <2>1, AppendShift
    <3> QED BY <3>1, <2>1, <2>2
  <2>5. \A d \in Endpoint : mux'[d] = IF d = e THEN n ELSE mux[d]
    OBVIOUS
  <2>6. /\ FinOrder(n.data)
        /\ \A i \in DOMAIN n.data : n.data[i].cmd = "DATA" => ~HasFin(wire[e], n.data[i].src)
    <3>1. CASE n.data = q BY <3>1, <2>1
    <3>2. CASE n.data = Append(q, f) BY <3>2, <2>3, <2>4, Zenon
    <3> QED BY <3>1, <3>2
  <2> QED BY <2>5, <2>6 DEF FinInv
\* The flow of chunks through a step that sends.
<1>SendFlow.
  ASSUME NEW o \in Obj, NEW t, NEW n, NEW f, Sends(o, t, n, f)
  PROVE  FlowInv'
  <2> USE <1>SendFlow
  <2>0. /\ obj[o].id # 0 /\ Kept(obj[o], t) /\ LifeCycle(t) /\ t.sent \in Nat
        /\ t.ackCh = obj[o].ackCh /\ t.state = obj[o].state /\ t.readBuf = obj[o].readBuf
        /\ t.call \in {"queued", "ok"} => obj[o].call \in {"queued", "ok"}
        /\ n.count = mux[o[1]].count /\ n.streams = mux[o[1]].streams
        /\ n.closing = mux[o[1]].closing /\ n.wl = mux[o[1]].wl
        /\ n.data = IF mux[o[1]].closing = "no" THEN Append(mux[o[1]].data, f)
                                                ELSE mux[o[1]].data
        /\ NamedSession(n, o[1], obj)
        /\ f \in Frame /\ SentFrame(f, o[1], obj') /\ f.src = o
        /\ \/ t.sent = obj[o].sent /\ f.cmd # "DATA"
           \/ /\ t.sent = obj[o].sent + 1 /\ f.cmd = "DATA" /\ f.seq = t.sent
              /\ obj[o].drain # "done"
        /\ \A p \in Obj : obj'[p] = IF p = o THEN t ELSE obj[p]
        /\ \A d \in Endpoint : mux'[d] = IF d = o[1] THEN n ELSE mux[d]
        /\ \A d \in Endpoint : wire'[d] = wire[d]
        /\ up' = up
    BY DEF Sends
  <2> USE <2>0
  <2>a. t.id = obj[o].id
    BY Zenon DEF Kept
  <2>1. \A p \in Obj : obj'[p] = IF p = o THEN t ELSE obj[p]
    OBVIOUS
  <2>2. \A d \in Endpoint : mux'[d] = IF d = o[1] THEN n ELSE mux[d]
    BY Zenon
  <2>3. \A p \in Obj : /\ obj'[p].id = obj[p].id /\ obj'[p].state = obj[p].state
                       /\ obj'[p].readBuf = obj[p].readBuf /\ obj'[p].sent \in Nat
    BY <2>1, <2>a, PipeFacts, Zenon
  <2>4. IDsUsedOnce' => IDsUsedOnce
    BY <2>3 DEF IDsUsedOnce
  <2> SUFFICES ASSUME IDsUsedOnce, NEW x \in Obj, NEW p \in Obj,
                      Linked(x, p, obj'), obj'[x].state # "Reset"
               PROVE  Flow(x, p)'
    BY <2>4, Zenon DEF FlowInv
  <2>5. Linked(x, p, obj) /\ obj[x].state # "Reset"
    BY <2>3, Zenon DEF Linked
  <2>6. Flow(x, p)
    BY <2>5, Zenon DEF FlowInv
  <2>7. obj[x].state \in Eof =>
         /\ Len(obj[x].readBuf) = obj'[p].sent
         /\ obj'[p].closedAt <= obj'[p].sent
         /\ obj'[p].drain = "done" /\ obj'[p].closer # "no"
    <3>1. CASE p # o BY <3>1, <2>1, <2>6, Zenon DEF Flow
    <3>2. CASE p = o BY <3>2, <2>1, <2>6 DEF Flow, Kept
    <3> QED BY <3>1, <3>2, Zenon
  <2>8. ASSUME InFlight(p, Len(obj[x].readBuf), obj[p].sent, wire[p[1]], mux[p[1]], up)
        PROVE  InFlight(p, Len(obj[x].readBuf), obj'[p].sent, wire[p[1]], mux'[p[1]], up)
    <3>1. /\ Len(obj[x].readBuf) \in Nat /\ obj[p].sent \in Nat /\ obj'[p].sent \in Nat
          /\ p[1] \in Endpoint /\ wire[p[1]] \in Seq(Frame) /\ mux[p[1]].data \in Seq(Frame)
      <4>1. obj[x] \in Stream /\ obj[p].sent \in Nat /\ p[1] \in Endpoint
        BY PipeFacts, Zenon
      <4>2. Len(obj[x].readBuf) \in Nat
        BY <4>1 DEF Stream
      <4>3. wire[p[1]] \in Seq(Frame) /\ mux[p[1]].data \in Seq(Frame)
        BY <4>1, PipeFacts, Zenon
      <4> QED BY <2>3, <4>1, <4>2, <4>3, Zenon
    <3>2. CASE p[1] # o[1]
      <4>1. obj'[p] = obj[p] /\ mux'[p[1]] = mux[p[1]]
        BY <3>1, <3>2, <2>1, <2>2, Zenon
      <4> QED BY <4>1, <2>8, Zenon
    <3>3. CASE p[1] = o[1]
      <4>1. mux'[p[1]] = n
        BY <3>1, <3>3, <2>2, Zenon
      <4>2. \/ obj'[p].sent = obj[p].sent /\ ~DataOf(f, p)
            \/ /\ obj'[p].sent = obj[p].sent + 1 /\ DataOf(f, p) /\ f.seq = obj[p].sent + 1
               /\ ~HasFin(wire[p[1]], p) /\ ~HasFin(mux[p[1]].data, p)
        BY <2>1, <1>NoFinYet, Zenon DEF DataOf
      <4>3. /\ n.closing = mux[p[1]].closing /\ n.wl = mux[p[1]].wl
            /\ n.data = IF mux[p[1]].closing = "no" THEN Append(mux[p[1]].data, f)
                                                    ELSE mux[p[1]].data
        BY <3>3, Zenon
      <4>4. InFlight(p, Len(obj[x].readBuf), obj'[p].sent, wire[p[1]], n, up)
        <5> DEFINE k == Len(obj[x].readBuf)
                   a == obj[p].sent
                   b == obj'[p].sent
                   w == wire[p[1]]
                   m == mux[p[1]]
        <5>1. InFlight(p, k, a, w, m, up)
          BY <2>8, Zenon
        <5>2. /\ k \in Nat /\ a \in Nat /\ b \in Nat /\ w \in Seq(Frame) /\ m.data \in Seq(Frame)
          BY <3>1, Zenon
        <5>3. \/ b = a /\ ~DataOf(f, p)
              \/ b = a + 1 /\ DataOf(f, p) /\ f.seq = a + 1 /\ ~HasFin(w, p) /\ ~HasFin(m.data, p)
          BY <4>2, Zenon
        <5>4. /\ n.closing = m.closing /\ n.wl = m.wl
              /\ n.data = IF m.closing = "no" THEN Append(m.data, f) ELSE m.data
          BY <4>3, Zenon
        <5> HIDE DEF k, a, b, w, m
        <5>5. InFlight(p, k, b, w, n, up)
          BY <5>1, <5>2, <5>3, <5>4, FlightEnqueue
        <5> QED BY <5>5, Zenon DEF k, b, w
      <4> QED BY <4>1, <4>4, Zenon
    <3> QED BY <3>2, <3>3, Zenon
  <2>9. mux'[x[1]].streams = mux[x[1]].streams
    BY <2>2, NoObjFacts
  <2>10. /\ \A i \in DOMAIN obj'[x].readBuf : obj'[x].readBuf[i].seq = i
         /\ obj'[x].state \in Eof => Len(obj'[x].readBuf) = obj'[p].sent
                                     /\ obj'[p].closedAt <= obj'[p].sent
                                     /\ obj'[p].drain = "done" /\ obj'[p].closer # "no"
    <3>1. obj'[x].readBuf = obj[x].readBuf /\ obj'[x].state = obj[x].state
      BY <2>3, Zenon
    <3>2. \A i \in DOMAIN obj[x].readBuf : obj[x].readBuf[i].seq = i
      BY <2>6, Zenon DEF Flow
    <3> HIDE <2>0
    <3> QED BY <2>7, <3>1, <3>2, Zenon
  <2>11. mux'[x[1]].streams[obj'[x].id] = x =>
           InFlight(p, Len(obj'[x].readBuf), obj'[p].sent, wire'[p[1]], mux'[p[1]], up')
    <3>1. mux'[x[1]].streams[obj'[x].id] = x => mux[x[1]].streams[obj[x].id] = x
      BY <2>3, <2>9, Zenon
    <3>2. Len(obj'[x].readBuf) = Len(obj[x].readBuf) /\ wire'[p[1]] = wire[p[1]]
      BY <2>3, NoObjFacts, Zenon
    <3> QED BY <2>6, <2>8, <3>1, <3>2, Zenon DEF Flow
  <2> QED BY <2>10, <2>11 DEF Flow
\* A step that sends.
<1>SendPipe.
  ASSUME NEW o \in Obj, NEW t, NEW n, NEW f,
         Sends(o, t, n, f)
  PROVE  LinkInv' /\ FinInv' /\ FlowInv'
    BY <1>SendPipe, <1>SendLink, <1>SendFin, <1>SendFlow
\* OpenStream registers ackCh.
<1>PendingSame.
  ASSUME NEW m \in Session, NEW id \in Ids, NEW o \in Obj
  PROVE  LET k == [m EXCEPT !.pendingOpen[id] = o] IN
         /\ k \in Session /\ k.count = m.count /\ k.streams = m.streams
         /\ k.closing = m.closing /\ k.wl = m.wl /\ k.data = m.data /\ k.acceptCh = m.acceptCh
         /\ k.rl = m.rl /\ k.control = m.control
         /\ \A i \in Ids : k.pendingOpen[i] = IF i = id THEN o ELSE m.pendingOpen[i]
  <2> DEFINE k == [m EXCEPT !.pendingOpen[id] = o]
  <2>1. m.pendingOpen \in [Ids -> Obj \cup {NoObj}]
    BY DEF Session
  <2>2. k \in Session
    BY Zenon DEF Session
  <2>3. /\ k.count = m.count /\ k.data = m.data /\ k.control = m.control
        /\ k.acceptCh = m.acceptCh /\ k.closing = m.closing /\ k.wl = m.wl /\ k.rl = m.rl
        /\ k.streams = m.streams /\ k.pendingOpen = [m.pendingOpen EXCEPT ![id] = o]
    BY DEF Session
  <2> HIDE DEF k
  <2>4. \A i \in Ids : k.pendingOpen[i] = IF i = id THEN o ELSE m.pendingOpen[i]
    BY <2>1, <2>3
  <2> QED BY <2>2, <2>3, <2>4 DEF k
<1> SUFFICES ASSUME NEW o \in Obj, OpenSend(o) \/ DrainData(o) \/ DrainFlushed(o)
             PROVE  LinkInv' /\ FinInv' /\ FlowInv'
  BY Zenon
<1> DEFINE s == obj[o]
           m == mux[o[1]]
<1>1. /\ s \in Stream /\ GoodStream(s, o[1], Used) /\ LifeCycle(s) /\ o[1] \in Endpoint
      /\ m \in Session /\ NamedSession(m, o[1], obj)
  BY PipeFacts, Zenon DEF Settled, GoodSession
<1>2. /\ s.wrote \in 0 .. MaxWrites /\ s.sent \in 0 .. MaxWrites /\ s.closedAt \in 0 .. MaxWrites
      /\ s.sent <= s.wrote /\ MaxWrites \in Nat
  BY <1>1, StreamNumbers, MuxAssumption DEF GoodStream
<1>3. /\ s.id # 0 /\ s.id \in Ids
      /\ s.drain \in {"select", "flush"} \/ s.call = "alloc"
  BY <1>1 DEF GoodStream, Stream, OpenSend, DrainData, DrainFlushed
<1>4. CASE OpenSend(o)
  <2> DEFINE t == [s EXCEPT !.call = "wait", !.drain = "select"]
             k == [m EXCEPT !.pendingOpen[s.id] = o]
             f == NewFrame("OPEN", s.id, o, 0)
             n == EnqueueData(k, f)
  <2>1. /\ obj' = [obj EXCEPT ![o] = t] /\ mux' = [mux EXCEPT ![o[1]] = n]
        /\ wire' = wire /\ up' = up /\ s.call = "alloc"
    BY <1>4, OpenSendStep, Zenon
  <2>2. f \in Frame /\ f.cmd = "OPEN" /\ f.src = o /\ f.id = s.id
    BY <1>2, <1>3 DEF NewFrame, Frame, Command
  <2>3. /\ t.id = s.id /\ t.origin = s.origin /\ t.sent = s.sent /\ t.drain = "select"
        /\ t.closer = s.closer /\ t.closedAt = s.closedAt /\ t.wrote = s.wrote
        /\ t.writing = s.writing /\ t.call = "wait" /\ t.state = s.state
        /\ t.finCh = s.finCh /\ t.ackCh = s.ackCh /\ t.readBuf = s.readBuf
    BY <1>1 DEF Stream
  <2>4. /\ k \in Session /\ k.count = m.count /\ k.streams = m.streams /\ k.closing = m.closing
        /\ k.wl = m.wl /\ k.data = m.data /\ k.acceptCh = m.acceptCh /\ k.rl = m.rl
        /\ k.control = m.control
        /\ \A i \in Ids : k.pendingOpen[i] = IF i = s.id THEN o ELSE m.pendingOpen[i]
    BY <1>1, <1>3, <1>PendingSame
  <2>a. /\ n.count = m.count /\ n.streams = m.streams /\ n.closing = m.closing /\ n.wl = m.wl
        /\ n.data = (IF m.closing = "no" THEN Append(m.data, f) ELSE m.data)
        /\ n.acceptCh = m.acceptCh /\ n.rl = m.rl /\ n.control = m.control
        /\ \A i \in Ids : n.pendingOpen[i] = IF i = s.id THEN o ELSE m.pendingOpen[i]
    <3> HIDE DEF k, f
    <3> QED BY <2>2, <2>4, EnqueueFields
  <2> HIDE DEF t, k, f, n
  <2>5. /\ \A p \in Obj : obj'[p] = IF p = o THEN t ELSE obj[p]
        /\ \A d \in Endpoint : mux'[d] = IF d = o[1] THEN n ELSE mux[d]
        /\ \A d \in Endpoint : wire'[d] = wire[d]
    BY <2>1, Zenon DEF IndInv
  <2>b. NamedSession(n, o[1], obj)
    <3> HIDE DEF m
    <3> QED BY <1>1, <2>a, Zenon DEF NamedSession, OwnEntry
  <2>7. Kept(s, t) /\ LifeCycle(t)
    BY <1>1, <1>2, <2>1, <2>3 DEF Kept, LifeCycle
  <2>8. SentFrame(f, o[1], obj')
    BY <2>2, <2>3, <2>5 DEF SentFrame
  <2>9. t.sent \in Nat
    BY <1>2, <2>3
  <2>10. Sends(o, t, n, f)
    <3>1. \/ t.sent = s.sent /\ f.cmd # "DATA"
          \/ t.sent = s.sent + 1 /\ f.cmd = "DATA" /\ f.seq = t.sent /\ s.drain # "done"
      BY <2>2, <2>3, <2>9
    <3> QED BY <1>3, <2>1, <2>2, <2>3, <2>5, <2>7, <2>8, <2>9, <2>a, <2>b, <3>1, Zenon
              DEF Sends
  <2> QED BY <2>10, <1>SendPipe
<1>5. CASE DrainData(o)
  <2> DEFINE t == [s EXCEPT !.sent = @ + 1]
             f == NewFrame("DATA", s.id, o, s.sent + 1)
             n == EnqueueData(m, f)
  <2>1. /\ obj' = [obj EXCEPT ![o] = t] /\ mux' = [mux EXCEPT ![o[1]] = n]
        /\ wire' = wire /\ up' = up /\ s.drain \in {"select", "flush"} /\ s.sent < s.wrote
    BY <1>5 DEF DrainData
  <2>2. f \in Frame /\ f.cmd = "DATA" /\ f.src = o /\ f.id = s.id /\ f.seq = s.sent + 1
    BY <1>2, <1>3, <2>1 DEF NewFrame, Frame, Command
  <2>3. /\ t.id = s.id /\ t.origin = s.origin /\ t.sent = s.sent + 1 /\ t.drain = s.drain
        /\ t.closer = s.closer /\ t.closedAt = s.closedAt /\ t.wrote = s.wrote
        /\ t.writing = s.writing /\ t.call = s.call /\ t.state = s.state
        /\ t.finCh = s.finCh /\ t.ackCh = s.ackCh /\ t.readBuf = s.readBuf
    BY <1>1 DEF Stream
  <2>a. /\ n.count = m.count /\ n.streams = m.streams /\ n.closing = m.closing /\ n.wl = m.wl
        /\ n.data = (IF m.closing = "no" THEN Append(m.data, f) ELSE m.data)
        /\ n.acceptCh = m.acceptCh /\ n.rl = m.rl /\ n.control = m.control
        /\ n.pendingOpen = m.pendingOpen
    <3> HIDE DEF f
    <3> QED BY <1>1, <2>2, EnqueueFields, Zenon
  <2> HIDE DEF t, f, n
  <2>b. NamedSession(n, o[1], obj)
    <3> HIDE DEF m
    <3> QED BY <1>1, <2>a, Zenon DEF NamedSession
  <2>5. /\ \A p \in Obj : obj'[p] = IF p = o THEN t ELSE obj[p]
        /\ \A d \in Endpoint : mux'[d] = IF d = o[1] THEN n ELSE mux[d]
        /\ \A d \in Endpoint : wire'[d] = wire[d]
    BY <2>1 DEF IndInv
  <2>7. Kept(s, t) /\ LifeCycle(t)
    BY <1>1, <1>2, <2>1, <2>3 DEF Kept, LifeCycle
  <2>8. SentFrame(f, o[1], obj')
    BY <1>2, <2>2, <2>3, <2>5 DEF SentFrame
  <2>9. t.sent \in Nat /\ f.seq = t.sent /\ s.drain # "done"
    BY <1>2, <2>1, <2>2, <2>3
  <2>10. Sends(o, t, n, f)
    <3>1. \/ t.sent = s.sent /\ f.cmd # "DATA"
          \/ t.sent = s.sent + 1 /\ f.cmd = "DATA" /\ f.seq = t.sent /\ s.drain # "done"
      BY <2>2, <2>3, <2>9
    <3> QED BY <1>3, <2>1, <2>2, <2>3, <2>5, <2>7, <2>8, <2>9, <2>a, <2>b, <3>1, Zenon
              DEF Sends
  <2> QED BY <2>10, <1>SendPipe
<1>6. CASE DrainFlushed(o)
  <2> DEFINE t == [s EXCEPT !.drain = "done"]
             f == NewFrame("CLOSE", s.id, o, 0)
             n == EnqueueData(m, f)
  <2>1. /\ obj' = [obj EXCEPT ![o] = t] /\ mux' = [mux EXCEPT ![o[1]] = n]
        /\ wire' = wire /\ up' = up /\ s.drain = "flush" /\ s.sent = s.wrote
    BY <1>6 DEF DrainFlushed
  <2>2. f \in Frame /\ f.cmd = "CLOSE" /\ f.src = o /\ f.id = s.id
    BY <1>2, <1>3 DEF NewFrame, Frame, Command
  <2>3. /\ t.id = s.id /\ t.origin = s.origin /\ t.sent = s.sent /\ t.drain = "done"
        /\ t.closer = s.closer /\ t.closedAt = s.closedAt /\ t.wrote = s.wrote
        /\ t.writing = s.writing /\ t.call = s.call /\ t.state = s.state
        /\ t.finCh = s.finCh /\ t.ackCh = s.ackCh /\ t.readBuf = s.readBuf
    BY <1>1, Zenon DEF Stream
  <2>a. /\ n.count = m.count /\ n.streams = m.streams /\ n.closing = m.closing /\ n.wl = m.wl
        /\ n.data = (IF m.closing = "no" THEN Append(m.data, f) ELSE m.data)
        /\ n.acceptCh = m.acceptCh /\ n.rl = m.rl /\ n.control = m.control
        /\ n.pendingOpen = m.pendingOpen
    <3> HIDE DEF f
    <3> QED BY <1>1, <2>2, EnqueueFields, Zenon
  <2> HIDE DEF t, f, n
  <2>b. NamedSession(n, o[1], obj)
    <3> HIDE DEF m
    <3> QED BY <1>1, <2>a DEF NamedSession
  <2>5. /\ \A p \in Obj : obj'[p] = IF p = o THEN t ELSE obj[p]
        /\ \A d \in Endpoint : mux'[d] = IF d = o[1] THEN n ELSE mux[d]
        /\ \A d \in Endpoint : wire'[d] = wire[d]
    BY <2>1, Zenon DEF IndInv
  <2>6. s.call # "alloc" /\ s.closer # "no" /\ s.closedAt <= s.sent
    BY <1>1, <2>1 DEF LifeCycle
  <2>7. Kept(s, t) /\ LifeCycle(t)
    BY <1>1, <1>2, <2>1, <2>3, <2>6, Zenon DEF Kept, LifeCycle
  <2>8. SentFrame(f, o[1], obj')
    BY <1>2, <2>2, <2>3, <2>5, <2>6, Zenon DEF SentFrame
  <2>9. t.sent \in Nat
    BY <1>2, <2>3
  <2>10. Sends(o, t, n, f)
    <3>1. \/ t.sent = s.sent /\ f.cmd # "DATA"
          \/ t.sent = s.sent + 1 /\ f.cmd = "DATA" /\ f.seq = t.sent /\ s.drain # "done"
      BY <2>2, <2>3, <2>9, Zenon
    <3> QED BY <1>3, <2>1, <2>2, <2>3, <2>5, <2>7, <2>8, <2>9, <2>a, <2>b, <3>1, Zenon
              DEF Sends
  <2> QED BY <2>10, <1>SendPipe
<1> QED BY <1>4, <1>5, <1>6

-----------------------------------------------------------------------------
\* The steps of readLoop that move data

\* The peer takes a frame of endpoint d.
Takes(d) ==
  /\ wire[d] # <<>> /\ d \in Endpoint
  /\ \A c \in Endpoint : wire'[c] = IF c = d THEN Tail(wire[d]) ELSE wire[c]
  /\ \A c \in Endpoint : /\ mux'[c].count = mux[c].count /\ mux'[c].data = mux[c].data
                         /\ mux'[c].streams = mux[c].streams /\ mux'[c].wl = mux[c].wl
                         /\ mux'[c].closing = mux[c].closing
                         /\ NamedSession(mux'[c], c, obj)
  /\ up' = up

\* A frame that is not p's data is read from the transport w.
LEMMA FlightPass ==
  ASSUME NEW p, NEW n \in Nat, NEW k \in Nat, NEW w \in Seq(Frame), w # <<>>, NEW m, NEW u,
         InFlight(p, n, k, w, m, u), ~DataOf(Head(w), p)
  PROVE  InFlight(p, n, k, Tail(w), m, u)
<1>1. PICK a \in Nat : /\ Reaches(w, p, n, a, k, "optional")
                       /\ CanSend(m, u) => \E b \in Nat : Reaches(m.data, p, a, b, k, m.closing)
  BY DEF InFlight
<1>2. n <= a /\ a <= k /\ Carries(w, p, n, a) /\ (HasFin(w, p) => a = k)
  BY <1>1 DEF Reaches
<1>3. HasFin(Tail(w), p) => HasFin(w, p)
  BY FinTail
<1>4. Carries(Tail(w), p, n, a)
  BY <1>2, CarriesTail
<1>5. Reaches(Tail(w), p, n, a, k, "optional")
  BY <1>2, <1>3, <1>4, Zenon DEF Reaches
<1> QED BY <1>1, <1>5, Zenon DEF InFlight

\* What frame f does to the stream that it is delivered to.
Got(s, t, f) ==
  /\ t.id = s.id /\ t.sent = s.sent /\ t.closedAt = s.closedAt
  /\ t.drain = s.drain /\ t.closer = s.closer
  /\ f.cmd = "DATA" => /\ t.state = s.state
                       /\ t.readBuf = Append(s.readBuf, [src |-> f.src, seq |-> f.seq])
  /\ f.cmd = "CLOSE" => t.readBuf = s.readBuf /\ (t.state = "Reset" <=> s.state = "Reset")

\* readLoop of e reads a data or FIN frame and delivers it by its ID.
Receives(e, cmd) ==
  /\ HasFrame(e, cmd) /\ Takes(Peer(e)) /\ cmd \in {"DATA", "CLOSE"}
  /\ \A p \in Obj : IF p = mux[e].streams[Head(wire[Peer(e)]).id]
                    THEN Got(obj[p], obj'[p], Head(wire[Peer(e)])) ELSE obj'[p] = obj[p]

\* RemoteClose, field by field.
LEMMA RemoteCloseFields ==
  ASSUME NEW s \in Stream
  PROVE  LET t == RemoteClose(s) IN
         /\ t.id = s.id /\ t.origin = s.origin /\ t.sent = s.sent /\ t.drain = s.drain
         /\ t.closer = s.closer /\ t.closedAt = s.closedAt /\ t.wrote = s.wrote
         /\ t.writing = s.writing /\ t.call = s.call /\ t.finCh = s.finCh
         /\ t.ackCh = s.ackCh /\ t.readBuf = s.readBuf
         /\ t.state = s.state \/ (s.state = "Open" /\ t.state = "HalfClosedRemote")
                              \/ (s.state = "HalfClosedLocal" /\ t.state = "Closed")
<1>1. CASE s.state = "Open" BY <1>1 DEF RemoteClose, Stream
<1>2. CASE s.state = "HalfClosedLocal" BY <1>2 DEF RemoteClose, Stream
<1>3. CASE s.state \notin {"Open", "HalfClosedLocal"} BY <1>3 DEF RemoteClose
<1> QED BY <1>1, <1>2, <1>3

\* handleStreamData
LEMMA RecvDataStep ==
  ASSUME NEW e, RecvData(e)
  PROVE  LET f == Head(wire[Peer(e)])
             o == mux[e].streams[f.id]
         IN  /\ HasFrame(e, "DATA") /\ ReadFrame(e) /\ mux' = mux /\ up' = up
             /\ o = NoObj => obj' = obj
             /\ o # NoObj => obj' = [obj EXCEPT ![o] =
                  [obj[o] EXCEPT !.readBuf = Append(@, [src |-> f.src, seq |-> f.seq])]]
<1> DEFINE f == Head(wire[Peer(e)])
           o == mux[e].streams[f.id]
<1>1. HasFrame(e, "DATA") /\ ReadFrame(e) /\ mux' = mux /\ up' = up
  BY Zenon DEF RecvData
<1>2. o = NoObj => obj' = obj
  BY Zenon DEF RecvData
<1>3. o # NoObj => obj' = [obj EXCEPT ![o] =
                  [obj[o] EXCEPT !.readBuf = Append(@, [src |-> f.src, seq |-> f.seq])]]
  BY Zenon DEF RecvData
<1> QED BY <1>1, <1>2, <1>3, Zenon

\* handleStreamClose, up to maybeRemoveStream
LEMMA RecvCloseStep ==
  ASSUME NEW e, RecvClose(e)
  PROVE  LET f == Head(wire[Peer(e)])
             o == mux[e].streams[f.id]
         IN  /\ HasFrame(e, "CLOSE") /\ ReadFrame(e) /\ up' = up
             /\ mux' \in {mux, [mux EXCEPT ![e].rl = [pc |-> "remove", id |-> f.id, obj |-> o]]}
             /\ o = NoObj => obj' = obj
             /\ o # NoObj => obj' = [obj EXCEPT ![o] = RemoteClose(obj[o])]
<1> DEFINE f == Head(wire[Peer(e)])
           o == mux[e].streams[f.id]
<1>1. HasFrame(e, "CLOSE") /\ ReadFrame(e) /\ up' = up
  BY Zenon DEF RecvClose
<1>2. mux' \in {mux, [mux EXCEPT ![e].rl = [pc |-> "remove", id |-> f.id, obj |-> o]]}
  BY Zenon DEF RecvClose
<1>3. o = NoObj => obj' = obj
  BY Zenon DEF RecvClose
<1>4. o # NoObj => obj' = [obj EXCEPT ![o] = RemoteClose(obj[o])]
  BY Zenon DEF RecvClose
<1> QED BY <1>1, <1>2, <1>3, <1>4, Zenon

\* handleStreamData and handleStreamClose, as far as the pipe sees them.
LEMMA RecvReceives ==
  ASSUME IndInv, LinkInv
  PROVE  \A e \in Endpoint : \A cmd :
           (cmd = "DATA" /\ RecvData(e)) \/ (cmd = "CLOSE" /\ RecvClose(e))
             => Receives(e, cmd) /\ \A p \in Obj : GoesOn(p, obj, obj')
\* A stream that a step leaves alone.
<1>SameGoesOn.
  ASSUME NEW p \in Obj, obj'[p] = obj[p]
  PROVE  GoesOn(p, obj, obj')
  <2> USE <1>SameGoesOn
  <2>1. Settled(p, obj) /\ obj[p].sent \in Nat
    BY PipeFacts
  <2>2. Kept(obj[p], obj'[p])
    BY <2>1 DEF Kept
  <2> QED BY <2>1, <2>2 DEF Settled, GoesOn
\* What a step that reads a frame and moves only the read loop of e does.
<1>ReadTakes.
  ASSUME NEW e \in Endpoint, NEW cmd, HasFrame(e, cmd), ReadFrame(e),
         NEW r, r.pc # "accept", mux' \in {mux, [mux EXCEPT ![e].rl = r]}, up' = up
  PROVE  Takes(Peer(e))
  <2> USE <1>ReadTakes
  <2> DEFINE d == Peer(e)
             m == mux[e]
             n == [m EXCEPT !.rl = r]
  <2>1. d \in Endpoint /\ wire[d] # <<>>
    BY HeadFrame
  <2>2. \A c \in Endpoint : wire'[c] = IF c = d THEN Tail(wire[d]) ELSE wire[c]
    BY <2>1 DEF ReadFrame, IndInv
  <2>3. m \in Session /\ NamedSession(m, e, obj)
    BY PipeFacts DEF GoodSession
  <2>4. /\ n.count = m.count /\ n.data = m.data /\ n.streams = m.streams /\ n.wl = m.wl
        /\ n.closing = m.closing /\ n.pendingOpen = m.pendingOpen /\ n.acceptCh = m.acceptCh
        /\ n.control = m.control /\ n.rl = r
    BY <2>3, Zenon DEF Session
  <2>5. \A c \in Endpoint : mux'[c] = mux[c] \/ (c = e /\ mux'[c] = n)
    BY DEF IndInv
  <2> HIDE DEF n, m, d
  <2>6. NamedSession(n, e, obj)
    BY <2>3, <2>4 DEF NamedSession
  <2>7. ASSUME NEW c \in Endpoint
        PROVE  /\ mux'[c].count = mux[c].count /\ mux'[c].data = mux[c].data
               /\ mux'[c].streams = mux[c].streams /\ mux'[c].wl = mux[c].wl
               /\ mux'[c].closing = mux[c].closing /\ NamedSession(mux'[c], c, obj)
    <3>1. CASE mux'[c] = mux[c] BY <3>1, PipeFacts
    <3>2. CASE c = e /\ mux'[c] = n BY <3>2, <2>4, <2>6, Zenon DEF m
    <3> QED BY <2>5, <3>1, <3>2
  <2> QED BY <2>1, <2>2, <2>7 DEF Takes, d
\* The stream that a data or FIN frame is delivered to goes on.
<1>GotGoesOn.
  ASSUME NEW o \in Obj, NEW f, f.cmd \in {"DATA", "CLOSE"},
         Got(obj[o], obj'[o], f), obj[o].id # 0, Known(o, obj),
         f.src \in Obj, Linked(o, f.src, obj), obj'[o].origin = obj[o].origin,
         obj'[o].ackCh = obj[o].ackCh, obj'[o].call = obj[o].call,
         LifeCycle(obj'[o])
  PROVE  GoesOn(o, obj, obj')
  <2> USE <1>GotGoesOn
  <2>1. Settled(o, obj) /\ obj[o] \in Stream /\ obj[o].sent \in Nat
    BY PipeFacts, Zenon
  <2>2. Kept(obj[o], obj'[o])
    BY <2>1 DEF Kept, Got
  <2>3. ASSUME NEW i \in DOMAIN obj'[o].readBuf
        PROVE  obj'[o].readBuf[i].src \in Obj /\ Linked(o, obj'[o].readBuf[i].src, obj)
    <3> DEFINE b == obj[o].readBuf
               c == [src |-> f.src, seq |-> f.seq]
    <3>1. \A j \in DOMAIN b : b[j].src \in Obj /\ Linked(o, b[j].src, obj)
      BY <2>1 DEF Settled
    <3>2. b \in Seq([src : Obj \cup {NoObj}, seq : 0 .. MaxWrites])
      BY <2>1, Zenon DEF Stream
    <3>3. CASE f.cmd = "CLOSE"
      <4>1. obj'[o].readBuf = b
        BY <3>3, Zenon DEF Got
      <4> QED BY <3>1, <4>1
    <3>4. CASE f.cmd = "DATA"
      <4>1. obj'[o].readBuf = Append(b, c) /\ c.src = f.src
        BY <3>4, Zenon DEF Got
      <4> HIDE DEF b, c
      <4>2. \A j \in DOMAIN Append(b, c) :
                Append(b, c)[j] = c \/ (j \in DOMAIN b /\ Append(b, c)[j] = b[j])
        BY <3>2
      <4> QED BY <3>1, <4>1, <4>2, Zenon
    <3> QED BY <3>3, <3>4, Zenon
  <2>4. obj'[o].id = obj[o].id
    BY DEF Got
  <2> QED BY <2>2, <2>3, <2>4 DEF GoesOn
<1> SUFFICES ASSUME NEW e \in Endpoint, NEW cmd,
                    \/ cmd = "DATA" /\ RecvData(e)
                    \/ cmd = "CLOSE" /\ RecvClose(e)
             PROVE  Receives(e, cmd) /\ \A p \in Obj : GoesOn(p, obj, obj')
  OBVIOUS
<1> DEFINE d == Peer(e)
           f == Head(wire[d])
           o == mux[e].streams[f.id]
           c == [src |-> f.src, seq |-> f.seq]
<1>1. HasFrame(e, cmd) /\ ReadFrame(e) /\ up' = up /\ cmd \in {"DATA", "CLOSE"}
  BY RecvDataStep, RecvCloseStep, Zenon
<1>2. f.id \in Ids /\ f.cmd = cmd
  BY <1>1, HeadFrame, Zenon
<1>3. o \in Obj \cup {NoObj}
  <2>1. mux[e].streams \in [Ids -> Obj \cup {NoObj}]
    BY DEF IndInv, Session
  <2> QED BY <1>2, <2>1
<1>4. Takes(d)
  <2>1. CASE cmd = "DATA"
    <3>1. mux' = mux
      BY <2>1, RecvDataStep, Zenon
    <3>2. Reading.pc # "accept"
      BY DEF Reading
    <3> QED BY <1>1, <3>1, <3>2, <1>ReadTakes
  <2>2. CASE cmd = "CLOSE"
    <3> DEFINE r == [pc |-> "remove", id |-> f.id, obj |-> o]
    <3>1. mux' \in {mux, [mux EXCEPT ![e].rl = r]}
      BY <2>2, RecvCloseStep, Zenon
    <3>2. r.pc # "accept"
      OBVIOUS
    <3> HIDE DEF r
    <3> QED BY <1>1, <3>1, <3>2, <1>ReadTakes
  <2> QED BY <1>1, <2>1, <2>2
<1>5. o = NoObj => obj' = obj
  BY RecvDataStep, RecvCloseStep, Zenon
<1>6. ASSUME o \in Obj
      PROVE  /\ \A p \in Obj : p # o => obj'[p] = obj[p]
             /\ Got(obj[o], obj'[o], f) /\ LifeCycle(obj'[o])
             /\ obj'[o].origin = obj[o].origin /\ obj'[o].ackCh = obj[o].ackCh
             /\ obj'[o].call = obj[o].call
  <2> DEFINE s == obj[o]
             t == IF cmd = "DATA" THEN [s EXCEPT !.readBuf = Append(@, c)] ELSE RemoteClose(s)
  <2>1. s \in Stream /\ LifeCycle(s) /\ obj \in [Obj -> Stream] /\ o # NoObj
    BY <1>6, PipeFacts, NoObjFacts, Zenon DEF Settled, IndInv
  <2>2. obj' = [obj EXCEPT ![o] = t]
    <3>1. CASE cmd = "DATA"
      <4>1. t = [s EXCEPT !.readBuf = Append(@, c)] /\ RecvData(e)
        BY <3>1
      <4> QED BY <2>1, <4>1, RecvDataStep, Zenon
    <3>2. CASE cmd = "CLOSE"
      <4>1. t = RemoteClose(s) /\ RecvClose(e)
        BY <3>2
      <4> QED BY <2>1, <4>1, RecvCloseStep, Zenon
    <3> QED BY <1>1, <3>1, <3>2, Zenon
  <2>3. /\ t.id = s.id /\ t.origin = s.origin /\ t.sent = s.sent /\ t.drain = s.drain
        /\ t.closer = s.closer /\ t.closedAt = s.closedAt /\ t.wrote = s.wrote
        /\ t.writing = s.writing /\ t.call = s.call /\ t.finCh = s.finCh /\ t.ackCh = s.ackCh
    <3> HIDE DEF s, c
    <3>1. CASE cmd = "DATA" BY <2>1, <3>1, Zenon DEF Stream
    <3>2. CASE cmd = "CLOSE" BY <2>1, <3>2, RemoteCloseFields
    <3> QED BY <1>1, <3>1, <3>2
  <2>4. /\ cmd = "DATA" => t.state = s.state /\ t.readBuf = Append(s.readBuf, c)
        /\ cmd = "CLOSE" => t.readBuf = s.readBuf
    <3> HIDE DEF s, c
    <3>1. CASE cmd = "DATA" BY <2>1, <3>1 DEF Stream
    <3>2. CASE cmd = "CLOSE" BY <2>1, <3>2, RemoteCloseFields
    <3> QED BY <1>1, <3>1, <3>2
  <2>5. \/ t.state = s.state \/ (s.state = "Open" /\ t.state = "HalfClosedRemote")
        \/ (s.state = "HalfClosedLocal" /\ t.state = "Closed")
    <3> HIDE DEF s, c
    <3>1. CASE cmd = "DATA" BY <2>4, <3>1
    <3>2. CASE cmd = "CLOSE" BY <2>1, <3>2, RemoteCloseFields
    <3> QED BY <1>1, <3>1, <3>2
  <2> HIDE DEF t
  <2>6. \A p \in Obj : obj'[p] = IF p = o THEN t ELSE obj[p]
    <3> HIDE DEF o, s, f
    <3> QED BY <1>6, <2>1, <2>2
  <2>7. Got(s, t, f)
    <3> HIDE DEF s, f, o
    <3> QED BY <1>2, <2>3, <2>4, <2>5, Zenon DEF Got, c
  <2>8. LifeCycle(t)
    <3> HIDE DEF s
    <3> QED BY <2>1, <2>3, <2>5, Zenon DEF LifeCycle
  <2> HIDE DEF o, f
  <2> QED BY <1>6, <2>3, <2>6, <2>7, <2>8
<1>7. \A p \in Obj : IF p = o THEN Got(obj[p], obj'[p], f) ELSE obj'[p] = obj[p]
  <2> HIDE DEF o, f
  <2> QED BY <1>3, <1>5, <1>6, NoObjFacts
<1>8. Receives(e, cmd)
  BY <1>1, <1>4, <1>7, Zenon DEF Receives
<1>9. ASSUME NEW p \in Obj PROVE GoesOn(p, obj, obj')
  <2>1. CASE p # o
    <3>1. obj'[p] = obj[p]
      BY <1>7, <2>1
    <3> QED BY <3>1, <1>SameGoesOn
  <2>2. CASE p = o
    <3>1. o \in Obj
      BY <2>2
    <3>2. /\ f.src \in Obj /\ Linked(o, f.src, obj) /\ Known(o, obj)
      BY <1>1, <3>1, EntryLinked, Zenon
    <3> HIDE DEF o, f
    <3>3. obj[o].id # 0
      BY <3>2, Zenon DEF Linked
    <3>4. GoesOn(o, obj, obj')
      <4>1. f.cmd \in {"DATA", "CLOSE"}
        BY <1>1, <1>2, Zenon
      <4>2. /\ Got(obj[o], obj'[o], f) /\ LifeCycle(obj'[o])
            /\ obj'[o].origin = obj[o].origin /\ obj'[o].ackCh = obj[o].ackCh
            /\ obj'[o].call = obj[o].call
        BY <1>6, <3>1, Zenon
      <4> QED BY <4>1, <4>2, <3>1, <3>2, <3>3, <1>GotGoesOn
    <3> QED BY <2>2, <3>4
  <2> QED BY <2>1, <2>2
<1> QED BY <1>8, <1>9

\* readLoop delivers a chunk, or the FIN.
LEMMA ReceiversPipe ==
  ASSUME IndInv, LinkInv, FinInv, FlowInv, IndInv'
  PROVE  \A e \in Endpoint :
           RecvData(e) \/ RecvClose(e)
             => LinkInv' /\ FinInv' /\ FlowInv'
\* Links through a step that reads a frame.
<1>TakeLink.
  ASSUME NEW d, Takes(d), \A p \in Obj : GoesOn(p, obj, obj')
  PROVE  LinkInv'
  <2> USE <1>TakeLink
  <2>1. \A p \in Obj : Kept(obj[p], obj'[p])
    BY DEF GoesOn
  <2>2. \A c \in Endpoint : SentFrames(mux[c].data, c, obj') /\ SentFrames(wire[c], c, obj')
    BY <2>1, KeptFrames
  <2>3. d \in Endpoint /\ wire[d] # <<>> /\ wire[d] \in Seq(Frame)
    BY PipeFacts, Zenon DEF Takes
  <2>4. SentFrames(Tail(wire[d]), d, obj')
    BY <2>2, <2>3, FramesTail, Zenon
  <2>5. \A c \in Endpoint : SentFrames(mux'[c].data, c, obj') /\ SentFrames(wire'[c], c, obj')
    BY <2>2, <2>4 DEF Takes
  <2>6. \A c \in Endpoint : mux'[c].count = mux[c].count
    BY DEF Takes
  <2>7. \A c \in Endpoint : NamedSession(mux'[c], c, obj)
    BY DEF Takes
  <2> QED BY <2>5, <2>6, <2>7, LinkStep, Zenon
\* The order of data and FIN through a step that reads a frame.
<1>TakeFin.
  ASSUME NEW d, Takes(d)
  PROVE  FinInv'
  <2> USE <1>TakeFin
  <2>1. d \in Endpoint /\ wire[d] # <<>> /\ wire[d] \in Seq(Frame)
    BY PipeFacts, Zenon DEF Takes
  <2>2. FinOrder(Tail(wire[d])) /\ \A p : HasFin(Tail(wire[d]), p) => HasFin(wire[d], p)
    BY <2>1, FinTail, Zenon DEF FinInv
  <2> SUFFICES ASSUME NEW c \in Endpoint
               PROVE  /\ FinOrder(wire'[c]) /\ FinOrder(mux'[c].data)
                      /\ \A i \in DOMAIN mux'[c].data :
                           mux'[c].data[i].cmd = "DATA" => ~HasFin(wire'[c], mux'[c].data[i].src)
    BY DEF FinInv
  <2>3. mux'[c].data = mux[c].data
    BY DEF Takes
  <2>4. FinOrder(wire[c]) /\ FinOrder(mux[c].data)
        /\ \A i \in DOMAIN mux[c].data :
             mux[c].data[i].cmd = "DATA" => ~HasFin(wire[c], mux[c].data[i].src)
    BY DEF FinInv
  <2>5. CASE c = d
    <3>1. wire'[c] = Tail(wire[d])
      BY <2>5 DEF Takes
    <3> QED BY <2>2, <2>3, <2>4, <2>5, <3>1
  <2>6. CASE c # d
    <3>1. wire'[c] = wire[c]
      BY <2>6, Zenon DEF Takes
    <3> QED BY <2>3, <2>4, <3>1
  <2> QED BY <2>5, <2>6, Zenon
\* A chunk of p is read: it is the next one.
<1>FlightTake.
  ASSUME NEW p, NEW n \in Nat, NEW k \in Nat, NEW w \in Seq(Frame), w # <<>>, NEW m, NEW u,
         InFlight(p, n, k, w, m, u), DataOf(Head(w), p)
  PROVE  Head(w).seq = n + 1 /\ n + 1 <= k /\ InFlight(p, n + 1, k, Tail(w), m, u)
  <2> USE <1>FlightTake
  <2>1. PICK a \in Nat : /\ Reaches(w, p, n, a, k, "optional")
                         /\ CanSend(m, u) => \E b \in Nat : Reaches(m.data, p, a, b, k, m.closing)
    BY DEF InFlight
  <2>2. n <= a /\ a <= k /\ Carries(w, p, n, a) /\ (HasFin(w, p) => a = k)
    BY <2>1 DEF Reaches
  <2>3. HasFin(Tail(w), p) => HasFin(w, p)
    BY FinTail
  <2>4. Head(w).seq = n + 1 /\ n + 1 <= a /\ Carries(Tail(w), p, n + 1, a)
    BY <2>2, CarriesTail
  <2>5. Reaches(Tail(w), p, n + 1, a, k, "optional")
    BY <2>2, <2>3, <2>4 DEF Reaches
  <2>6. n + 1 <= k
    BY <2>2, <2>4
  <2> QED BY <2>1, <2>4, <2>5, <2>6, Zenon DEF InFlight
\* The FIN of p is read: every chunk that p sent was read before.
<1>FlightFin.
  ASSUME NEW p, NEW n \in Nat, NEW k \in Nat, NEW w \in Seq(Frame), w # <<>>, NEW m, NEW u,
         InFlight(p, n, k, w, m, u), FinOrder(w), FinOf(Head(w), p)
  PROVE  n = k
  <2> USE <1>FlightFin
  <2>1. PICK a \in Nat : Reaches(w, p, n, a, k, "optional")
    BY DEF InFlight
  <2>2. n <= a /\ a <= k /\ Carries(w, p, n, a) /\ (HasFin(w, p) => a = k)
    BY <2>1 DEF Reaches
  <2>3. n = a
    BY <2>2, FinHead
  <2>4. HasFin(w, p)
    BY TailShift DEF HasFin
  <2> QED BY <2>2, <2>3, <2>4
\* The entry of an ID is a stream with that ID.
<1>EntryId.
  ASSUME NEW e \in Endpoint, NEW i \in Ids, mux[e].streams[i] \in Obj
  PROVE  obj[mux[e].streams[i]].id = i /\ mux[e].streams[i][1] = e
  <2> USE <1>EntryId
  <2>1. NamedSession(mux[e], e, obj)
    BY PipeFacts
  <2>2. OwnEntry(mux[e].streams[i], e, i, obj)
    BY <2>1 DEF NamedSession
  <2> QED BY <2>2, NoObjFacts, Zenon DEF OwnEntry
\* While no ID is used twice, a frame is delivered to the other end of the stream
\* that sent it: the one that is attached to the ID.
<1>OnlyAddressee.
  ASSUME IDsUsedOnce, NEW e \in Endpoint, NEW cmd \in {"DATA", "CLOSE"},
         HasFrame(e, cmd), NEW x \in Obj, NEW p \in Obj, Linked(x, p, obj), p[1] = Peer(e)
  PROVE  LET f == Head(wire[Peer(e)])
         IN  x = mux[e].streams[f.id] <=> f.src = p /\ mux[x[1]].streams[obj[x].id] = x
  <2> USE <1>OnlyAddressee
  <2> DEFINE f == Head(wire[Peer(e)])
  <2>1. /\ Peer(e) # e /\ f.id \in Ids /\ f.cmd = cmd /\ SentFrame(f, Peer(e), obj)
    BY HeadFrame, Zenon
  <2>2. f.src \in Obj /\ f.src[1] = Peer(e) /\ f.id = obj[f.src].id
    BY <2>1, Zenon DEF SentFrame
  <2>3. x[1] = e
    <3>1. x[1] \in Endpoint /\ x[1] # p[1]
      BY NoObjFacts DEF Linked
    <3> QED BY <3>1 DEF Endpoint, Peer
  <2>4. obj[x].id = obj[p].id /\ obj[p].id # 0
    BY DEF Linked
  <2>5. ASSUME x = mux[e].streams[f.id] PROVE f.src = p /\ mux[x[1]].streams[obj[x].id] = x
    <3>1. obj[x].id = f.id
      <4>1. f.id \in Ids /\ mux[e].streams[f.id] \in Obj
        BY <2>1, <2>5, Zenon
      <4> HIDE DEF f
      <4>2. obj[mux[e].streams[f.id]].id = f.id
        BY <4>1, <1>EntryId
      <4> QED BY <2>5, <4>2, Zenon
    <3> HIDE DEF f
    <3>2. f.src = p
      BY <2>2, <2>4, <3>1, Zenon DEF IDsUsedOnce
    <3> QED BY <2>3, <2>5, <3>1, <3>2, Zenon
  <2>6. ASSUME f.src = p, mux[x[1]].streams[obj[x].id] = x PROVE x = mux[e].streams[f.id]
    BY <2>2, <2>3, <2>4, <2>6
  <2> QED BY <2>5, <2>6, Zenon
\* StreamSession.Deliver.
<1>BufAppend.
  ASSUME NEW T, NEW b \in Seq(T), NEW c \in T, \A i \in DOMAIN b : b[i].seq = i,
         c.seq = Len(b) + 1
  PROVE  /\ Len(Append(b, c)) = Len(b) + 1 /\ Len(b) \in Nat
         /\ \A i \in DOMAIN Append(b, c) : Append(b, c)[i].seq = i
  <2> USE <1>BufAppend
  <2>1. /\ Len(b) \in Nat /\ Len(Append(b, c)) = Len(b) + 1
        /\ DOMAIN b = 1 .. Len(b) /\ DOMAIN Append(b, c) = 1 .. Len(b) + 1
        /\ \A i \in DOMAIN b : Append(b, c)[i] = b[i]
        /\ Append(b, c)[Len(b) + 1] = c
    OBVIOUS
  <2> QED BY <2>1
\* Delivery, seen from a stream x whose other end is p.
<1>ReceiveFlow.
  ASSUME NEW e \in Endpoint, NEW cmd, Receives(e, cmd)
  PROVE  FlowInv'
  <2> USE <1>ReceiveFlow
  <2> DEFINE d == Peer(e)
             w == wire[d]
             f == Head(w)
             o == mux[e].streams[f.id]
  <2>1. /\ cmd \in {"DATA", "CLOSE"} /\ HasFrame(e, cmd) /\ Takes(d)
        /\ \A p \in Obj : IF p = o THEN Got(obj[p], obj'[p], f) ELSE obj'[p] = obj[p]
    BY DEF Receives
  <2>2. /\ d \in Endpoint /\ d # e /\ w \in Seq(Frame) /\ w # <<>> /\ f.cmd = cmd
        /\ SentFrame(f, d, obj) /\ f \in Frame
    BY <2>1, HeadFrame, Zenon
  <2>3. \A p \in Obj : /\ obj'[p].id = obj[p].id /\ obj'[p].sent = obj[p].sent
                       /\ obj'[p].closedAt = obj[p].closedAt /\ obj'[p].drain = obj[p].drain
                       /\ obj'[p].closer = obj[p].closer
                       /\ obj'[p].state = "Reset" <=> obj[p].state = "Reset"
    BY <2>1, <2>2, Zenon DEF Got
  <2>4. IDsUsedOnce' => IDsUsedOnce
    BY <2>3 DEF IDsUsedOnce
  <2> SUFFICES ASSUME IDsUsedOnce, NEW x \in Obj, NEW p \in Obj,
                      Linked(x, p, obj'), obj'[x].state # "Reset"
               PROVE  Flow(x, p)'
    BY <2>4 DEF FlowInv
  <2>5. Linked(x, p, obj) /\ obj[x].state # "Reset"
    BY <2>3, Zenon DEF Linked
  <2>6. Flow(x, p)
    BY <2>5 DEF FlowInv
  <2>7. /\ x[1] \in Endpoint /\ p[1] \in Endpoint /\ x[1] # p[1] /\ obj[x] \in Stream
        /\ Len(obj[x].readBuf) \in Nat /\ obj[p].sent \in Nat
    <3>1. obj[x] \in Stream /\ obj[p].sent \in Nat
      BY PipeFacts
    <3>2. Len(obj[x].readBuf) \in Nat
      BY <3>1 DEF Stream
    <3> QED BY <2>5, <3>1, <3>2, NoObjFacts, Zenon DEF Linked
  <2>a. /\ x = o => Got(obj[x], obj'[x], f)
        /\ x # o => obj'[x] = obj[x]
    BY <2>1, Zenon
  <2>8. /\ mux'[x[1]].streams = mux[x[1]].streams
        /\ \A n, k, v : InFlight(p, n, k, v, mux[p[1]], up) => InFlight(p, n, k, v, mux'[p[1]], up')
    <3>1. /\ mux'[x[1]].streams = mux[x[1]].streams /\ mux'[p[1]].data = mux[p[1]].data
          /\ mux'[p[1]].wl = mux[p[1]].wl /\ mux'[p[1]].closing = mux[p[1]].closing /\ up' = up
      BY <2>1, <2>7, Zenon DEF Takes
    <3> QED BY <3>1, FlightStop, Zenon
  <2> DEFINE attached == mux[x[1]].streams[obj[x].id] = x
             n == Len(obj[x].readBuf)
             k == obj[p].sent
  <2>9. attached => InFlight(p, n, k, wire[p[1]], mux[p[1]], up)
    BY <2>6, Zenon DEF Flow
  <2>10. ASSUME obj'[x] = obj[x],
                attached => InFlight(p, n, k, wire'[p[1]], mux[p[1]], up)
         PROVE  Flow(x, p)'
    BY <2>3, <2>6, <2>8, <2>10, Zenon DEF Flow
  <2>11. CASE p[1] # d
    <3>1. x # o
      <4>1. x[1] # e
        BY <2>2, <2>7, <2>11 DEF Endpoint
      <4> QED BY <4>1, <2>1, EntryLinked, Zenon
    <3>2. wire'[p[1]] = wire[p[1]]
      BY <2>1, <2>7, <2>11, Zenon DEF Takes
    <3> QED BY <2>1, <2>9, <2>10, <3>1, <3>2, Zenon
  <2>12. CASE p[1] = d
    <3>1. x = o <=> f.src = p /\ attached
      BY <2>1, <2>5, <2>12, <1>OnlyAddressee, Zenon
    <3> HIDE DEF d, w, f, o, n, k, attached
    <3>2. wire'[p[1]] = Tail(w) /\ wire[p[1]] = w /\ FinOrder(w)
      BY <2>1, <2>2, <2>12, Zenon DEF Takes, FinInv, w
    <3>a. n \in Nat /\ k \in Nat
      BY <2>7, Zenon DEF n, k
    <3>3. CASE x # o
      <4>1. attached => ~DataOf(f, p)
        BY <3>1, <3>3, Zenon DEF DataOf
      <4>2. ASSUME attached PROVE InFlight(p, n, k, Tail(w), mux[p[1]], up)
        <5>1. InFlight(p, n, k, w, mux[p[1]], up) /\ ~DataOf(Head(w), p)
          BY <2>9, <3>2, <4>1, <4>2 DEF f
        <5> QED BY <2>2, <3>a, <5>1, FlightPass, Zenon
      <4> QED BY <2>10, <2>a, <3>2, <3>3, <4>2
    <3>4. CASE x = o /\ cmd = "DATA"
      <4>1. DataOf(f, p) /\ InFlight(p, n, k, w, mux[p[1]], up)
        BY <2>2, <2>9, <3>1, <3>2, <3>4, Zenon DEF DataOf
      <4>2. f.seq = n + 1 /\ n + 1 <= k /\ InFlight(p, n + 1, k, Tail(w), mux[p[1]], up)
        BY <2>2, <3>2, <3>a, <4>1, <1>FlightTake, Zenon DEF f
      <4>3. /\ obj'[x].state = obj[x].state
            /\ obj'[x].readBuf = Append(obj[x].readBuf, [src |-> f.src, seq |-> f.seq])
        BY <2>a, <2>2, <3>4, Zenon DEF Got
      <4>4. /\ Len(obj'[x].readBuf) = n + 1
            /\ \A i \in DOMAIN obj'[x].readBuf : obj'[x].readBuf[i].seq = i
        <5>1. obj[x].readBuf \in Seq([src : Obj \cup {NoObj}, seq : 0 .. MaxWrites])
          BY <2>7, Zenon DEF Stream
        <5>2. \A i \in DOMAIN obj[x].readBuf : obj[x].readBuf[i].seq = i
          BY <2>6, Zenon DEF Flow
        <5>3. [src |-> f.src, seq |-> f.seq] \in [src : Obj \cup {NoObj}, seq : 0 .. MaxWrites]
          BY <2>2 DEF Frame
        <5>4. [src |-> f.src, seq |-> f.seq].seq = Len(obj[x].readBuf) + 1
          BY <4>2, Zenon DEF n
        <5> QED BY <4>3, <5>1, <5>2, <5>3, <5>4, <1>BufAppend, SMTT(20) DEF n
      <4>5. obj[x].state \notin Eof
        BY <2>6, <3>a, <4>2 DEF Flow, n, k
      <4>6. InFlight(p, n + 1, k, Tail(w), mux'[p[1]], up')
        BY <2>8, <4>2, Zenon
      <4> QED BY <2>3, <3>2, <4>3, <4>4, <4>5, <4>6, Zenon DEF Flow, k
    <3>5. CASE x = o /\ cmd = "CLOSE"
      <4>1. FinOf(f, p) /\ ~DataOf(f, p) /\ InFlight(p, n, k, w, mux[p[1]], up)
        BY <2>2, <2>9, <3>1, <3>2, <3>5, Zenon DEF DataOf, FinOf
      <4>2. n = k /\ InFlight(p, n, k, Tail(w), mux[p[1]], up)
        <5>1. FinOf(Head(w), p) /\ ~DataOf(Head(w), p)
          BY <4>1, Zenon DEF f
        <5>0. w \in Seq(Frame) /\ w # <<>> /\ FinOrder(w) /\ InFlight(p, n, k, w, mux[p[1]], up)
          BY <2>2, <3>2, <4>1, Zenon
        <5>2. InFlight(p, n, k, Tail(w), mux[p[1]], up)
          BY <3>a, <5>0, <5>1, FlightPass, Zenon
        <5>3. n = k
          BY <3>a, <5>0, <5>1, <1>FlightFin, Zenon
        <5> QED BY <5>2, <5>3, Zenon
      <4>3. /\ obj[p].drain = "done" /\ obj[p].closer # "no" /\ obj[p].closedAt <= obj[p].sent
        BY <2>2, <4>1, Zenon DEF SentFrame, FinOf
      <4>4. obj'[x].readBuf = obj[x].readBuf
        BY <2>a, <2>2, <3>5, Zenon DEF Got
      <4>5. InFlight(p, n, k, Tail(w), mux'[p[1]], up')
        BY <2>8, <4>2
      <4>6. \A i \in DOMAIN obj[x].readBuf : obj[x].readBuf[i].seq = i
        BY <2>6 DEF Flow
      <4> QED BY <2>3, <3>2, <4>2, <4>3, <4>4, <4>5, <4>6, Zenon DEF Flow, n, k
    <3> QED BY <2>1, <3>3, <3>4, <3>5, Zenon
  <2> QED BY <2>11, <2>12, Zenon
<1> SUFFICES ASSUME NEW e \in Endpoint, RecvData(e) \/ RecvClose(e)
             PROVE  LinkInv' /\ FinInv' /\ FlowInv'
  OBVIOUS
<1>1. PICK cmd \in {"DATA", "CLOSE"} :
        Receives(e, cmd) /\ \A p \in Obj : GoesOn(p, obj, obj')
  BY RecvReceives, Zenon
<1>2. Takes(Peer(e))
  BY <1>1 DEF Receives
<1> QED BY <1>1, <1>2, <1>TakeLink, <1>TakeFin, <1>ReceiveFlow

-----------------------------------------------------------------------------
\* The steps that create a stream

\* Stream o comes into being as t and leaves its session as n; a stream that
\* was opened by the peer is acknowledged.
Creates(o, t, n) ==
  LET m == mux[o[1]] IN
  /\ o[2] = m.count + 1 /\ n.count = m.count + 1
  /\ t.id \in Ids /\ t.state = "Open" /\ t.wrote = 0 /\ t.sent = 0 /\ t.readBuf = <<>>
  /\ t.closer = "no" /\ t.closedAt = 0 /\ ~t.finCh /\ ~t.ackCh /\ ~t.writing
  /\ \/ t.call = "alloc" /\ t.drain = "none" /\ t.origin = NoObj
     \/ /\ t.call = "queued" /\ t.drain = "select"
        /\ t.origin \in Obj /\ t.origin[1] # o[1] /\ obj[t.origin].id = t.id
  /\ \A i \in Ids : n.streams[i] = IF i = t.id THEN o ELSE m.streams[i]
  /\ n.pendingOpen = m.pendingOpen /\ n.acceptCh = m.acceptCh /\ n.control = m.control
  /\ n.rl = m.rl \/ (n.rl.obj = o /\ t.origin # NoObj)
  /\ n.closing = m.closing /\ n.wl = m.wl
  /\ \/ n.data = m.data
     \/ /\ t.origin # NoObj
        /\ n.data = IF m.closing = "no" THEN Append(m.data, NewFrame("ACK", t.id, o, 0))
                                        ELSE m.data
  /\ \A p \in Obj : obj'[p] = IF p = o THEN t ELSE obj[p]
  /\ \A d \in Endpoint : mux'[d] = IF d = o[1] THEN n ELSE mux[d]
  /\ \A d \in Endpoint : Drops(wire[d], wire'[d])
  /\ up' = up

\* What Creates starts from, and what it leaves alone.
LEMMA CreateFacts ==
  ASSUME IndInv, LinkInv, NEW o \in Obj, NEW t, NEW n, Creates(o, t, n)
  PROVE  /\ obj[o] = NewStreamSession /\ obj[o].id = 0 /\ obj[o].sent = 0
         /\ \A p \in Obj : Kept(obj[p], obj'[p])
         /\ \A p \in Used : p # o /\ obj'[p] = obj[p]
         /\ t.id # 0 /\ o[1] \in Endpoint /\ obj'[o] = t
<1>1. o[1] \in Endpoint /\ mux[o[1]].count \in Nat
  BY NoObjFacts DEF IndInv, Session
<1>2. o[2] > mux[o[1]].count
  BY <1>1 DEF Creates
<1>3. obj[o] = NewStreamSession
  BY <1>2, Zenon DEF LinkInv, Fresh
<1>4. /\ obj[o].id = 0 /\ obj[o].sent = 0 /\ obj[o].drain = "none" /\ obj[o].closer = "no"
  BY <1>3, NewFields, Zenon
<1>5. t.id # 0 /\ t.id \in Ids /\ t.sent = 0
  BY MuxAssumption DEF Creates, Ids
<1>6. \A p \in Obj : obj'[p] = IF p = o THEN t ELSE obj[p]
  BY DEF Creates
<1>7. ASSUME NEW p \in Obj PROVE Kept(obj[p], obj'[p])
  <2>1. obj[p].sent \in Nat
    BY PipeFacts
  <2> QED BY <1>4, <1>5, <1>6, <2>1 DEF Kept
<1>8. \A p \in Used : p # o /\ p \in Obj
  BY <1>4 DEF Used
<1> QED BY <1>1, <1>3, <1>4, <1>5, <1>6, <1>7, <1>8

\* The stream struct a session creates next has never been used.
LEMMA NextObj ==
  ASSUME IndInv, LinkInv, NEW e \in Endpoint, mux[e].count < MaxObj
  PROVE  LET o == <<e, mux[e].count + 1>> IN
         o \in Obj /\ o[1] = e /\ o[2] = mux[e].count + 1 /\ obj[o] = NewStreamSession
<1> DEFINE o == <<e, mux[e].count + 1>>
<1>1. mux[e].count \in 0 .. MaxObj
  BY DEF IndInv, Session
<1>2. mux[e].count + 1 \in 1 .. MaxObj
  BY <1>1, MuxAssumption
<1>3. o \in Obj /\ o[1] = e /\ o[2] = mux[e].count + 1
  BY <1>2 DEF Obj
<1>4. o[2] > mux[o[1]].count
  BY <1>1, <1>3
<1> HIDE DEF o
<1>5. obj[o] = NewStreamSession
  BY <1>3, <1>4, Zenon DEF LinkInv, Fresh
<1> QED BY <1>3, <1>5 DEF o

\* OpenStream creates a stream of its own.
LEMMA AllocCreates ==
  ASSUME IndInv, LinkInv
  PROVE  \A e \in Endpoint : OpenAlloc(e) => \E o \in Obj : \E t, n : Creates(o, t, n)
\* What OpenStream does to the session under m.mu.
<1>AllocFields.
  ASSUME NEW m \in Session, NEW id \in Ids, NEW o \in Obj
  PROVE  LET n == [TakeID(m) EXCEPT !.streams[id] = o, !.calls = @ - 1, !.count = @ + 1] IN
         /\ n.count = m.count + 1 /\ n.data = m.data /\ n.control = m.control
         /\ n.acceptCh = m.acceptCh /\ n.closing = m.closing /\ n.wl = m.wl /\ n.rl = m.rl
         /\ n.pendingOpen = m.pendingOpen
         /\ \A i \in Ids : n.streams[i] = IF i = id THEN o ELSE m.streams[i]
  <2> DEFINE k == TakeID(m)
             n == [k EXCEPT !.streams[id] = o, !.calls = @ - 1, !.count = @ + 1]
  <2>1. /\ k \in Session
        /\ k.count = m.count /\ k.data = m.data /\ k.control = m.control
        /\ k.acceptCh = m.acceptCh /\ k.closing = m.closing /\ k.wl = m.wl /\ k.rl = m.rl
        /\ k.pendingOpen = m.pendingOpen /\ k.streams = m.streams
    <3>1. CASE m.freeIDs # <<>>
      <4> DEFINE q == SubSeq(m.freeIDs, 1, Len(m.freeIDs) - 1)
      <4>1. k = [m EXCEPT !.freeIDs = q]
        BY <3>1 DEF TakeID
      <4>2. m.freeIDs \in Seq(Ids)
        BY DEF Session
      <4>3. q \in Seq(Ids)
        BY <3>1, <4>2
      <4> HIDE DEF q, k
      <4>4. k \in Session
        BY <4>1, <4>3, Zenon DEF Session
      <4> QED BY <4>1, <4>4, Zenon DEF Session
    <3>2. CASE m.freeIDs = <<>>
      <4> DEFINE q == m.nextStreamID + 2
      <4>1. k = [m EXCEPT !.nextStreamID = q]
        BY <3>2 DEF TakeID
      <4>2. m.nextStreamID \in Nat
        BY DEF Session
      <4>3. q \in Nat
        BY <4>2
      <4> HIDE DEF q, k
      <4>4. k \in Session
        BY <4>1, <4>3, Zenon DEF Session
      <4> QED BY <4>1, <4>4, Zenon DEF Session
    <3> QED BY <3>1, <3>2
  <2> HIDE DEF k
  <2>2. k.streams \in [Ids -> Obj \cup {NoObj}]
    BY <2>1 DEF Session
  <2>3. n.streams = [k.streams EXCEPT ![id] = o] /\ n.count = k.count + 1
    BY <2>1, Zenon DEF Session
  <2>4. /\ n.data = k.data /\ n.control = k.control /\ n.acceptCh = k.acceptCh
        /\ n.closing = k.closing /\ n.wl = k.wl /\ n.rl = k.rl /\ n.pendingOpen = k.pendingOpen
    BY <2>1, Zenon DEF Session
  <2> HIDE DEF n
  <2>5. \A i \in Ids : n.streams[i] = IF i = id THEN o ELSE k.streams[i]
    BY <2>2, <2>3, Zenon
  <2>6. /\ n.count = m.count + 1 /\ n.data = m.data /\ n.control = m.control
        /\ n.acceptCh = m.acceptCh /\ n.closing = m.closing /\ n.wl = m.wl /\ n.rl = m.rl
        /\ n.pendingOpen = m.pendingOpen
        /\ \A i \in Ids : n.streams[i] = IF i = id THEN o ELSE m.streams[i]
    BY <2>1, <2>3, <2>4, <2>5
  <2> QED BY <2>6, Zenon DEF n, k
\* The step of OpenStream under m.mu.
<1>OpenAllocStep.
  ASSUME NEW e, OpenAlloc(e)
  PROVE  LET id == AllocID(mux[e])
             o == <<e, mux[e].count + 1>>
         IN  /\ mux[e].count < MaxObj /\ wire' = wire /\ up' = up
             /\ mux' = [mux EXCEPT ![e] = [TakeID(mux[e]) EXCEPT !.streams[id] = o,
                                             !.calls = @ - 1, !.count = @ + 1]]
             /\ obj' = [obj EXCEPT ![o].id = id, ![o].state = "Open", ![o].call = "alloc"]
  <2> USE <1>OpenAllocStep
  <2> DEFINE id == AllocID(mux[e])
             o == <<e, mux[e].count + 1>>
  <2>1. mux[e].count < MaxObj /\ wire' = wire /\ up' = up
    BY Zenon DEF OpenAlloc
  <2>2. mux' = [mux EXCEPT ![e] = [TakeID(mux[e]) EXCEPT !.streams[id] = o,
                                               !.calls = @ - 1, !.count = @ + 1]]
    BY Zenon DEF OpenAlloc
  <2>3. obj' = [obj EXCEPT ![o].id = id, ![o].state = "Open", ![o].call = "alloc"]
    BY Zenon DEF OpenAlloc
  <2> QED BY <2>1, <2>2, <2>3, Zenon
<1> SUFFICES ASSUME NEW e \in Endpoint, OpenAlloc(e)
             PROVE  \E o \in Obj : \E t, n : Creates(o, t, n)
  OBVIOUS
<1> DEFINE m == mux[e]
           id == AllocID(m)
           o == <<e, m.count + 1>>
           s == NewStreamSession
           t == [s EXCEPT !.id = id, !.state = "Open", !.call = "alloc"]
           n == [TakeID(m) EXCEPT !.streams[id] = o, !.calls = @ - 1, !.count = @ + 1]
<1>1. /\ m.count < MaxObj /\ \A d \in Endpoint : wire'[d] = wire[d]
      /\ up' = up
  BY <1>OpenAllocStep, Zenon
<1>2. o \in Obj /\ o[1] = e /\ o[2] = m.count + 1 /\ obj[o] = s
  BY <1>1, NextObj
<1>3. m \in Session /\ obj \in [Obj -> Stream] /\ mux \in [Endpoint -> Session]
      /\ GoodSession(m, e, Used)
  BY PipeFacts, Zenon DEF IndInv
<1>4. id \in Ids
  <2>1. CASE m.freeIDs # <<>>
    <3>1. m.freeIDs \in Seq(Ids) /\ Len(m.freeIDs) \in DOMAIN m.freeIDs
      BY <1>3, <2>1 DEF Session
    <3> QED BY <2>1, <3>1 DEF AllocID
  <2>2. CASE m.freeIDs = <<>>
    <3>1. /\ m.nextStreamID \in Nat /\ m.count \in Nat
          /\ 0 < m.nextStreamID /\ m.nextStreamID <= 2 * m.count + 2
      BY <1>3, SessionNumbers, Zenon DEF GoodSession
    <3>2. id = m.nextStreamID
      BY <2>2, Zenon DEF AllocID
    <3> HIDE DEF m, id
    <3> QED BY <1>1, <3>1, <3>2, MuxAssumption DEF Ids
  <2> QED BY <2>1, <2>2
<1>5. mux' = [mux EXCEPT ![e] = n]
  BY <1>OpenAllocStep, Zenon
<1>6. obj' = [obj EXCEPT ![o].id = id, ![o].state = "Open", ![o].call = "alloc"]
  BY <1>OpenAllocStep, Zenon
<1>7. /\ n.count = m.count + 1 /\ n.data = m.data /\ n.control = m.control
      /\ n.acceptCh = m.acceptCh /\ n.closing = m.closing /\ n.wl = m.wl /\ n.rl = m.rl
      /\ n.pendingOpen = m.pendingOpen
      /\ \A i \in Ids : n.streams[i] = IF i = id THEN o ELSE m.streams[i]
  <2> HIDE DEF m, id, o, s
  <2>1. o \in Obj /\ id \in Ids /\ m \in Session
    BY <1>2, <1>3, <1>4
  <2> QED BY <2>1, <1>AllocFields, Zenon
<1> HIDE DEF id, n
<1>8. /\ t.id = id /\ t.state = "Open" /\ t.wrote = 0 /\ t.sent = 0 /\ t.readBuf = <<>>
      /\ t.closer = "no" /\ t.closedAt = 0 /\ ~t.finCh /\ ~t.ackCh /\ ~t.writing
      /\ t.call = "alloc" /\ t.drain = "none" /\ t.origin = NoObj
  BY DEF NewStreamSession
<1>9. obj' = [obj EXCEPT ![o] = t]
  <2> HIDE DEF o, s
  <2> QED BY <1>2, <1>3, <1>6, Zenon
<1> HIDE DEF t, o, s
<1>10. \A p \in Obj : obj'[p] = IF p = o THEN t ELSE obj[p]
  BY <1>2, <1>3, <1>9
<1>11. \A d \in Endpoint : mux'[d] = IF d = e THEN n ELSE mux[d]
  BY <1>3, <1>5
<1>12. \A d \in Endpoint : Drops(wire[d], wire'[d])
  BY <1>1 DEF Drops
<1>13. o[1] = e /\ o[2] = mux[o[1]].count + 1 /\ mux[o[1]] = m
  BY <1>2
<1> HIDE DEF m
<1>14. Creates(o, t, n)
  BY <1>1, <1>4, <1>7, <1>8, <1>10, <1>11, <1>12, <1>13, Zenon DEF Creates
<1> QED BY <1>2, <1>14

\* handleStreamOpen creates the other end of the stream whose OPEN it read.
LEMMA AcceptCreates ==
  ASSUME IndInv, LinkInv
  PROVE  \A e \in Endpoint : RecvOpen(e) => \E o \in Obj : \E t, n : Creates(o, t, n)
\* What handleStreamOpen does to the session before it enqueues the ACK.
<1>AcceptFields.
  ASSUME NEW m \in Session, m.count < MaxObj, NEW id \in Ids, NEW o \in Obj
  PROVE  LET r == [pc |-> "accept", id |-> id, obj |-> o]
             n == [m EXCEPT !.streams[id] = o, !.count = @ + 1, !.rl = r] IN
         /\ n \in Session
         /\ n.count = m.count + 1 /\ n.data = m.data /\ n.control = m.control
         /\ n.acceptCh = m.acceptCh /\ n.closing = m.closing /\ n.wl = m.wl /\ n.rl.obj = o
         /\ n.pendingOpen = m.pendingOpen
         /\ \A i \in Ids : n.streams[i] = IF i = id THEN o ELSE m.streams[i]
  <2> USE <1>AcceptFields
  <2> DEFINE r == [pc |-> "accept", id |-> id, obj |-> o]
             n == [m EXCEPT !.streams[id] = o, !.count = @ + 1, !.rl = r]
             st == [m.streams EXCEPT ![id] = o]
             c == m.count + 1
  <2>1. m.streams \in [Ids -> Obj \cup {NoObj}] /\ m.count \in 0 .. MaxObj
    BY DEF Session
  <2>2. st \in [Ids -> Obj \cup {NoObj}] /\ c \in 0 .. MaxObj
    BY <2>1, MuxAssumption
  <2>3. \A i \in Ids : st[i] = IF i = id THEN o ELSE m.streams[i]
    BY <2>1
  <2>4. r \in [pc : ReadPC, id : Ids \cup {0}, obj : Obj \cup {NoObj}] /\ r.obj = o
    BY DEF ReadPC
  <2>5. n = [m EXCEPT !.streams = st, !.count = c, !.rl = r]
    BY Zenon
  <2> HIDE DEF r, st, c, n
  <2>6. n \in Session
    BY <2>2, <2>4, <2>5, Zenon DEF Session
  <2>7. /\ n.count = c /\ n.data = m.data /\ n.control = m.control
        /\ n.acceptCh = m.acceptCh /\ n.closing = m.closing /\ n.wl = m.wl /\ n.rl = r
        /\ n.pendingOpen = m.pendingOpen /\ n.streams = st
    BY <2>5, Zenon DEF Session
  <2>8. /\ n \in Session
        /\ n.count = m.count + 1 /\ n.data = m.data /\ n.control = m.control
        /\ n.acceptCh = m.acceptCh /\ n.closing = m.closing /\ n.wl = m.wl /\ n.rl.obj = o
        /\ n.pendingOpen = m.pendingOpen
        /\ \A i \in Ids : n.streams[i] = IF i = id THEN o ELSE m.streams[i]
    BY <2>3, <2>4, <2>6, <2>7 DEF c
  <2> QED BY <2>8, Zenon DEF n, r
\* The step of handleStreamOpen that registers the stream and enqueues the ACK.
<1>RecvOpenStep.
  ASSUME NEW e, RecvOpen(e)
  PROVE  LET f == Head(wire[Peer(e)])
             o == <<e, mux[e].count + 1>>
             n == [mux[e] EXCEPT !.streams[f.id] = o, !.count = @ + 1,
                                 !.rl = [pc |-> "accept", id |-> f.id, obj |-> o]]
         IN  /\ mux[e].count < MaxObj /\ HasFrame(e, "OPEN") /\ ReadFrame(e) /\ up' = up
             /\ mux' = [mux EXCEPT ![e] = EnqueueData(n, NewFrame("ACK", f.id, o, 0))]
             /\ obj' = [obj EXCEPT ![o].id = f.id, ![o].state = "Open", ![o].call = "queued",
                                   ![o].drain = "select", ![o].origin = f.src]
  <2> USE <1>RecvOpenStep
  <2> DEFINE f == Head(wire[Peer(e)])
             o == <<e, mux[e].count + 1>>
             n == [mux[e] EXCEPT !.streams[f.id] = o, !.count = @ + 1,
                                 !.rl = [pc |-> "accept", id |-> f.id, obj |-> o]]
  <2>1. mux[e].count < MaxObj /\ HasFrame(e, "OPEN") /\ ReadFrame(e) /\ up' = up
    BY Zenon DEF RecvOpen
  <2>2. mux' = [mux EXCEPT ![e] = EnqueueData(n, NewFrame("ACK", f.id, o, 0))]
    BY Zenon DEF RecvOpen
  <2>3. obj' = [obj EXCEPT ![o].id = f.id, ![o].state = "Open", ![o].call = "queued",
                           ![o].drain = "select", ![o].origin = f.src]
    BY Zenon DEF RecvOpen
  <2> QED BY <2>1, <2>2, <2>3, Zenon
<1> SUFFICES ASSUME NEW e \in Endpoint, RecvOpen(e)
             PROVE  \E o \in Obj : \E t, n : Creates(o, t, n)
  OBVIOUS
<1> DEFINE m == mux[e]
           f == Head(wire[Peer(e)])
           id == f.id
           q == f.src
           o == <<e, m.count + 1>>
           s == NewStreamSession
           t == [s EXCEPT !.id = id, !.state = "Open", !.call = "queued",
                          !.drain = "select", !.origin = q]
           r == [pc |-> "accept", id |-> id, obj |-> o]
           k == [m EXCEPT !.streams[id] = o, !.count = @ + 1, !.rl = r]
           g == NewFrame("ACK", id, o, 0)
           n == EnqueueData(k, g)
<1>1. m.count < MaxObj /\ HasFrame(e, "OPEN") /\ ReadFrame(e) /\ up' = up
  BY <1>RecvOpenStep, Zenon
<1>2. o \in Obj /\ o[1] = e /\ o[2] = m.count + 1 /\ obj[o] = s
  BY <1>1, NextObj
<1>3. m \in Session /\ obj \in [Obj -> Stream] /\ mux \in [Endpoint -> Session]
  BY DEF IndInv
<1>4. id \in Ids /\ q \in Obj /\ q[1] # e /\ obj[q].id = id
  <2>1. /\ Peer(e) # e /\ f.cmd = "OPEN" /\ SentFrame(f, Peer(e), obj)
        /\ "OPEN" # "GOAWAY" => f.id \in Ids
    BY <1>1, HeadFrame
  <2> HIDE DEF f
  <2> QED BY <2>1, Zenon DEF SentFrame
<1>5. mux' = [mux EXCEPT ![e] = n]
  BY <1>RecvOpenStep, Zenon
<1>6. obj' = [obj EXCEPT ![o].id = id, ![o].state = "Open", ![o].call = "queued",
                         ![o].drain = "select", ![o].origin = q]
  BY <1>RecvOpenStep, Zenon
<1> HIDE DEF q, id
<1>7. g \in Frame
  <2> HIDE DEF o
  <2> QED BY <1>2, <1>4, MuxAssumption DEF NewFrame, Frame, Command
<1>8. /\ k \in Session
      /\ k.count = m.count + 1 /\ k.data = m.data /\ k.control = m.control
      /\ k.acceptCh = m.acceptCh /\ k.closing = m.closing /\ k.wl = m.wl /\ k.rl.obj = o
      /\ k.pendingOpen = m.pendingOpen
      /\ \A i \in Ids : k.streams[i] = IF i = id THEN o ELSE m.streams[i]
  <2> HIDE DEF m, o, s
  <2>1. o \in Obj /\ id \in Ids /\ m \in Session /\ m.count < MaxObj
    BY <1>1, <1>2, <1>3, <1>4
  <2> QED BY <2>1, <1>AcceptFields, Zenon
<1> HIDE DEF k
<1>9. /\ n.count = m.count + 1 /\ n.control = m.control
      /\ n.acceptCh = m.acceptCh /\ n.closing = m.closing /\ n.wl = m.wl /\ n.rl.obj = o
      /\ n.pendingOpen = m.pendingOpen
      /\ \A i \in Ids : n.streams[i] = IF i = id THEN o ELSE m.streams[i]
      /\ n.data = IF m.closing = "no" THEN Append(m.data, g) ELSE m.data
  <2> HIDE DEF m, o, g
  <2>1. /\ n.count = k.count /\ n.acceptCh = k.acceptCh /\ n.closing = k.closing
        /\ n.rl = k.rl /\ n.streams = k.streams /\ n.pendingOpen = k.pendingOpen
        /\ n.wl = k.wl /\ n.control = k.control
        /\ n.data = IF k.closing = "no" THEN Append(k.data, g) ELSE k.data
    BY <1>7, <1>8, EnqueueFields, Zenon
  <2> HIDE DEF n
  <2> QED BY <1>8, <2>1, Zenon
<1> HIDE DEF n
<1>10. /\ t.id = id /\ t.state = "Open" /\ t.wrote = 0 /\ t.sent = 0 /\ t.readBuf = <<>>
       /\ t.closer = "no" /\ t.closedAt = 0 /\ ~t.finCh /\ ~t.ackCh /\ ~t.writing
       /\ t.call = "queued" /\ t.drain = "select" /\ t.origin = q
  BY DEF NewStreamSession
<1>11. obj' = [obj EXCEPT ![o] = t]
  <2> HIDE DEF o, s
  <2> QED BY <1>2, <1>3, <1>6, Zenon
<1> HIDE DEF t, o, s, g
<1>12. \A p \in Obj : obj'[p] = IF p = o THEN t ELSE obj[p]
  BY <1>2, <1>3, <1>11
<1>13. \A d \in Endpoint : mux'[d] = IF d = e THEN n ELSE mux[d]
  BY <1>3, <1>5
<1>14. \A d \in Endpoint : Drops(wire[d], wire'[d])
  BY <1>1, ReadDrops, Zenon
<1>15. o[1] = e /\ o[2] = mux[o[1]].count + 1 /\ mux[o[1]] = m
  BY <1>2
<1>16. t.origin # NoObj /\ g = NewFrame("ACK", t.id, o, 0)
  BY <1>4, <1>10, NoObjFacts DEF g
<1> HIDE DEF m
<1>17. Creates(o, t, n)
  <2>1. /\ o[2] = mux[o[1]].count + 1 /\ n.count = mux[o[1]].count + 1
        /\ n.pendingOpen = mux[o[1]].pendingOpen /\ n.acceptCh = mux[o[1]].acceptCh
        /\ n.control = mux[o[1]].control /\ n.closing = mux[o[1]].closing
        /\ n.wl = mux[o[1]].wl
    BY <1>9, <1>15, Zenon
  <2>2. /\ t.id \in Ids
        /\ t.origin \in Obj /\ t.origin[1] # o[1] /\ obj[t.origin].id = t.id
    BY <1>4, <1>10, <1>15, Zenon
  <2>3. \A i \in Ids : n.streams[i] = IF i = t.id THEN o ELSE mux[o[1]].streams[i]
    BY <1>9, <1>10, <1>15, Zenon
  <2>4. n.data = IF mux[o[1]].closing = "no"
                 THEN Append(mux[o[1]].data, NewFrame("ACK", t.id, o, 0)) ELSE mux[o[1]].data
    BY <1>9, <1>15, <1>16, Zenon
  <2>5. \A d \in Endpoint : mux'[d] = IF d = o[1] THEN n ELSE mux[d]
    BY <1>13, <1>15, Zenon
  <2> QED BY <1>1, <1>9, <1>10, <1>12, <1>14, <1>16, <2>1, <2>2, <2>3, <2>4, <2>5, Zenon
      DEF Creates
<1> QED BY <1>2, <1>17

\* The steps that create a stream keep what the pipe rests on.
LEMMA CreatorsPipe ==
  ASSUME IndInv, LinkInv, FinInv, FlowInv, IndInv'
  PROVE  \A e \in Endpoint :
           OpenAlloc(e) \/ RecvOpen(e)
             => LinkInv' /\ FinInv' /\ FlowInv'
\* The frame that acknowledges stream o.
<1>AckFrame.
  ASSUME NEW o \in Obj, NEW i \in Ids
  PROVE  LET f == NewFrame("ACK", i, o, 0) IN
         f \in Frame /\ f.cmd = "ACK" /\ f.id = i /\ f.src = o
    BY MuxAssumption DEF NewFrame, Frame, Command
\* A session with a new stream refers to streams of its own.
<1>CreateNamed.
  ASSUME NEW o \in Obj, NEW t, NEW n, Creates(o, t, n), NEW d \in Endpoint
  PROVE  NamedSession(mux'[d], d, obj')
  <2> USE <1>CreateNamed
  <2> DEFINE m == mux[d]
  <2>1. /\ NamedSession(m, d, obj) /\ GoodSession(m, d, Used) /\ NoObj \notin Obj
    BY PipeFacts, NoObjFacts, Zenon
  <2>2. /\ \A p \in Used : p \in Obj /\ obj'[p] = obj[p] /\ p # o
        /\ obj'[o] = t
    BY CreateFacts, PipeFacts, Zenon
  <2>3. /\ \A i \in Ids : m.streams[i] \in Used \cup {NoObj}
        /\ \A i \in Ids : m.pendingOpen[i] \in Used \cup {NoObj}
        /\ \A i \in DOMAIN m.acceptCh : m.acceptCh[i] \in Used
        /\ m.rl.pc = "accept" => m.rl.obj \in Used
    BY <2>1, Zenon DEF GoodSession, GoodReader
  <2>4. NamedSession(m, d, obj')
    <3>1. \A i \in Ids : /\ OwnEntry(m.streams[i], d, i, obj')
                         /\ OwnEntry(m.pendingOpen[i], d, i, obj')
      BY <2>1, <2>2, <2>3, Zenon DEF NamedSession, OwnEntry
    <3>2. \A i \in DOMAIN m.acceptCh : obj'[m.acceptCh[i]].origin # NoObj
      BY <2>1, <2>2, <2>3, Zenon DEF NamedSession
    <3>3. m.rl.pc = "accept" => obj'[m.rl.obj].origin # NoObj
      BY <2>1, <2>2, <2>3, Zenon DEF NamedSession
    <3> QED BY <2>1, <3>1, <3>2, <3>3, Zenon DEF NamedSession
  <2>5. CASE d # o[1]
    <3>1. mux'[d] = m
      BY <2>5, Zenon DEF Creates
    <3> QED BY <2>4, <3>1
  <2>6. CASE d = o[1]
    <3>1. mux'[d] = n
      BY <2>6, Zenon DEF Creates
    <3>2. /\ \A i \in Ids : n.streams[i] = IF i = t.id THEN o ELSE m.streams[i]
          /\ n.pendingOpen = m.pendingOpen /\ n.acceptCh = m.acceptCh /\ n.control = m.control
          /\ n.rl = m.rl \/ (n.rl.obj = o /\ t.origin # NoObj)
      BY <2>6, Zenon DEF Creates
    <3> HIDE DEF m
    <3>3. \A i \in Ids : OwnEntry(n.streams[i], d, i, obj')
      BY <2>2, <2>4, <2>6, <3>2, Zenon DEF NamedSession, OwnEntry
    <3>4. n.rl.pc = "accept" => obj'[n.rl.obj].origin # NoObj
      BY <2>2, <2>4, <3>2, Zenon DEF NamedSession
    <3> QED BY <2>4, <3>1, <3>2, <3>3, <3>4, Zenon DEF NamedSession
  <2> QED BY <2>5, <2>6
\* Links when a stream is created.
<1>CreateLink.
  ASSUME NEW o \in Obj, NEW t, NEW n, Creates(o, t, n)
  PROVE  LinkInv'
  <2> USE <1>CreateLink
  <2> DEFINE e == o[1]
  <2>1. /\ \A p \in Obj : Kept(obj[p], obj'[p])
        /\ e \in Endpoint /\ t.id # 0 /\ obj[o].id = 0 /\ obj'[o] = t
    BY CreateFacts, Zenon
  <2>2. \A p \in Obj : obj'[p] = IF p = o THEN t ELSE obj[p]
    BY DEF Creates
  <2>3. Fresh'
    <3> SUFFICES ASSUME NEW p \in Obj, p[2] > mux'[p[1]].count PROVE obj'[p] = NewStreamSession
      BY DEF Fresh
    <3>1. p[1] \in Endpoint /\ p[2] \in Nat /\ mux[p[1]].count \in Nat
      <4>1. p[1] \in Endpoint /\ p[2] \in 1 .. MaxObj
        BY NoObjFacts
      <4>2. mux[p[1]].count \in 0 .. MaxObj
        BY <4>1, Zenon DEF IndInv, Session
      <4> QED BY <4>1, <4>2, MuxAssumption
    <3>2. CASE p[1] # e
      <4>1. mux'[p[1]] = mux[p[1]] /\ p # o
        BY <3>1, <3>2, Zenon DEF Creates
      <4> QED BY <2>2, <4>1, Zenon DEF LinkInv, Fresh
    <3>3. CASE p[1] = e
      <4>1. mux'[p[1]].count = mux[p[1]].count + 1 /\ o[2] = mux[p[1]].count + 1
        BY <3>1, <3>3, Zenon DEF Creates
      <4>2. p[2] > mux[p[1]].count + 1
        BY <4>1, Zenon
      <4>3. p[2] > mux[p[1]].count /\ p[2] # mux[p[1]].count + 1
        BY <3>1, <4>2, BeyondNext, Zenon
      <4>4. p # o
        BY <4>1, <4>3, Zenon
      <4> QED BY <2>2, <4>3, <4>4, Zenon DEF LinkInv, Fresh
    <3> QED BY <3>2, <3>3
  <2>4. \A d \in Endpoint : NamedSession(mux'[d], d, obj')
    BY <1>CreateNamed
  <2>5. \A d \in Endpoint : SentFrames(mux[d].data, d, obj') /\ SentFrames(wire[d], d, obj')
    BY <2>1, KeptFrames, Zenon
  <2>6. ASSUME NEW d \in Endpoint PROVE SentFrames(wire'[d], d, obj')
    <3>1. Drops(wire[d], wire'[d]) /\ wire[d] \in Seq(Frame)
      BY PipeFacts, Zenon DEF Creates
    <3> QED BY <2>5, <3>1, FramesTail, Zenon DEF Drops
  <2>7. ASSUME NEW d \in Endpoint PROVE SentFrames(mux'[d].data, d, obj')
    <3>1. CASE d # e
      <4>1. mux'[d] = mux[d]
        BY <3>1, Zenon DEF Creates
      <4> QED BY <2>5, <4>1
    <3>2. CASE d = e
      <4> DEFINE f == NewFrame("ACK", t.id, o, 0)
                 q == mux[e].data
      <4>1. f \in Frame /\ f.cmd = "ACK" /\ f.id = t.id /\ f.src = o
        BY <1>AckFrame, Zenon DEF Creates
      <4>2. n.data = q \/ (t.origin # NoObj /\ n.data = Append(q, f))
        <5>1. \/ n.data = q
              \/ t.origin # NoObj /\ n.data = (IF mux[e].closing = "no" THEN Append(q, f) ELSE q)
          BY Zenon DEF Creates
        <5> QED BY <5>1, Zenon
      <4>3. SentFrames(q, e, obj') /\ q \in Seq(Frame) /\ mux'[d] = n
        BY <2>1, <2>5, <3>2, PipeFacts, Zenon DEF Creates
      <4> HIDE DEF f, q
      <4>4. t.origin # NoObj => SentFrame(f, e, obj')
        BY <2>1, <4>1, Zenon DEF SentFrame
      <4>5. t.origin # NoObj => SentFrames(Append(q, f), e, obj')
        BY <4>1, <4>3, <4>4, FramesAppend, Zenon
      <4>6. SentFrames(n.data, e, obj')
        BY <4>2, <4>3, <4>5, Zenon
      <4> QED BY <3>2, <4>3, <4>6, Zenon
    <3> QED BY <3>1, <3>2, Zenon
  <2>8. ASSUME NEW p \in Obj PROVE Settled(p, obj')
    <3>1. CASE p # o
      <4>1. Settled(p, obj) /\ obj'[p] = obj[p] /\ obj[p].origin \in Obj \cup {NoObj}
        BY <2>2, <3>1, PipeFacts, Zenon DEF Stream
      <4>2. /\ \A x \in Obj : Linked(p, x, obj) => Linked(p, x, obj')
            /\ Known(p, obj) => Known(p, obj')
        BY <2>1, LinkedKept, Zenon
      <4> QED BY <4>1, <4>2, Zenon DEF Settled
    <3>2. CASE p = o
      <4>1. LifeCycle(t) /\ t.readBuf = <<>> /\ ~t.ackCh /\ t.state = "Open"
        <5>1. /\ t.wrote = 0 /\ t.closedAt = 0 /\ t.closer = "no" /\ ~t.finCh /\ ~t.writing
              /\ t.readBuf = <<>> /\ ~t.ackCh /\ t.state = "Open"
              /\ \/ t.call = "alloc" /\ t.drain = "none"
                 \/ t.call = "queued" /\ t.drain = "select"
          BY Zenon DEF Creates
        <5>2. t.drain # "flush" /\ (t.call = "alloc" => t.drain = "none")
          BY <5>1, Zenon
        <5> QED BY <5>1, <5>2, NewLife, Zenon
      <4>2. ASSUME t.call = "queued" \/ t.origin # NoObj
            PROVE  t.origin \in Obj /\ Linked(o, t.origin, obj')
        <5>1. t.origin \in Obj /\ t.origin[1] # e /\ obj[t.origin].id = t.id
          BY <4>2, Zenon DEF Creates
        <5>2. obj'[t.origin].id = t.id
          BY <2>2, <5>1, Zenon
        <5> QED BY <2>1, <5>1, <5>2, Zenon DEF Linked
      <4>3. t.call \in {"queued", "ok"} => t.call = "queued"
        BY Zenon DEF Creates
      <4>4. t.call \in {"queued", "ok"} => Known(o, obj')
        BY <4>2, <4>3, Zenon DEF Known
      <4>5. obj'[o] = t /\ t.state \notin Eof /\ DOMAIN t.readBuf = {}
        BY <2>1, <4>1 DEF Eof
      <4> QED BY <3>2, <4>1, <4>2, <4>4, <4>5, Zenon DEF Settled
    <3> QED BY <3>1, <3>2
  <2> QED BY <2>3, <2>4, <2>6, <2>7, <2>8, Zenon DEF LinkInv
\* The order of data and FIN when a stream is created.
<1>CreateFin.
  ASSUME NEW o \in Obj, NEW t, NEW n, Creates(o, t, n)
  PROVE  FinInv'
  <2> USE <1>CreateFin
  <2> SUFFICES ASSUME NEW d \in Endpoint
               PROVE  /\ FinOrder(wire'[d]) /\ FinOrder(mux'[d].data)
                      /\ \A i \in DOMAIN mux'[d].data :
                           mux'[d].data[i].cmd = "DATA" => ~HasFin(wire'[d], mux'[d].data[i].src)
    BY Zenon DEF FinInv
  <2> DEFINE q == mux[d].data
             w == wire[d]
             v == wire'[d]
             f == NewFrame("ACK", t.id, o, 0)
  <2>1. /\ FinOrder(w) /\ FinOrder(q) /\ q \in Seq(Frame) /\ w \in Seq(Frame)
        /\ \A i \in DOMAIN q : q[i].cmd = "DATA" => ~HasFin(w, q[i].src)
    BY PipeFacts, Zenon DEF FinInv
  <2>2. f \in Frame /\ f.cmd = "ACK"
    BY <1>AckFrame, Zenon DEF Creates
  <2>3. mux'[d].data = q \/ mux'[d].data = Append(q, f)
    <3>1. CASE d # o[1] BY <3>1, Zenon DEF Creates
    <3>2. CASE d = o[1]
      <4>1. mux'[d] = n
        BY <3>2, Zenon DEF Creates
      <4>2. n.data = q \/ n.data = (IF mux[d].closing = "no" THEN Append(q, f) ELSE q)
        BY <3>2, Zenon DEF Creates
      <4> QED BY <4>1, <4>2, Zenon
    <3> QED BY <3>1, <3>2, Zenon
  <2>4. Drops(w, v)
    BY Zenon DEF Creates
  <2> HIDE DEF q, w, v, f
  <2>5. FinOrder(v) /\ \A p : HasFin(v, p) => HasFin(w, p)
    <3>1. CASE v = w BY <2>1, <3>1, Zenon
    <3>2. CASE w # <<>> /\ v = Tail(w)
      <4>1. FinOrder(Tail(w)) /\ \A p : HasFin(Tail(w), p) => HasFin(w, p)
        BY <2>1, <3>2, FinTail, Zenon
      <4> QED BY <3>2, <4>1
    <3> QED BY <2>4, <3>1, <3>2, Zenon DEF Drops
  <2>6. FinOrder(Append(q, f))
    BY <2>1, <2>2, FinAppend, Zenon
  <2>7. \A i \in DOMAIN Append(q, f) : Append(q, f)[i].cmd = "DATA" =>
           i \in DOMAIN q /\ Append(q, f)[i] = q[i]
    <3>1. f.cmd # "DATA"
      BY <2>2, Zenon
    <3> QED BY <2>1, <2>2, <3>1, AppendOther, Zenon
  <2>8. \A i \in DOMAIN Append(q, f) : Append(q, f)[i].cmd = "DATA"
           => ~HasFin(v, Append(q, f)[i].src)
    BY <2>1, <2>5, <2>7, Zenon
  <2>9. \A i \in DOMAIN q : q[i].cmd = "DATA" => ~HasFin(v, q[i].src)
    BY <2>1, <2>5
  <2>10. CASE mux'[d].data = q BY <2>1, <2>5, <2>9, <2>10, Zenon DEF v
  <2>11. CASE mux'[d].data = Append(q, f) BY <2>5, <2>6, <2>8, <2>11, Zenon DEF v
  <2> QED BY <2>3, <2>10, <2>11, Zenon
\* The chunks of p in flight are the same when a stream is created.
<1>CreateFlight.
  ASSUME NEW o \in Obj, NEW t, NEW n, Creates(o, t, n),
         NEW p \in Obj, NEW l \in Nat, NEW k \in Nat,
         InFlight(p, l, k, wire[p[1]], mux[p[1]], up)
  PROVE  InFlight(p, l, k, wire'[p[1]], mux'[p[1]], up')
  <2> USE <1>CreateFlight
  <2> DEFINE d == p[1]
             m == mux[d]
             w == wire[d]
             v == wire'[d]
             f == NewFrame("ACK", t.id, o, 0)
  <2>1. d \in Endpoint /\ m.data \in Seq(Frame) /\ w \in Seq(Frame)
    BY PipeFacts, Zenon
  <2>2. Drops(w, v) /\ up' = up
    BY <2>1, Zenon DEF Creates
  <2>3. f \in Frame /\ f.cmd = "ACK"
    BY <1>AckFrame, Zenon DEF Creates
  <2>4. InFlight(p, l, k, w, m, up)
    BY Zenon
  <2>5. /\ mux'[d].closing = m.closing /\ mux'[d].wl = m.wl
        /\ \/ mux'[d].data = m.data
           \/ mux'[d].data = IF m.closing = "no" THEN Append(m.data, f) ELSE m.data
    <3>1. CASE d # o[1] BY <2>1, <3>1, Zenon DEF Creates
    <3>2. CASE d = o[1]
      <4>1. mux'[d] = n
        BY <2>1, <3>2, Zenon DEF Creates
      <4>2. n.closing = m.closing /\ n.wl = m.wl
        BY <3>2, Zenon DEF Creates
      <4>3. n.data = m.data \/ n.data = (IF m.closing = "no" THEN Append(m.data, f) ELSE m.data)
        BY <3>2, Zenon DEF Creates
      <4> QED BY <4>1, <4>2, <4>3, Zenon
    <3> QED BY <3>1, <3>2, Zenon
  <2>6. ~DataOf(f, p)
    BY <2>3, Zenon DEF DataOf
  <2> DEFINE m2 == mux'[d]
  <2> HIDE DEF m, w, v, f, m2
  <2>7. InFlight(p, l, k, v, m, up)
    <3>1. CASE v = w BY <2>4, <3>1, Zenon
    <3>2. CASE w # <<>> /\ v = Tail(w) /\ Head(w).cmd \notin {"DATA", "CLOSE"}
      <4>1. ~DataOf(Head(w), p)
        BY <3>2, Zenon DEF DataOf
      <4> QED BY <2>1, <2>4, <3>2, <4>1, FlightPass, Zenon
    <3> QED BY <2>2, <3>1, <3>2, Zenon DEF Drops
  <2>8. v \in Seq(Frame)
    <3>1. w # <<>> => Tail(w) \in Seq(Frame)
      BY <2>1, TailShift, Zenon
    <3>2. v = w \/ (w # <<>> /\ v = Tail(w))
      BY <2>2, Zenon DEF Drops
    <3> QED BY <2>1, <3>1, <3>2, Zenon
  <2>9. InFlight(p, l, k, v, m2, up)
    <3>1. CASE m2.data = m.data
      <4>1. m2.closing = m.closing /\ m2.wl = m.wl
        BY <2>5, Zenon DEF m2
      <4> QED BY <2>7, <3>1, <4>1, FlightStop, Zenon
    <3>2. CASE m2.data = IF m.closing = "no" THEN Append(m.data, f) ELSE m.data
      <4>1. m2.closing = m.closing /\ m2.wl = m.wl
        BY <2>5, Zenon DEF m2
      <4> QED BY <2>1, <2>3, <2>6, <2>7, <2>8, <3>2, <4>1, FlightEnqueue, Zenon
    <3> QED BY <2>5, <3>1, <3>2, Zenon DEF m2
  <2> QED BY <2>2, <2>9, Zenon DEF v, m2
\* A stream that nothing was ever received for has sent nothing either.
<1>UnknownIdle.
  ASSUME NEW p \in Obj, ~Known(p, obj)
  PROVE  /\ obj[p].sent = 0 /\ obj[p].readBuf = <<>> /\ obj[p].state \notin Eof
         /\ \A i \in DOMAIN wire[p[1]] : ~DataOf(wire[p[1]][i], p)
         /\ \A i \in DOMAIN mux[p[1]].data : ~DataOf(mux[p[1]].data[i], p)
  <2> USE <1>UnknownIdle
  <2>1. /\ Settled(p, obj) /\ obj[p] \in Stream /\ obj[p].sent \in Nat /\ obj[p].wrote \in Nat
        /\ obj[p].sent <= obj[p].wrote /\ p[1] \in Endpoint
    BY PipeFacts, Zenon DEF GoodStream
  <2>2. obj[p].call \notin {"queued", "ok"} /\ obj[p].state \notin Eof
    BY <2>1, Zenon DEF Settled
  <2>3. obj[p].sent = 0
    <3>1. LifeCycle(obj[p])
      BY <2>1, Zenon DEF Settled
    <3>2. ~(obj[p].wrote > 0)
      BY <2>2, <3>1, Zenon DEF LifeCycle
    <3> QED BY <2>1, <3>2
  <2>4. obj[p].readBuf = <<>>
    <3>1. 1 \notin DOMAIN obj[p].readBuf
      BY <2>1, Zenon DEF Settled, Known
    <3>2. obj[p].readBuf \in Seq([src : Obj \cup {NoObj}, seq : 0 .. MaxWrites])
      BY <2>1, Zenon DEF Stream
    <3>3. Len(obj[p].readBuf) \in Nat /\ DOMAIN obj[p].readBuf = 1 .. Len(obj[p].readBuf)
      BY <3>2
    <3>4. Len(obj[p].readBuf) = 0
      BY <3>1, <3>3
    <3> QED BY <3>2, <3>4
  <2>5. ASSUME NEW q \in Seq(Frame), SentFrames(q, p[1], obj), NEW i \in DOMAIN q
        PROVE  ~DataOf(q[i], p)
    <3>1. SentFrame(q[i], p[1], obj) /\ q[i].seq \in Nat
      BY <2>5, FrameSeq DEF SentFrames
    <3> QED BY <2>3, <3>1 DEF SentFrame, DataOf
  <2>6. /\ SentFrames(wire[p[1]], p[1], obj) /\ wire[p[1]] \in Seq(Frame)
        /\ SentFrames(mux[p[1]].data, p[1], obj) /\ mux[p[1]].data \in Seq(Frame)
    BY <2>1, PipeFacts, Zenon
  <2> QED BY <2>2, <2>3, <2>4, <2>5, <2>6, Zenon
\* Of such a stream nothing is in flight.
<1>IdleFlight.
  ASSUME NEW p, NEW w, NEW m, NEW u, \A i \in DOMAIN w : ~DataOf(w[i], p),
         \A i \in DOMAIN m.data : ~DataOf(m.data[i], p)
  PROVE  InFlight(p, 0, 0, w, m, u)
  <2> USE <1>IdleFlight
  <2>1. Carries(w, p, 0, 0) /\ Carries(m.data, p, 0, 0)
    BY CarriesNothing
  <2>2. Reaches(w, p, 0, 0, 0, "optional") /\ Reaches(m.data, p, 0, 0, 0, m.closing)
    BY <2>1 DEF Reaches
  <2> QED BY <2>2 DEF InFlight
\* Chunks in flight when a stream is created.
<1>CreateFlow.
  ASSUME NEW o \in Obj, NEW t, NEW n, Creates(o, t, n)
  PROVE  FlowInv'
  <2> USE <1>CreateFlow
  <2>1. /\ obj[o].id = 0 /\ obj[o].sent = 0 /\ t.id # 0 /\ obj'[o] = t /\ t.id \in Ids
        /\ t.readBuf = <<>> /\ t.state = "Open" /\ t.sent = 0
    <3>1. obj[o].id = 0 /\ obj[o].sent = 0 /\ t.id # 0 /\ obj'[o] = t
      BY CreateFacts, Zenon
    <3>2. t.id \in Ids /\ t.readBuf = <<>> /\ t.state = "Open" /\ t.sent = 0
      BY Zenon DEF Creates
    <3> QED BY <3>1, <3>2, Zenon
  <2>2. \A p \in Obj : obj'[p] = IF p = o THEN t ELSE obj[p]
    BY DEF Creates
  <2>3. IDsUsedOnce' => IDsUsedOnce
    BY <2>1, <2>2 DEF IDsUsedOnce
  <2> SUFFICES ASSUME IDsUsedOnce', NEW x \in Obj, NEW p \in Obj,
                      Linked(x, p, obj'), obj'[x].state # "Reset"
               PROVE  Flow(x, p)'
    BY Zenon DEF FlowInv
  <2>4. \A y \in Obj : Linked(y, o, obj') \/ Linked(o, y, obj') => y # o /\ ~Known(y, obj)
    <3> SUFFICES ASSUME NEW y \in Obj, Linked(y, o, obj') \/ Linked(o, y, obj'),
                        NEW z \in Obj, Linked(y, z, obj)
                 PROVE  FALSE
      BY Zenon DEF Known, Linked
    <3>1. y[1] # o[1] /\ obj'[y].id = t.id /\ y # o
      BY <2>1, Zenon DEF Linked
    <3>2. obj[y].id = t.id
      BY <2>2, <3>1, Zenon
    <3>3. z[1] # y[1] /\ obj[z].id = t.id
      BY <3>2 DEF Linked
    <3>4. z # o /\ obj'[z].id = t.id
      BY <2>1, <2>2, <3>3, Zenon
    <3>5. z[1] = o[1]
      BY <3>1, <3>3, NoObjFacts DEF Endpoint
    <3> QED BY <2>1, <3>4, <3>5, Zenon DEF IDsUsedOnce
  <2>5. \A y \in Obj : ~Known(y, obj) =>
          InFlight(y, 0, 0, wire'[y[1]], mux'[y[1]], up')
    <3> SUFFICES ASSUME NEW y \in Obj, ~Known(y, obj)
                 PROVE  InFlight(y, 0, 0, wire'[y[1]], mux'[y[1]], up')
      OBVIOUS
    <3>1. InFlight(y, 0, 0, wire[y[1]], mux[y[1]], up)
      <4>1. /\ \A i \in DOMAIN wire[y[1]] : ~DataOf(wire[y[1]][i], y)
            /\ \A i \in DOMAIN mux[y[1]].data : ~DataOf(mux[y[1]].data[i], y)
        BY <1>UnknownIdle, Zenon
      <4> QED BY <4>1, <1>IdleFlight, Zenon
    <3> QED BY <3>1, <1>CreateFlight, Zenon
  <2>6. CASE x = o
    <3>1. p # o /\ ~Known(p, obj)
      BY <2>4, <2>6, Zenon
    <3>2. obj'[p].sent = 0
      BY <2>2, <3>1, <1>UnknownIdle
    <3>3. obj'[x] = t /\ Len(<<>>) = 0 /\ DOMAIN <<>> = {}
      BY <2>1, <2>6
    <3>4. InFlight(p, 0, 0, wire'[p[1]], mux'[p[1]], up')
      BY <2>5, <3>1
    <3> QED BY <2>1, <3>2, <3>3, <3>4, Zenon DEF Flow, Eof
  <2>7. CASE p = o
    <3>1. x # o /\ ~Known(x, obj)
      BY <2>4, <2>7, Zenon
    <3>2. obj'[x].readBuf = <<>> /\ obj'[x].state \notin Eof
      BY <2>2, <3>1, <1>UnknownIdle, Zenon
    <3>3. obj'[p].sent = 0 /\ Len(<<>>) = 0 /\ DOMAIN <<>> = {}
      BY <2>1, <2>7
    <3>4. ~Known(o, obj)
      BY <2>1, Zenon DEF Known, Linked
    <3>5. InFlight(p, 0, 0, wire'[p[1]], mux'[p[1]], up')
      BY <2>5, <2>7, <3>4
    <3> QED BY <3>2, <3>3, <3>5, Zenon DEF Flow
  <2>8. CASE x # o /\ p # o
    <3>1. obj'[x] = obj[x] /\ obj'[p] = obj[p]
      BY <2>2, <2>8
    <3>2. Linked(x, p, obj) /\ obj[x].state # "Reset"
      BY <3>1 DEF Linked
    <3>3. Flow(x, p)
      BY <2>3, <3>2 DEF FlowInv
    <3>4. ASSUME mux'[x[1]].streams[obj[x].id] = x
          PROVE  InFlight(p, Len(obj[x].readBuf), obj[p].sent, wire'[p[1]], mux'[p[1]], up')
      <4>1. obj[x] \in Stream /\ x[1] \in Endpoint /\ obj[p].sent \in Nat
        BY PipeFacts, Zenon
      <4>2. obj[x].id \in Ids /\ Len(obj[x].readBuf) \in Nat
        <5>1. obj[x].id # 0
          BY <3>2, Zenon DEF Linked
        <5> QED BY <4>1, <5>1, StreamShape, Zenon
      <4>3. mux[x[1]].streams[obj[x].id] = x
        <5>1. CASE x[1] # o[1]
          <6>1. mux'[x[1]] = mux[x[1]]
            BY <4>1, <5>1, Zenon DEF Creates
          <6> QED BY <3>4, <6>1
        <5>2. CASE x[1] = o[1]
          <6>1. /\ mux'[x[1]] = n
                /\ \A i \in Ids : n.streams[i] = IF i = t.id THEN o ELSE mux[x[1]].streams[i]
            BY <4>1, <5>2, Zenon DEF Creates
          <6> QED BY <2>8, <3>4, <4>2, <6>1, Zenon
        <5> QED BY <5>1, <5>2, Zenon
      <4>4. InFlight(p, Len(obj[x].readBuf), obj[p].sent, wire[p[1]], mux[p[1]], up)
        BY <3>3, <4>3, Zenon DEF Flow
      <4> QED BY <4>1, <4>2, <4>4, <1>CreateFlight, Zenon
    <3> QED BY <3>1, <3>3, <3>4, Zenon DEF Flow
  <2> QED BY <2>6, <2>7, <2>8
<1> SUFFICES ASSUME NEW e \in Endpoint, OpenAlloc(e) \/ RecvOpen(e)
             PROVE  LinkInv' /\ FinInv' /\ FlowInv'
  OBVIOUS
<1>1. \E o \in Obj : \E t, n : Creates(o, t, n)
  BY AllocCreates, AcceptCreates
<1>2. PICK o \in Obj : \E t, n : Creates(o, t, n)
  BY <1>1
<1>3. PICK t, n : Creates(o, t, n)
  BY <1>2
<1> QED BY <1>3, <1>CreateLink, <1>CreateFin, <1>CreateFlow
=============================================================================
