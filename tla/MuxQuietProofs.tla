--------------------------- MODULE MuxQuietProofs ---------------------------
(***************************************************************************)
(* The steps of MuxSession that move no data between a queue and a stream, *)
(* for every value of the constants: what the three parts of PipeInv need  *)
(* of queues of frames; that most actions are Passive, and that Passive    *)
(* steps keep the three parts; and that the write loop and the loss of the *)
(* connection keep them.                                                   *)
(***************************************************************************)
EXTENDS MuxInvariants, TLAPS

\* Queues of frames

\* The write loop or the reader takes the head of a queue.
LEMMA TailShift ==
  ASSUME NEW q \in Seq(Frame), q # <<>>
  PROVE  /\ Tail(q) \in Seq(Frame) /\ Len(Tail(q)) = Len(q) - 1 /\ Len(q) \in Nat \ {0}
         /\ DOMAIN q = 1 .. Len(q) /\ DOMAIN Tail(q) = 1 .. Len(q) - 1
         /\ \A i \in DOMAIN Tail(q) : Tail(q)[i] = q[i + 1] /\ i + 1 \in DOMAIN q
         /\ Head(q) = q[1] /\ q[1] \in Frame
  OBVIOUS

\* A frame is appended to a queue.
LEMMA AppendShift ==
  ASSUME NEW q \in Seq(Frame), NEW f \in Frame
  PROVE  /\ Append(q, f) \in Seq(Frame) /\ Len(q) \in Nat
         /\ DOMAIN q = 1 .. Len(q) /\ DOMAIN Append(q, f) = 1 .. Len(q) + 1
         /\ \A i \in DOMAIN q : Append(q, f)[i] = q[i]
         /\ Append(q, f)[Len(q) + 1] = f
  OBVIOUS

\* A stream is put in the accept channel.
LEMMA AppendAccept ==
  ASSUME NEW q \in Seq(Obj), NEW o
  PROVE  \A i \in DOMAIN Append(q, o) :
           Append(q, o)[i] = o \/ \E j \in DOMAIN q : Append(q, o)[i] = q[j]
  OBVIOUS

\* The chunk numbers that frames carry.
LEMMA FrameSeq ==
  ASSUME NEW q \in Seq(Frame), NEW i \in DOMAIN q
  PROVE  q[i] \in Frame /\ q[i].seq \in 0 .. MaxWrites /\ q[i].seq \in Nat
<1>1. q[i] \in Frame OBVIOUS
<1>2. q[i].seq \in 0 .. MaxWrites BY <1>1 DEF Frame
<1> QED BY <1>1, <1>2

\* A queue that loses its head carries one chunk less of the stream that the
\* head's data came from, and the same of every other stream.
LEMMA CarriesTail ==
  ASSUME NEW q \in Seq(Frame), q # <<>>, NEW p, NEW a \in Nat, NEW b \in Nat,
         Carries(q, p, a, b)
  PROVE  /\ ~DataOf(Head(q), p) => Carries(Tail(q), p, a, b)
         /\ DataOf(Head(q), p) => /\ Head(q).seq = a + 1 /\ a + 1 <= b
                                  /\ Carries(Tail(q), p, a + 1, b)
<1> DEFINE r == Tail(q)
<1>1. /\ Len(q) \in Nat \ {0} /\ DOMAIN q = 1 .. Len(q) /\ DOMAIN r = 1 .. Len(q) - 1
      /\ \A i \in DOMAIN r : r[i] = q[i + 1] /\ i + 1 \in DOMAIN q
      /\ Head(q) = q[1]
  BY TailShift
<1>2. \A i \in DOMAIN q : i # 1 => i - 1 \in DOMAIN r /\ r[i - 1] = q[i]
  BY <1>1
<1>3. \A i \in DOMAIN q : q[i].seq \in Nat
  BY FrameSeq
<1> HIDE DEF r
<1>4. ASSUME ~DataOf(Head(q), p) PROVE Carries(r, p, a, b)
  <2>1. \A i \in DOMAIN r : DataOf(r[i], p) => a < r[i].seq /\ r[i].seq <= b
    BY <1>1 DEF Carries
  <2>2. ASSUME NEW k \in a + 1 .. b
        PROVE  \E i \in DOMAIN r : DataOf(r[i], p) /\ r[i].seq = k
    <3>1. PICK i \in DOMAIN q : DataOf(q[i], p) /\ q[i].seq = k
      BY DEF Carries
    <3> QED BY <3>1, <1>1, <1>2, <1>4
  <2>3. \A i, j \in DOMAIN r :
          i < j /\ DataOf(r[i], p) /\ DataOf(r[j], p) => r[i].seq < r[j].seq
    BY <1>1 DEF Carries
  <2> QED BY <2>1, <2>2, <2>3 DEF Carries
<1>5. ASSUME DataOf(Head(q), p)
      PROVE  Head(q).seq = a + 1 /\ a + 1 <= b /\ Carries(r, p, a + 1, b)
  <2>0. 1 \in DOMAIN q /\ DataOf(q[1], p)
    BY <1>1, <1>5
  <2>1. a < q[1].seq /\ q[1].seq <= b
    BY <2>0 DEF Carries
  <2>2. PICK k \in DOMAIN q : DataOf(q[k], p) /\ q[k].seq = a + 1
    BY <2>1, <1>3, <2>0 DEF Carries
  <2>3. \A i \in DOMAIN q : i # 1 /\ DataOf(q[i], p) => q[1].seq < q[i].seq
    BY <2>0, <1>1 DEF Carries
  <2>4. q[1].seq = a + 1
    BY <2>0, <2>1, <2>2, <2>3, <1>3
  <2>5. \A i \in DOMAIN r : DataOf(r[i], p) => a + 1 < r[i].seq /\ r[i].seq <= b
    BY <1>1, <1>3, <2>3, <2>4 DEF Carries
  <2>6. ASSUME NEW n \in a + 2 .. b
        PROVE  \E i \in DOMAIN r : DataOf(r[i], p) /\ r[i].seq = n
    <3>1. PICK i \in DOMAIN q : DataOf(q[i], p) /\ q[i].seq = n
      BY DEF Carries
    <3> QED BY <3>1, <1>1, <1>2, <2>4
  <2>7. \A i, j \in DOMAIN r :
          i < j /\ DataOf(r[i], p) /\ DataOf(r[j], p) => r[i].seq < r[j].seq
    BY <1>1 DEF Carries
  <2>8. Carries(r, p, a + 1, b)
    BY <2>5, <2>6, <2>7 DEF Carries
  <2> QED BY <1>1, <2>1, <2>4, <2>8
<1> QED BY <1>4, <1>5 DEF r

\* A queue that gains the next data frame of a stream carries one chunk more.
LEMMA CarriesAppend ==
  ASSUME NEW q \in Seq(Frame), NEW f \in Frame, NEW p, NEW a \in Nat, NEW b \in Nat,
         a <= b, Carries(q, p, a, b)
  PROVE  /\ ~DataOf(f, p) => Carries(Append(q, f), p, a, b)
         /\ DataOf(f, p) /\ f.seq = b + 1 => Carries(Append(q, f), p, a, b + 1)
<1> DEFINE r == Append(q, f)
           n == Len(q) + 1
<1>1. /\ n \in Nat /\ DOMAIN q = 1 .. n - 1 /\ DOMAIN r = 1 .. n
      /\ \A i \in DOMAIN q : r[i] = q[i] /\ i \in DOMAIN r
      /\ r[n] = f /\ n \in DOMAIN r
  BY AppendShift
<1>3. \A i \in DOMAIN q : q[i].seq \in Nat
  BY FrameSeq
<1> HIDE DEF r, n
<1>4. ASSUME ~DataOf(f, p) PROVE Carries(r, p, a, b)
  <2>1. \A i \in DOMAIN r : DataOf(r[i], p) => i \in DOMAIN q
    BY <1>1, <1>4
  <2> QED BY <1>1, <2>1 DEF Carries
<1>5. ASSUME DataOf(f, p), f.seq = b + 1 PROVE Carries(r, p, a, b + 1)
  <2>1. \A i \in DOMAIN r : DataOf(r[i], p) => a < r[i].seq /\ r[i].seq <= b + 1
    BY <1>1, <1>3, <1>5 DEF Carries
  <2>2. ASSUME NEW k \in a + 1 .. b + 1
        PROVE  \E i \in DOMAIN r : DataOf(r[i], p) /\ r[i].seq = k
    <3>1. CASE k = b + 1 BY <3>1, <1>1, <1>5
    <3>2. CASE k # b + 1
      <4>1. k \in a + 1 .. b BY <3>2
      <4>2. PICK i \in DOMAIN q : DataOf(q[i], p) /\ q[i].seq = k
        BY <4>1 DEF Carries
      <4> QED BY <4>2, <1>1
    <3> QED BY <3>1, <3>2
  <2>3. ASSUME NEW i \in DOMAIN r, NEW j \in DOMAIN r, i < j, DataOf(r[i], p), DataOf(r[j], p)
        PROVE  r[i].seq < r[j].seq
    <3>1. i \in DOMAIN q BY <1>1, <2>3
    <3>2. q[i].seq <= b BY <3>1, <1>1, <2>3 DEF Carries
    <3>3. CASE j = n BY <3>1, <3>2, <3>3, <1>1, <1>3, <1>5
    <3>4. CASE j # n
      <4>1. j \in DOMAIN q BY <3>4, <1>1
      <4> QED BY <3>1, <4>1, <1>1, <2>3 DEF Carries
    <3> QED BY <3>3, <3>4
  <2> QED BY <2>1, <2>2, <2>3 DEF Carries
<1> QED BY <1>4, <1>5 DEF r

\* With FIN frames last, a queue whose head is p's FIN carries no chunk of p.
LEMMA FinHead ==
  ASSUME NEW q \in Seq(Frame), q # <<>>, NEW p, NEW a \in Nat, NEW b \in Nat, a <= b,
         Carries(q, p, a, b), FinOrder(q), FinOf(Head(q), p)
  PROVE  a = b
<1>1. 1 \in DOMAIN q /\ FinOf(q[1], p) /\ \A i \in DOMAIN q : i # 1 => 1 < i
  BY TailShift
<1>2. \A i \in DOMAIN q : ~DataOf(q[i], p)
  BY <1>1 DEF FinOrder, DataOf, FinOf
<1>3. a # b => a + 1 \in a + 1 .. b
  OBVIOUS
<1> QED BY <1>2, <1>3 DEF Carries

\* A queue without data frames of p.
LEMMA CarriesNothing ==
  ASSUME NEW q, NEW p, NEW a \in Nat, \A i \in DOMAIN q : ~DataOf(q[i], p)
  PROVE  Carries(q, p, a, a)
  BY DEF Carries

\* The order of FIN frames survives the loss of the head.
LEMMA FinTail ==
  ASSUME NEW q \in Seq(Frame), q # <<>>
  PROVE  /\ FinOrder(q) => FinOrder(Tail(q))
         /\ \A p : HasFin(Tail(q), p) => HasFin(q, p)
  BY TailShift DEF FinOrder, HasFin

\* It survives a new frame, unless that is data behind a FIN of its stream.
LEMMA FinAppend ==
  ASSUME NEW q \in Seq(Frame), NEW f \in Frame
  PROVE  /\ FinOrder(q) /\ (f.cmd = "DATA" => ~HasFin(q, f.src)) => FinOrder(Append(q, f))
         /\ \A p : HasFin(Append(q, f), p) => HasFin(q, p) \/ FinOf(f, p)
  BY AppendShift DEF FinOrder, HasFin, FinOf

-----------------------------------------------------------------------------
\* Steps

\* What no step undoes of a stream.
Kept(s, t) ==
  /\ s.id # 0 => t.id = s.id /\ t.origin = s.origin
  /\ s.sent <= t.sent
  /\ s.drain = "done" => t.drain = "done" /\ t.sent = s.sent
  /\ s.closer # "no" => t.closer # "no" /\ t.closedAt = s.closedAt

\* What a step does to a stream that it neither creates nor moves data of.
Evolves(s, t) ==
  /\ Kept(s, t)
  /\ s.id = 0 => t = s
  /\ t.id = s.id /\ t.origin = s.origin /\ t.sent = s.sent
  /\ LifeCycle(s) => LifeCycle(t)
  /\ \/ /\ t.readBuf = s.readBuf
        /\ t.state = "Reset" <=> s.state = "Reset"
        /\ t.state \in Eof <=> s.state \in Eof
     \/ t.readBuf = <<>> /\ t.state = "Reset"

\* What a step does to a session that sends and creates nothing.
Recedes(m, n) ==
  /\ n.count = m.count
  /\ \/ n.data = m.data
     \/ n.wl = "done" /\ m.data # <<>> /\ n.data = Tail(m.data)
  /\ \A i \in Ids : /\ n.streams[i] \in {m.streams[i], NoObj}
                    /\ n.pendingOpen[i] \in {m.pendingOpen[i], NoObj}
  /\ \A i \in DOMAIN n.acceptCh :
       \/ \E j \in DOMAIN m.acceptCh : n.acceptCh[i] = m.acceptCh[j]
       \/ m.rl.pc = "accept" /\ n.acceptCh[i] = m.rl.obj
  /\ n.rl.pc = "accept" => n.rl = m.rl
  /\ \A i \in DOMAIN n.control :
       \/ n.control[i].cmd \in {"RESET", "GOAWAY"}
       \/ \E j \in DOMAIN m.control : n.control[i] = m.control[j]
  /\ n.closing = "no" => m.closing = "no"
  /\ n.closing # "closed" => m.closing # "closed"
  /\ n.wl = "run" => m.wl = "run"

\* The transport loses at most one frame, and none that ends or carries data.
Drops(w, v) ==
  \/ v = w
  \/ w # <<>> /\ v = Tail(w) /\ Head(w).cmd \notin {"DATA", "CLOSE"}

\* A step that moves no data.
Passive ==
  /\ \A e \in Endpoint : Recedes(mux[e], mux'[e]) /\ Drops(wire[e], wire'[e])
  /\ \A o \in Obj :
       /\ Evolves(obj[o], obj'[o])
       /\ obj'[o].ackCh \/ obj'[o].call \in {"queued", "ok"} =>
            \/ obj[o].ackCh \/ obj[o].call \in {"queued", "ok"}
            \/ Known(o, obj)
  /\ up' = up

\* Links are for ever.
LEMMA LinkedKept ==
  ASSUME NEW S, NEW T, \A o \in Obj : Kept(S[o], T[o]), NEW o \in Obj
  PROVE  /\ \A p \in Obj : Linked(o, p, S) => Linked(o, p, T)
         /\ Known(o, S) => Known(o, T)
  BY DEF Kept, Linked, Known

\* What a frame says stays true.
LEMMA FramesKept ==
  ASSUME NEW S, NEW T, \A o \in Obj : Kept(S[o], T[o]), NEW e, NEW q,
         \A o \in Obj : S[o].sent \in Nat /\ T[o].sent \in Nat,
         GoodFrames(q, e), SentFrames(q, e, S)
  PROVE  SentFrames(q, e, T)
<1> SUFFICES ASSUME NEW i \in DOMAIN q, q[i].cmd \in {"OPEN", "ACK", "DATA", "CLOSE"}
             PROVE  SentFrame(q[i], e, T)
  BY DEF SentFrames, SentFrame
<1>1. q[i].id # 0 /\ q[i].seq \in Nat
  BY FrameSeq DEF GoodFrames, GoodFrame
<1>2. SentFrame(q[i], e, S)
  BY DEF SentFrames
<1> QED BY <1>1, <1>2 DEF SentFrame, Kept

\* Frames of a queue that loses its head.
LEMMA FramesTail ==
  ASSUME NEW q \in Seq(Frame), q # <<>>, NEW e, NEW S, SentFrames(q, e, S)
  PROVE  SentFrames(Tail(q), e, S) /\ SentFrame(Head(q), e, S)
  BY TailShift DEF SentFrames

\* A queue of true frames gains one.
LEMMA FramesAppend ==
  ASSUME NEW q \in Seq(Frame), NEW f \in Frame, NEW e, NEW S, SentFrames(q, e, S),
         SentFrame(f, e, S)
  PROVE  SentFrames(Append(q, f), e, S)
  BY AppendShift DEF SentFrames

\* The counters of the streams, as numbers.
LEMMA StreamNumbers ==
  ASSUME NEW s \in Stream
  PROVE  /\ s.wrote \in Nat /\ s.sent \in Nat /\ s.closedAt \in Nat
         /\ s.wrote \in 0 .. MaxWrites /\ s.sent \in 0 .. MaxWrites
         /\ s.closedAt \in 0 .. MaxWrites
<1>1. /\ s.wrote \in 0 .. MaxWrites /\ s.sent \in 0 .. MaxWrites
      /\ s.closedAt \in 0 .. MaxWrites
  BY DEF Stream
<1> QED BY <1>1

\* Stream objects, and the value that is none of them.
LEMMA NoObjFacts == NoObj \notin Obj /\ \A o \in Obj : o[1] \in Endpoint /\ o[2] \in 1 .. MaxObj
  BY DEF NoObj, Obj, Endpoint

\* What both parts of the invariant say of one object and of one endpoint.
LEMMA PipeFacts ==
  ASSUME IndInv, LinkInv
  PROVE  /\ \A o \in Obj : /\ obj[o] \in Stream /\ Settled(o, obj) /\ o[1] \in Endpoint
                           /\ GoodStream(obj[o], o[1], Used)
                           /\ obj[o].sent \in Nat /\ obj[o].wrote \in Nat
         /\ \A e \in Endpoint :
              /\ GoodSession(mux[e], e, Used) /\ NamedSession(mux[e], e, obj)
              /\ GoodFrames(mux[e].data, e) /\ GoodFrames(wire[e], e)
              /\ mux[e].data \in Seq(Frame) /\ wire[e] \in Seq(Frame)
              /\ SentFrames(mux[e].data, e, obj) /\ SentFrames(wire[e], e, obj)
         /\ Used \subseteq Obj /\ \A o \in Used : obj[o].id # 0
<1>1. \A o \in Obj : obj[o] \in Stream /\ GoodStream(obj[o], o[1], Used)
  BY DEF IndInv
<1>2. \A o \in Obj : obj[o].sent \in Nat /\ obj[o].wrote \in Nat
  BY <1>1, StreamNumbers
<1>3. \A e \in Endpoint : GoodSession(mux[e], e, Used) /\ GoodFrames(wire[e], e)
  BY DEF IndInv
<1>4. \A e \in Endpoint : GoodFrames(mux[e].data, e)
  BY <1>3 DEF GoodSession
<1>5. \A e \in Endpoint : mux[e].data \in Seq(Frame) /\ wire[e] \in Seq(Frame)
  BY <1>3, <1>4 DEF GoodFrames
<1> QED BY <1>1, <1>2, <1>3, <1>4, <1>5, NoObjFacts, Zenon DEF LinkInv, Used

\* Such a step keeps the links.
LEMMA PassiveLink ==
  ASSUME IndInv, LinkInv, IndInv', Passive
  PROVE  LinkInv'
\* A session that recedes goes on referring to streams of its own.
<1>NamedKept.
  ASSUME NEW S, NEW T, \A o \in Obj : Kept(S[o], T[o]), NEW m, NEW n, NEW e,
         NEW U \in SUBSET Obj, \A o \in U : S[o].id # 0, GoodSession(m, e, U),
         NamedSession(m, e, S), Recedes(m, n), NoObj \notin Obj
  PROVE  NamedSession(n, e, T)
  <2> USE <1>NamedKept
  <2>1. \A o \in U : T[o].id = S[o].id /\ T[o].origin = S[o].origin
    BY DEF Kept
  <2>2. ASSUME NEW i \in Ids
        PROVE  OwnEntry(n.streams[i], e, i, T) /\ OwnEntry(n.pendingOpen[i], e, i, T)
    BY <2>1 DEF NamedSession, OwnEntry, Recedes, GoodSession
  <2>3. \A i \in DOMAIN m.acceptCh : T[m.acceptCh[i]].origin # NoObj
    BY <2>1 DEF NamedSession, GoodSession
  <2>4. m.rl.pc = "accept" => T[m.rl.obj].origin # NoObj
    BY <2>1 DEF NamedSession, GoodSession, GoodReader
  <2>5. \A i \in DOMAIN n.acceptCh : T[n.acceptCh[i]].origin # NoObj
    BY <2>3, <2>4 DEF Recedes
  <2>6. n.rl.pc = "accept" => T[n.rl.obj].origin # NoObj
    BY <2>4 DEF Recedes
  <2>7. \A i \in DOMAIN n.control : n.control[i].cmd \in {"RESET", "GOAWAY"}
    BY DEF Recedes, NamedSession
  <2> QED BY <2>2, <2>5, <2>6, <2>7 DEF NamedSession
<1> USE PipeFacts, NoObjFacts
<1>0. \A o \in Obj : Evolves(obj[o], obj'[o]) /\ Kept(obj[o], obj'[o])
  BY DEF Passive, Evolves
<1>a. \A o \in Obj : obj[o].sent \in Nat /\ obj'[o].sent \in Nat
  BY StreamNumbers DEF IndInv
<1>1. Fresh'
  <2> SUFFICES ASSUME NEW o \in Obj, o[2] > mux'[o[1]].count
               PROVE  obj'[o] = NewStreamSession
    BY DEF Fresh
  <2>1. mux'[o[1]].count = mux[o[1]].count
    BY DEF Passive, Recedes
  <2>2. obj[o] = NewStreamSession
    BY <2>1 DEF LinkInv, Fresh
  <2> QED BY <1>0, <2>2 DEF Evolves, NewStreamSession
<1>2. ASSUME NEW e \in Endpoint PROVE NamedSession(mux'[e], e, obj')
  <2>1. Recedes(mux[e], mux'[e]) BY DEF Passive
  <2> QED BY <2>1, <1>0, <1>NamedKept, Zenon
<1>3. ASSUME NEW e \in Endpoint
      PROVE  SentFrames(mux'[e].data, e, obj') /\ SentFrames(wire'[e], e, obj')
  <2>1. SentFrames(mux[e].data, e, obj') /\ SentFrames(wire[e], e, obj')
    BY <1>0, <1>a, FramesKept
  <2>2. \/ mux'[e].data = mux[e].data
        \/ mux[e].data # <<>> /\ mux'[e].data = Tail(mux[e].data)
    BY DEF Passive, Recedes
  <2>3. \/ wire'[e] = wire[e]
        \/ wire[e] # <<>> /\ wire'[e] = Tail(wire[e])
    BY DEF Passive, Drops
  <2> QED BY <2>1, <2>2, <2>3, FramesTail
<1>4. ASSUME NEW o \in Obj PROVE Settled(o, obj')
  <2>1. Evolves(obj[o], obj'[o]) /\ Settled(o, obj)
    BY <1>0
  <2>2. Known(o, obj) => Known(o, obj')
    BY <1>0, LinkedKept
  <2>3. \A p \in Obj : Linked(o, p, obj) => Linked(o, p, obj')
    BY <1>0, LinkedKept
  <2>4. obj'[o].ackCh \/ obj'[o].call \in {"queued", "ok"} => Known(o, obj)
    BY <2>1 DEF Passive, Settled
  <2>5. obj'[o].state \in Eof => Known(o, obj)
    BY <2>1 DEF Settled, Evolves, Eof
  <2>6. obj'[o].origin # NoObj => Linked(o, obj'[o].origin, obj')
    <3>1. obj'[o].origin = obj[o].origin /\ obj[o].origin \in Obj \cup {NoObj}
      BY <2>1 DEF Evolves, Stream
    <3> QED BY <3>1, <2>1, <2>3 DEF Settled
  <2>7. \A i \in DOMAIN obj'[o].readBuf : /\ obj'[o].readBuf[i].src \in Obj
                                          /\ Linked(o, obj'[o].readBuf[i].src, obj')
    <3>1. CASE obj'[o].readBuf = obj[o].readBuf
      BY <3>1, <2>1, <2>3 DEF Settled
    <3>2. CASE obj'[o].readBuf = <<>>
      BY <3>2
    <3> QED BY <3>1, <3>2, <2>1 DEF Evolves
  <2>8. LifeCycle(obj'[o])
    BY <2>1 DEF Evolves, Settled
  <2> QED BY <2>2, <2>4, <2>5, <2>6, <2>7, <2>8 DEF Settled
<1> QED BY <1>1, <1>2, <1>3, <1>4 DEF LinkInv

\* The order of FIN frames through a step that moves no data.
LEMMA PassiveFin ==
  ASSUME IndInv, LinkInv, FinInv, Passive
  PROVE  FinInv'
<1> SUFFICES ASSUME NEW e \in Endpoint
             PROVE  /\ FinOrder(wire'[e]) /\ FinOrder(mux'[e].data)
                    /\ \A i \in DOMAIN mux'[e].data : mux'[e].data[i].cmd = "DATA"
                         => ~HasFin(wire'[e], mux'[e].data[i].src)
  BY DEF FinInv
<1> DEFINE w == wire[e]  v == wire'[e]  q == mux[e].data  r == mux'[e].data
<1>1. /\ q \in Seq(Frame) /\ w \in Seq(Frame) /\ FinOrder(w) /\ FinOrder(q)
      /\ \A i \in DOMAIN q : q[i].cmd = "DATA" => ~HasFin(w, q[i].src)
  BY PipeFacts DEF FinInv
<1>2. r = q \/ (q # <<>> /\ r = Tail(q))
  BY DEF Passive, Recedes
<1>3. v = w \/ (w # <<>> /\ v = Tail(w))
  BY DEF Passive, Drops
<1> HIDE DEF w, v, q, r
<1>4. FinOrder(v) /\ \A p : HasFin(v, p) => HasFin(w, p)
  BY <1>1, <1>3, FinTail, Zenon
<1>5. FinOrder(r) /\ \A i \in DOMAIN r : \E j \in DOMAIN q : r[i] = q[j]
  BY <1>1, <1>2, FinTail, TailShift, Zenon
<1> QED BY <1>1, <1>4, <1>5 DEF w, v, q, r

\* The flow of chunks through a step that moves no data.
LEMMA PassiveFlow ==
  ASSUME IndInv, LinkInv, FlowInv, Passive
  PROVE  FlowInv'
\* Chunks in flight through a step that drops a frame without data.
<1>FlightDrops.
  ASSUME NEW p, NEW n \in Nat, NEW k \in Nat, NEW w \in Seq(Frame), NEW v,
         NEW l, NEW m, NEW u, InFlight(p, n, k, w, l, u), Drops(w, v), Recedes(l, m)
  PROVE  InFlight(p, n, k, v, m, u)
  <2> USE <1>FlightDrops
  <2>1. PICK a \in Nat : /\ Reaches(w, p, n, a, k, "optional")
                         /\ CanSend(l, u) => \E b \in Nat : Reaches(l.data, p, a, b, k, l.closing)
    BY DEF InFlight
  <2>2. Reaches(v, p, n, a, k, "optional")
    <3>1. CASE v = w BY <3>1, <2>1
    <3>2. CASE w # <<>> /\ v = Tail(w) /\ Head(w).cmd \notin {"DATA", "CLOSE"}
      <4>1. ~DataOf(Head(w), p) /\ Carries(w, p, n, a)
        BY <3>2, <2>1 DEF DataOf, Reaches
      <4> QED BY <3>2, <4>1, <2>1, CarriesTail, FinTail DEF Reaches
    <3> QED BY <3>1, <3>2 DEF Drops
  <2>3. ASSUME CanSend(m, u) PROVE \E b \in Nat : Reaches(m.data, p, a, b, k, m.closing)
    <3>1. CanSend(l, u) /\ m.data = l.data /\ (m.closing = "no" => l.closing = "no")
      BY <2>3 DEF CanSend, Recedes
    <3>2. PICK b \in Nat : Reaches(l.data, p, a, b, k, l.closing)
      BY <2>1, <3>1
    <3>3. Reaches(m.data, p, a, b, k, m.closing)
      BY <3>1, <3>2 DEF Reaches
    <3> QED BY <3>3
  <2> QED BY <2>2, <2>3 DEF InFlight
<1> USE PipeFacts, NoObjFacts
<1>0. \A o \in Obj : Evolves(obj[o], obj'[o])
  BY DEF Passive
<1>1. IDsUsedOnce' => IDsUsedOnce
  BY <1>0 DEF IDsUsedOnce, Evolves
<1> SUFFICES ASSUME IDsUsedOnce, NEW o \in Obj, NEW p \in Obj,
                    Linked(o, p, obj'), obj'[o].state # "Reset"
             PROVE  Flow(o, p)'
  BY <1>1 DEF FlowInv
<1> DEFINE e == p[1]
<1>2. Evolves(obj[o], obj'[o]) /\ Evolves(obj[p], obj'[p])
  BY <1>0
<1>3. Linked(o, p, obj)
  BY <1>2, Zenon DEF Evolves, Linked
<1>4. /\ obj'[o].readBuf = obj[o].readBuf /\ obj[o].state # "Reset"
      /\ obj'[o].state \in Eof <=> obj[o].state \in Eof
      /\ obj'[o].id = obj[o].id /\ obj'[p].sent = obj[p].sent
  BY <1>2 DEF Evolves
<1>5. Flow(o, p)
  BY <1>3, <1>4 DEF FlowInv
<1>6. obj'[o].state \in Eof =>
       /\ Len(obj'[o].readBuf) = obj'[p].sent
       /\ obj'[p].closedAt <= obj'[p].sent
       /\ obj'[p].drain = "done" /\ obj'[p].closer # "no"
  BY <1>2, <1>4, <1>5, Zenon DEF Flow, Evolves, Kept
<1>7. ASSUME mux'[o[1]].streams[obj'[o].id] = o
      PROVE  InFlight(p, Len(obj'[o].readBuf), obj'[p].sent, wire'[e], mux'[e], up')
  <2>0. e \in Endpoint /\ o[1] \in Endpoint
    OBVIOUS
  <2>1. obj[o].id \in Ids
    BY <1>3 DEF Linked, Stream
  <2>2. mux[o[1]].streams[obj[o].id] = o
    <3>1. mux'[o[1]].streams[obj[o].id] \in {mux[o[1]].streams[obj[o].id], NoObj}
      BY <2>0, <2>1, Zenon DEF Passive, Recedes
    <3> QED BY <3>1, <1>4, <1>7
  <2>3. InFlight(p, Len(obj[o].readBuf), obj[p].sent, wire[e], mux[e], up)
    BY <2>2, <1>5 DEF Flow
  <2>4. Recedes(mux[e], mux'[e]) /\ Drops(wire[e], wire'[e]) /\ up' = up
    BY <2>0 DEF Passive
  <2>7. Len(obj[o].readBuf) \in Nat /\ obj[p].sent \in Nat /\ wire[e] \in Seq(Frame)
    BY <2>0 DEF Stream
  <2> QED BY <2>3, <2>4, <2>7, <1>4, <1>FlightDrops, Zenon
<1> QED BY <1>4, <1>5, <1>6, <1>7 DEF Flow

-----------------------------------------------------------------------------
\* The steps that move no data

\* What Recedes says of a session is left alone, except for its maps and a
\* read loop that goes on.
Same(m, n) ==
  /\ n.count = m.count /\ n.data = m.data /\ n.control = m.control
  /\ n.acceptCh = m.acceptCh /\ n.closing = m.closing /\ n.wl = m.wl
  /\ n.rl = m.rl \/ n.rl.pc # "accept"

\* readLoop takes a frame that neither carries data nor ends it.
LEMMA ReadDrops ==
  ASSUME IndInv, NEW e \in Endpoint, NEW cmd, HasFrame(e, cmd), ReadFrame(e),
         cmd \notin {"DATA", "CLOSE"}
  PROVE  \A d \in Endpoint : Drops(wire[d], wire'[d])
<1>1. Peer(e) \in Endpoint BY DEF Peer, Endpoint
<1>2. wire[Peer(e)] # <<>> /\ Head(wire[Peer(e)]).cmd \notin {"DATA", "CLOSE"}
  BY DEF HasFrame
<1>3. \A d \in Endpoint : wire'[d] = IF d = Peer(e) THEN Tail(wire[d]) ELSE wire[d]
  BY DEF ReadFrame, IndInv
<1> QED BY <1>1, <1>2, <1>3 DEF Drops

\* The stream that the head of the transport names.
LEMMA HeadFrame ==
  ASSUME IndInv, LinkInv, NEW e \in Endpoint, NEW cmd, HasFrame(e, cmd)
  PROVE  LET w == wire[Peer(e)] IN
         /\ Peer(e) \in Endpoint /\ Peer(e) # e /\ w \in Seq(Frame) /\ w # <<>>
         /\ Head(w) \in Frame /\ Head(w).cmd = cmd
         /\ SentFrame(Head(w), Peer(e), obj) /\ GoodFrame(Head(w), Peer(e))
         /\ cmd # "GOAWAY" => Head(w).id \in Ids
<1>1. Peer(e) \in Endpoint /\ Peer(e) # e
  BY DEF Peer, Endpoint
<1>2. wire[Peer(e)] # <<>> /\ Head(wire[Peer(e)]).cmd = cmd
  BY DEF HasFrame
<1>3. GoodFrames(wire[Peer(e)], Peer(e)) /\ SentFrames(wire[Peer(e)], Peer(e), obj)
  BY <1>1, PipeFacts
<1>4. wire[Peer(e)] \in Seq(Frame)
  BY <1>3 DEF GoodFrames
<1>5. /\ GoodFrame(Head(wire[Peer(e)]), Peer(e))
      /\ SentFrame(Head(wire[Peer(e)]), Peer(e), obj)
  BY <1>2, <1>3, <1>4, FramesTail DEF GoodFrames
<1>6. Head(wire[Peer(e)]) \in Frame /\ (cmd # "GOAWAY" => Head(wire[Peer(e)]).id # 0)
  BY <1>2, <1>5 DEF GoodFrame
<1>7. Head(wire[Peer(e)]).id \in Ids \cup {0}
  BY <1>6 DEF Frame
<1> QED BY <1>1, <1>2, <1>4, <1>5, <1>6, <1>7

\* A frame of the other end is looked up by its ID: the stream found is linked
\* to the stream that sent the frame.
LEMMA EntryLinked ==
  ASSUME IndInv, LinkInv, NEW e \in Endpoint, NEW cmd \in {"ACK", "DATA", "CLOSE"},
         HasFrame(e, cmd), NEW o \in Obj,
         \/ o = mux[e].streams[Head(wire[Peer(e)]).id]
         \/ o = mux[e].pendingOpen[Head(wire[Peer(e)]).id]
  PROVE  /\ Head(wire[Peer(e)]).src \in Obj /\ Head(wire[Peer(e)]).src[1] = Peer(e)
         /\ Linked(o, Head(wire[Peer(e)]).src, obj) /\ Known(o, obj) /\ o[1] = e
         /\ obj[o].id = Head(wire[Peer(e)]).id
<1> DEFINE f == Head(wire[Peer(e)])
<1>1. /\ Peer(e) # e /\ f.id \in Ids /\ f.id # 0 /\ f.cmd = cmd /\ SentFrame(f, Peer(e), obj)
  BY HeadFrame, MuxAssumption DEF Ids
<1>2. f.src \in Obj /\ f.src[1] = Peer(e) /\ f.id = obj[f.src].id
  BY <1>1 DEF SentFrame
<1>3. NamedSession(mux[e], e, obj)
  BY PipeFacts
<1>4. o[1] = e /\ obj[o].id = f.id
  BY <1>1, <1>3, NoObjFacts DEF NamedSession, OwnEntry
<1>5. Linked(o, f.src, obj)
  BY <1>1, <1>2, <1>4 DEF Linked
<1> QED BY <1>2, <1>4, <1>5 DEF Known

\* The steps of a session, and those of a stream, that move no data.
QuietSession(e) ==
  \/ AppCall(e) \/ OpenRefused(e) \/ Deliver(e) \/ RemoveClosed(e) \/ ResetTail(e)
  \/ ReadError(e) \/ WriteLoopExit(e) \/ CloseTransport(e) \/ WriteError(e)
  \/ RejectOpen(e) \/ RecvGoAway(e) \/ AcceptStream(e) \/ RecvAck(e) \/ RecvReset(e)
  \/ CloseStreams(e)
QuietStream(o) ==
  \/ WriteCheck(o) \/ WriterStep(o) \/ CloseLocal(o) \/ CloseNotify(o)
  \/ OnReset(o) \/ DrainFin(o) \/ DrainClosed(o) \/ DrainStop(o) \/ OpenAcked(o)
  \/ CloseRemove(o) \/ ResetLocal(o) \/ OnResetDelete(o) \/ SendReset(o)
  \/ OpenCanceled(o) \/ OpenClosed(o) \/ removeStream(o) \/ CancelReset(o)

\* These steps are passive: no data moves and no stream is created.
LEMMA PassiveSteps ==
  ASSUME IndInv, LinkInv
  PROVE  /\ \A e \in Endpoint : QuietSession(e) => Passive
         /\ \A o \in Obj : QuietStream(o) => Passive
\* A session that only loses map entries recedes.
<1>SameRecedes.
  ASSUME NEW m, NEW n, Same(m, n),
         \A i \in Ids : /\ n.streams[i] \in {m.streams[i], NoObj}
                        /\ n.pendingOpen[i] \in {m.pendingOpen[i], NoObj}
  PROVE  Recedes(m, n)
    BY <1>SameRecedes DEF Same, Recedes
\* delete(m.streams, id) and freeID, field by field.
<1>RemoveSame.
  ASSUME NEW m \in Session, NEW id \in Ids
  PROVE  /\ Remove(m, id) \in Session
         /\ Same(m, Remove(m, id)) /\ Remove(m, id).pendingOpen = m.pendingOpen
         /\ Remove(m, id).streams = [m.streams EXCEPT ![id] = NoObj]
         /\ Remove(m, id).rl = m.rl
  <2> DEFINE n == [m EXCEPT !.streams[id] = NoObj]
             q == Append(m.freeIDs, id)
  <2>1. m.streams \in [Ids -> Obj \cup {NoObj}] /\ q \in Seq(Ids)
    BY DEF Session
  <2>2. n \in Session /\ n.freeIDs = m.freeIDs
    BY <2>1, Zenon DEF Session
  <2>3. /\ Same(m, n) /\ n.pendingOpen = m.pendingOpen
        /\ n.streams = [m.streams EXCEPT ![id] = NoObj] /\ n.rl = m.rl
    BY DEF Same, Session
  <2>4. CASE ~ownsID(n, id)
    BY <2>2, <2>3, <2>4 DEF Remove, freeID
  <2>5. CASE ownsID(n, id)
    <3> DEFINE k == [n EXCEPT !.freeIDs = q]
    <3>1. Remove(m, id) = k
      BY <2>5, <2>2 DEF Remove, freeID
    <3> HIDE DEF n, q
    <3>2. k \in Session /\ Same(n, k) /\ k.pendingOpen = n.pendingOpen /\ k.streams = n.streams
          /\ k.rl = n.rl
      BY <2>1, <2>2, Zenon DEF Session, Same
    <3> QED BY <3>1, <3>2, <2>3 DEF Same
  <2> QED BY <2>4, <2>5
\* So does one whose stream was removed, whatever readLoop does next.
<1>RemoveRecedes.
  ASSUME NEW m \in Session, NEW id \in Ids, NEW s, NEW r
  PROVE  /\ Recedes(m, Remove(m, id)) /\ Recedes(m, maybeRemoveStream(m, id, s))
         /\ maybeRemoveStream(m, id, s) \in Session
         /\ r.pc # "accept" => /\ Recedes(m, [Remove(m, id) EXCEPT !.rl = r])
                               /\ Recedes(m, [maybeRemoveStream(m, id, s) EXCEPT !.rl = r])
                               /\ Recedes(m, [m EXCEPT !.rl = r])
  <2>1. ASSUME NEW n \in Session, Same(m, n), n.pendingOpen = m.pendingOpen,
               n.streams = [m.streams EXCEPT ![id] = NoObj] \/ n.streams = m.streams
        PROVE  Recedes(m, n) /\ (r.pc # "accept" => Recedes(m, [n EXCEPT !.rl = r]))
    <3>1. \A i \in Ids : n.streams[i] \in {m.streams[i], NoObj}
      BY <2>1 DEF Session
    <3> DEFINE k == [n EXCEPT !.rl = r]
    <3>2. /\ k.count = n.count /\ k.data = n.data /\ k.control = n.control
          /\ k.acceptCh = n.acceptCh /\ k.closing = n.closing /\ k.wl = n.wl
          /\ k.rl = r /\ k.streams = n.streams /\ k.pendingOpen = n.pendingOpen
      BY <2>1 DEF Session
    <3> HIDE DEF k
    <3>3. r.pc # "accept" => Same(m, k)
      BY <2>1, <3>2 DEF Same
    <3>4. Recedes(m, n)
      BY <2>1, <3>1, <1>SameRecedes
    <3>5. r.pc # "accept" => Recedes(m, k)
      BY <2>1, <3>1, <3>2, <3>3, <1>SameRecedes
    <3> QED BY <3>4, <3>5 DEF k
  <2>2. Same(m, m) BY DEF Same
  <2>3. /\ Recedes(m, Remove(m, id))
        /\ r.pc # "accept" => Recedes(m, [Remove(m, id) EXCEPT !.rl = r])
    BY <2>1, <1>RemoveSame
  <2>4. Recedes(m, m) /\ (r.pc # "accept" => Recedes(m, [m EXCEPT !.rl = r]))
    BY <2>1, <2>2
  <2>5. CASE s.state \in Terminal
    <3>1. maybeRemoveStream(m, id, s) = Remove(m, id)
      BY <2>5 DEF maybeRemoveStream
    <3> QED BY <3>1, <2>3, <2>4, <1>RemoveSame, Zenon
  <2>6. CASE s.state \notin Terminal
    <3>1. maybeRemoveStream(m, id, s) = m
      BY <2>6 DEF maybeRemoveStream
    <3> QED BY <3>1, <2>3, <2>4
  <2> QED BY <2>5, <2>6
\* Enqueueing a RESET or GOAWAY is no data.
<1>ControlRecedes.
  ASSUME NEW m \in Session, NEW f \in Frame, f.cmd \in {"RESET", "GOAWAY"}
  PROVE  Recedes(m, EnqueueControl(m, f))
  <2> USE <1>ControlRecedes
  <2> DEFINE q == Append(m.control, f)
             n == [m EXCEPT !.control = q]
  <2>1. m.control \in Seq(Frame)
    BY DEF Session
  <2>2. \A i \in DOMAIN q : \/ q[i].cmd \in {"RESET", "GOAWAY"}
                            \/ \E j \in DOMAIN m.control : q[i] = m.control[j]
    BY <2>1, AppendShift
  <2> HIDE DEF q
  <2>3. Recedes(m, n)
    BY <2>2 DEF Session, Recedes
  <2>4. Recedes(m, m)
    BY <1>SameRecedes DEF Same
  <2> QED BY <2>3, <2>4 DEF EnqueueControl, q
\* Close() begins: the queue is closed and closeCh signalled.
<1>StartCloseRecedes.
  ASSUME NEW l, NEW m \in Session, Recedes(l, m)
  PROVE  Recedes(l, StartClose(m))
  <2> USE <1>StartCloseRecedes
  <2>1. CASE m.closing # "no"
    BY <2>1 DEF StartClose
  <2>2. CASE m.closing = "no"
    <3> DEFINE n == [m EXCEPT !.closing = "signalled"]
    <3>1. StartClose(m) = n
      BY <2>2 DEF StartClose
    <3>2. /\ n.count = m.count /\ n.data = m.data /\ n.control = m.control
          /\ n.acceptCh = m.acceptCh /\ n.closing = "signalled" /\ n.wl = m.wl
          /\ n.rl = m.rl /\ n.streams = m.streams /\ n.pendingOpen = m.pendingOpen
      BY DEF Session
    <3> HIDE DEF n
    <3>3. Recedes(l, n)
      BY <2>2, <3>2 DEF Recedes
    <3> QED BY <3>1, <3>3
  <2> QED BY <2>1, <2>2
\* Nothing happens to the other session, to no session, and to no stream.
<1>MuxRecedes.
  /\ mux' = mux => \A d \in Endpoint : Recedes(mux[d], mux'[d])
  /\ \A e \in Endpoint : \A n : Recedes(mux[e], n) /\ mux' = [mux EXCEPT ![e] = n]
       => \A d \in Endpoint : Recedes(mux[d], mux'[d])
  /\ wire' = wire => \A d \in Endpoint : Drops(wire[d], wire'[d])
  <2>1. \A m : Recedes(m, m)
    BY <1>SameRecedes DEF Same
  <2> QED BY <2>1 DEF IndInv, Drops
\* A step of one stream, or of none.
<1>ObjEvolves.
  /\ \A o \in Obj : Evolves(obj[o], obj[o])
  /\ obj' = obj => \A o \in Obj : Evolves(obj[o], obj'[o])
  /\ \A o \in Obj : \A t : Evolves(obj[o], t) /\ obj' = [obj EXCEPT ![o] = t]
       => \A p \in Obj : Evolves(obj[p], obj'[p])
  <2>0. \A o \in Obj : obj[o].sent \in Nat
    BY StreamNumbers DEF IndInv
  <2>1. \A o \in Obj : Evolves(obj[o], obj[o])
    BY <2>0 DEF Evolves, Kept
  <2> QED BY <2>1 DEF IndInv
\* A step of one session that changes no stream is passive.
<1>PassiveMux.
  ASSUME NEW e \in Endpoint, NEW n, Recedes(mux[e], n),
         mux' = [mux EXCEPT ![e] = n], obj' = obj, up' = up,
         \A d \in Endpoint : Drops(wire[d], wire'[d])
  PROVE  Passive
    BY <1>PassiveMux, <1>MuxRecedes, <1>ObjEvolves, Zenon DEF Passive
\* Session steps that leave the streams and the transport alone.
<1>SessionPassive.
  ASSUME NEW e \in Endpoint,
         \/ AppCall(e) \/ OpenRefused(e) \/ Deliver(e) \/ RemoveClosed(e) \/ ResetTail(e)
         \/ ReadError(e) \/ WriteLoopExit(e) \/ CloseTransport(e) \/ WriteError(e)
  PROVE  Passive
  <2> USE <1>SessionPassive
  <2> DEFINE m == mux[e]
  <2>1. m \in Session /\ GoodSession(m, e, Used)
    BY DEF IndInv
  <2>2. obj' = obj /\ up' = up /\ \A d \in Endpoint : Drops(wire[d], wire'[d])
    BY <1>MuxRecedes, Zenon
      DEF AppCall, OpenCheck, Close, GoAway, OpenRefused, Deliver, RemoveClosed,
       ResetTail, ReadError, WriteLoopExit, CloseTransport, WriteError
  <2> SUFFICES \E n : Recedes(m, n) /\ mux' = [mux EXCEPT ![e] = n]
    BY <2>2, <1>PassiveMux, Zenon
  <2>3. Recedes(m, m)
    BY <1>SameRecedes DEF Same
  <2>4. CASE OpenCheck(e)
    <3> DEFINE n == [m EXCEPT !.opened = @ + 1,
                              !.calls = IF m.goingAway THEN @ ELSE @ + 1]
    <3>1. mux' = [mux EXCEPT ![e] = n]
      BY <2>4, <2>1, Zenon DEF OpenCheck, Session
    <3>2. Same(m, n) /\ n.streams = m.streams /\ n.pendingOpen = m.pendingOpen
      BY <2>1 DEF Session, Same
    <3>3. Recedes(m, n)
      BY <3>2, <1>SameRecedes, Zenon
    <3> QED BY <3>1, <3>3, Zenon
  <2>5. CASE OpenRefused(e)
    <3> DEFINE n == [m EXCEPT !.calls = @ - 1]
    <3>1. mux' = [mux EXCEPT ![e] = n]
      BY <2>5 DEF OpenRefused
    <3>2. Same(m, n) /\ n.streams = m.streams /\ n.pendingOpen = m.pendingOpen
      BY <2>1 DEF Session, Same
    <3>3. Recedes(m, n)
      BY <3>2, <1>SameRecedes, Zenon
    <3> QED BY <3>1, <3>3, Zenon
  <2>6. CASE Close(e)
    BY <2>6, <2>1, <2>3, <1>StartCloseRecedes, Zenon DEF Close
  <2>7. CASE GoAway(e)
    <3> DEFINE k == [m EXCEPT !.goingAway = TRUE, !.sentGoAway = TRUE]
               f == NewFrame("GOAWAY", 0, NoObj, 0)
    <3>1. k \in Session /\ Same(m, k) /\ k.streams = m.streams /\ k.pendingOpen = m.pendingOpen
          /\ k.rl = m.rl
      BY <2>1, Zenon DEF Session, Same
    <3>2. f \in Frame /\ f.cmd = "GOAWAY"
      BY MuxAssumption DEF NewFrame, Frame, Command
    <3>3. mux' = [mux EXCEPT ![e] = EnqueueControl(k, f)]
      BY <2>7 DEF GoAway
    <3> HIDE DEF k, f
    <3>4. Recedes(k, EnqueueControl(k, f))
      BY <3>1, <3>2, <1>ControlRecedes, Zenon
    <3>5. Recedes(m, EnqueueControl(k, f))
      BY <3>1, <3>4, ZenonT(30) DEF Same, Recedes
    <3> QED BY <3>3, <3>5, Zenon
  <2>8. CASE Deliver(e)
    <3>1. CASE /\ Len(mux[e].acceptCh) < app.MaxConcurrentStreams
               /\ mux' = [mux EXCEPT ![e].acceptCh = Append(@, mux[e].rl.obj),
                                     ![e].rl = Reading]
      <4> DEFINE q == Append(m.acceptCh, m.rl.obj)
                 n == [m EXCEPT !.acceptCh = q, !.rl = Reading]
      <4>1. mux' = [mux EXCEPT ![e] = n]
        BY <3>1, <2>1, Zenon DEF Session
      <4>2. m.acceptCh \in Seq(Obj)
        BY <2>1, Zenon DEF Session
      <4>3. \A i \in DOMAIN q :
              q[i] = m.rl.obj \/ \E j \in DOMAIN m.acceptCh : q[i] = m.acceptCh[j]
        <5> HIDE DEF m
        <5>1. \A i \in DOMAIN Append(m.acceptCh, m.rl.obj) :
                \/ Append(m.acceptCh, m.rl.obj)[i] = m.rl.obj
                \/ \E j \in DOMAIN m.acceptCh :
                      Append(m.acceptCh, m.rl.obj)[i] = m.acceptCh[j]
          BY <4>2, AppendAccept
        <5> QED BY <5>1, Zenon
      <4>4. m.rl.pc = "accept"
        BY <2>8 DEF Deliver
      <4> HIDE DEF q
      <4>5. /\ n.count = m.count /\ n.data = m.data /\ n.control = m.control
            /\ n.acceptCh = q /\ n.closing = m.closing /\ n.wl = m.wl
            /\ n.rl = Reading /\ n.streams = m.streams /\ n.pendingOpen = m.pendingOpen
        BY <2>1 DEF Session
      <4> HIDE DEF n, m
      <4>6. Recedes(m, n)
        BY <4>3, <4>4, <4>5 DEF Recedes, Reading
      <4> QED BY <4>1, <4>6, Zenon
    <3>2. CASE mux' = [mux EXCEPT ![e].rl = Reading]
      <4>1. Reading.pc # "accept" BY DEF Reading
      <4>2. 1 \in Ids BY MuxAssumption DEF Ids
      <4>3. Recedes(m, [m EXCEPT !.rl = Reading])
        BY <4>1, <4>2, <2>1, <1>RemoveRecedes, Zenon
      <4> QED BY <3>2, <4>3, Zenon
    <3> QED BY <2>8, <3>1, <3>2, Zenon DEF Deliver
  <2>9. ASSUME m.rl.pc \notin {"read", "done"} PROVE m.rl.id \in Ids
    BY <2>9, <2>1, Zenon DEF GoodSession, GoodReader, Session
  <2>10. Reading.pc # "accept"
    BY DEF Reading
  <2>11. CASE RemoveClosed(e)
    <3>1. /\ mux' = [mux EXCEPT ![e] = [maybeRemoveStream(m, m.rl.id, obj[m.rl.obj])
                                       EXCEPT !.rl = Reading]]
          /\ m.rl.pc = "remove"
      BY <2>11 DEF RemoveClosed
    <3>2. Recedes(m, [maybeRemoveStream(m, m.rl.id, obj[m.rl.obj]) EXCEPT !.rl = Reading])
      BY <3>1, <2>1, <2>9, <2>10, <1>RemoveRecedes, Zenon
    <3> QED BY <3>1, <3>2, Zenon
  <2>12. CASE ResetTail(e)
    <3> DEFINE k == IF m.streams[m.rl.id] # NoObj THEN Remove(m, m.rl.id) ELSE m
    <3>1. mux' = [mux EXCEPT ![e] = [k EXCEPT !.rl = Reading]]
      BY <2>12 DEF ResetTail
    <3>2. m.rl.id \in Ids
      BY <2>12, <2>9 DEF ResetTail
    <3>3. /\ Recedes(m, [Remove(m, m.rl.id) EXCEPT !.rl = Reading])
          /\ Recedes(m, [m EXCEPT !.rl = Reading])
      BY <3>2, <2>1, <2>10, <1>RemoveRecedes, Zenon
    <3>4. Recedes(m, [k EXCEPT !.rl = Reading])
      BY <3>3
    <3> QED BY <3>1, <3>4, Zenon
  <2>13. CASE ReadError(e)
    <3> DEFINE k == [m EXCEPT !.rl.pc = "done"]
    <3>1. mux' = [mux EXCEPT ![e] = StartClose(k)]
      BY <2>13 DEF ReadError
    <3>2. k \in Session /\ Same(m, k) /\ k.streams = m.streams /\ k.pendingOpen = m.pendingOpen
      BY <2>1, Zenon DEF Session, Same, ReadPC
    <3>3. Recedes(m, k)
      BY <3>2, <1>SameRecedes, Zenon
    <3> QED BY <3>1, <3>2, <3>3, <1>StartCloseRecedes, Zenon
  <2>14. CASE WriteLoopExit(e)
    <3> DEFINE n == [m EXCEPT !.wl = "done"]
    <3>1. mux' = [mux EXCEPT ![e] = n]
      BY <2>14 DEF WriteLoopExit
    <3>2. /\ n.count = m.count /\ n.data = m.data /\ n.control = m.control
          /\ n.acceptCh = m.acceptCh /\ n.closing = m.closing /\ n.wl = "done"
          /\ n.rl = m.rl /\ n.streams = m.streams /\ n.pendingOpen = m.pendingOpen
      BY <2>1 DEF Session
    <3> HIDE DEF n, m
    <3>3. Recedes(m, n)
      BY <3>2, Zenon DEF Recedes
    <3> QED BY <3>1, <3>3, Zenon
  <2>15. CASE CloseTransport(e)
    <3> DEFINE n == [m EXCEPT !.closing = "closed"]
    <3>1. mux' = [mux EXCEPT ![e] = n]
      BY <2>15 DEF CloseTransport
    <3>2. /\ n.count = m.count /\ n.data = m.data /\ n.control = m.control
          /\ n.acceptCh = m.acceptCh /\ n.closing = "closed" /\ n.wl = m.wl
          /\ n.rl = m.rl /\ n.streams = m.streams /\ n.pendingOpen = m.pendingOpen
      BY <2>1 DEF Session
    <3> HIDE DEF n, m
    <3>3. Recedes(m, n)
      BY <3>2 DEF Recedes
    <3> QED BY <3>1, <3>3, Zenon
  <2>16. CASE WriteError(e)
    <3> DEFINE k == [Dequeue(m) EXCEPT !.wl = "done"]
    <3>1. mux' = [mux EXCEPT ![e] = StartClose(k)] /\ Queued(m)
      BY <2>16, Zenon DEF WriteError
    <3>2. m.control \in Seq(Frame) /\ m.data \in Seq(Frame)
      BY <2>1, Zenon DEF Session
    <3>3. CASE m.control # <<>>
      <4> DEFINE q == Tail(m.control)
      <4>1. q \in Seq(Frame) /\ \A i \in DOMAIN q : \E j \in DOMAIN m.control : q[i] = m.control[j]
        BY <3>2, <3>3, TailShift
      <4> HIDE DEF q
      <4>2. k = [m EXCEPT !.control = q, !.wl = "done"]
        BY <3>3, <2>1 DEF Dequeue, q, Session
      <4>3. k \in Session
        BY <4>1, <4>2, <2>1, Zenon DEF Session
      <4>4. /\ k.count = m.count /\ k.data = m.data /\ k.control = q
            /\ k.acceptCh = m.acceptCh /\ k.closing = m.closing /\ k.wl = "done"
            /\ k.rl = m.rl /\ k.streams = m.streams /\ k.pendingOpen = m.pendingOpen
        BY <4>1, <4>2, <2>1, Zenon DEF Session
      <4> HIDE DEF k, m
      <4>5. Recedes(m, k)
        BY <4>1, <4>4 DEF Recedes
      <4> QED BY <4>3, <4>5, <3>1, <1>StartCloseRecedes, Zenon
    <3>4. CASE m.control = <<>>
      <4> DEFINE q == Tail(m.data)
      <4>1. q \in Seq(Frame) /\ m.data # <<>>
        BY <3>1, <3>2, <3>4, TailShift DEF Queued
      <4>2. k = [m EXCEPT !.data = q, !.wl = "done"]
        BY <3>4, <2>1 DEF Dequeue, Session
      <4>3. k \in Session
        BY <4>1, <4>2, <2>1, Zenon DEF Session
      <4>4. /\ k.count = m.count /\ k.data = q /\ k.control = m.control
            /\ k.acceptCh = m.acceptCh /\ k.closing = m.closing /\ k.wl = "done"
            /\ k.rl = m.rl /\ k.streams = m.streams /\ k.pendingOpen = m.pendingOpen
        BY <4>1, <4>2, <2>1, Zenon DEF Session
      <4> HIDE DEF k, m
      <4>5. Recedes(m, k)
        BY <4>1, <4>4 DEF Recedes
      <4> QED BY <4>3, <4>5, <3>1, <1>StartCloseRecedes, Zenon
    <3> QED BY <3>3, <3>4
  <2> QED BY <2>4, <2>5, <2>6, <2>7, <2>8, <2>11, <2>12, <2>13, <2>14, <2>15, <2>16 DEF AppCall
\* Frames that the read loop handles without a stream.
<1>IgnoredPassive.
  ASSUME NEW e \in Endpoint, RejectOpen(e) \/ RecvGoAway(e)
  PROVE  Passive
  <2> USE <1>IgnoredPassive
  <2> DEFINE m == mux[e]
  <2>1. m \in Session /\ GoodSession(m, e, Used)
    BY DEF IndInv
  <2>2. Recedes(m, m)
    BY <1>SameRecedes DEF Same
  <2>3. CASE RecvGoAway(e)
    <3> DEFINE n == [m EXCEPT !.goingAway = TRUE]
    <3>1. /\ mux' = [mux EXCEPT ![e] = n] /\ obj' = obj /\ up' = up
          /\ \A d \in Endpoint : Drops(wire[d], wire'[d])
      BY <2>3, ReadDrops DEF RecvGoAway
    <3>2. Same(m, n) /\ n.streams = m.streams /\ n.pendingOpen = m.pendingOpen
      BY <2>1 DEF Session, Same
    <3>3. Recedes(m, n)
      BY <3>2, <1>SameRecedes, Zenon
    <3> QED BY <3>1, <3>3, <1>PassiveMux, Zenon
  <2>4. CASE RejectOpen(e)
    <3> DEFINE id == Head(wire[Peer(e)]).id
               f == NewFrame("RESET", id, NoObj, 0)
    <3>1. /\ obj' = obj /\ up' = up
          /\ \A d \in Endpoint : Drops(wire[d], wire'[d])
      BY <2>4, ReadDrops, Zenon DEF RejectOpen
    <3>2. mux' = mux \/ mux' = [mux EXCEPT ![e] = EnqueueControl(m, f)]
      BY <2>4, Zenon DEF RejectOpen
    <3>3. f \in Frame /\ f.cmd = "RESET"
      <4>1. Peer(e) \in Endpoint /\ wire[Peer(e)] \in Seq(Frame) /\ wire[Peer(e)] # <<>>
        BY <2>4, Zenon DEF RejectOpen, HasFrame, IndInv, Peer, Endpoint
      <4>2. id \in Ids \cup {0}
        BY <4>1, TailShift, Zenon DEF Frame
      <4> HIDE DEF id
      <4> QED BY <4>2, MuxAssumption DEF NewFrame, Frame, Command
    <3>4. Recedes(m, EnqueueControl(m, f))
      BY <2>1, <3>3, <1>ControlRecedes
    <3>5. \A d \in Endpoint : Recedes(mux[d], mux'[d])
      BY <3>2, <3>4, <1>MuxRecedes
    <3> QED BY <3>1, <3>5, <1>ObjEvolves DEF Passive
  <2> QED BY <2>3, <2>4
\* A step of one stream and of sessions that recede is passive.
<1>PassiveObj.
  ASSUME NEW o \in Obj, NEW t, Evolves(obj[o], t),
         obj' = [obj EXCEPT ![o] = t],
         t.ackCh \/ t.call \in {"queued", "ok"} =>
           obj[o].ackCh \/ obj[o].call \in {"queued", "ok"} \/ Known(o, obj),
         \A d \in Endpoint : Recedes(mux[d], mux'[d]) /\ Drops(wire[d], wire'[d]),
         up' = up
  PROVE  Passive
  <2> USE <1>PassiveObj
  <2>1. \A p \in Obj : Evolves(obj[p], obj'[p])
    BY <1>ObjEvolves
  <2>2. \A p \in Obj : obj'[p] = IF p = o THEN t ELSE obj[p]
    BY DEF IndInv
  <2> QED BY <2>1, <2>2 DEF Passive
\* Steps of one stream that leave its session and the transport alone.
<1>StreamPassive.
  ASSUME NEW o \in Obj,
         \/ WriteCheck(o) \/ WriterStep(o) \/ CloseLocal(o) \/ CloseNotify(o)
         \/ OnReset(o) \/ DrainFin(o) \/ DrainClosed(o) \/ DrainStop(o) \/ OpenAcked(o)
  PROVE  Passive
  <2> USE <1>StreamPassive
  <2> DEFINE s == obj[o]
  <2>1. s \in Stream /\ LifeCycle(s) /\ GoodStream(s, o[1], Used)
    BY PipeFacts, Zenon DEF Settled
  <2>2. s.wrote \in Nat /\ s.sent \in Nat /\ s.closedAt \in Nat
    BY <2>1, StreamNumbers, Zenon
  <2>3. /\ \A d \in Endpoint : Recedes(mux[d], mux'[d]) /\ Drops(wire[d], wire'[d])
        /\ up' = up
    BY <1>MuxRecedes DEF WriteCheck, WriterStep, WritePut, WriteAborted, CloseLocal, CloseNotify,
       OnReset, DrainFin, DrainClosed, DrainStop, OpenAcked
  <2>4. s.id # 0
    BY <2>1 DEF GoodStream, WriteCheck, WriterStep, WritePut, WriteAborted, CloseLocal, CloseNotify,
       OnReset, DrainFin, DrainClosed, DrainStop, OpenAcked
  <2> SUFFICES \E t : /\ Evolves(s, t) /\ obj' = [obj EXCEPT ![o] = t]
                      /\ t.ackCh \/ t.call \in {"queued", "ok"} =>
                           s.ackCh \/ s.call \in {"queued", "ok"}
    BY <2>3, <1>PassiveObj, Zenon
  <2>5. CASE WriteCheck(o)
    <3> DEFINE t == [s EXCEPT !.writing = TRUE]
    <3>1. obj' = [obj EXCEPT ![o] = t] BY <2>5 DEF WriteCheck
    <3>2. Evolves(s, t) /\ t.ackCh = s.ackCh /\ t.call = s.call
      BY <2>1, <2>2, <2>4, <2>5 DEF WriteCheck, Stream, Evolves, Kept, LifeCycle
    <3> QED BY <3>1, <3>2, Zenon
  <2>6. CASE WritePut(o)
    <3> DEFINE t == [s EXCEPT !.writing = FALSE, !.wrote = @ + 1]
    <3>1. obj' = [obj EXCEPT ![o] = t] BY <2>6, <2>1, Zenon DEF WritePut, Stream
    <3>2. Evolves(s, t) /\ t.ackCh = s.ackCh /\ t.call = s.call
      BY <2>1, <2>2, <2>4, <2>6 DEF WritePut, Stream, Evolves, Kept, LifeCycle
    <3> QED BY <3>1, <3>2, Zenon
  <2>7. CASE WriteAborted(o)
    <3> DEFINE t == [s EXCEPT !.writing = FALSE]
    <3>1. obj' = [obj EXCEPT ![o] = t] BY <2>7 DEF WriteAborted
    <3>2. Evolves(s, t) /\ t.ackCh = s.ackCh /\ t.call = s.call
      BY <2>1, <2>2, <2>4, <2>7 DEF WriteAborted, Stream, Evolves, Kept, LifeCycle
    <3> QED BY <3>1, <3>2, Zenon
  <2>8. CASE CloseLocal(o)
    <3> DEFINE st == IF s.state = "Open" THEN "HalfClosedLocal" ELSE "Closed"
               t == [s EXCEPT !.state = st, !.closer = "notify", !.closedAt = s.wrote]
    <3>1. obj' = [obj EXCEPT ![o] = t] BY <2>8, <2>1, Zenon DEF CloseLocal, Stream
    <3>2. /\ s.closer = "no" /\ s.call = "ok" /\ st \in {"HalfClosedLocal", "Closed"}
          /\ s.state \in {"Open", "HalfClosedRemote"}
          /\ st \in Eof <=> s.state \in Eof
      BY <2>8, <2>1 DEF CloseLocal, LifeCycle, Eof
    <3> HIDE DEF st
    <3>3. Evolves(s, t) /\ t.ackCh = s.ackCh /\ t.call = s.call
      BY <2>1, <2>2, <2>4, <3>2 DEF Stream, Evolves, Kept, LifeCycle
    <3> QED BY <3>1, <3>3, Zenon
  <2>9. CASE CloseNotify(o)
    <3> DEFINE t == [s EXCEPT !.closer = "remove", !.finCh = TRUE]
    <3>1. obj' = [obj EXCEPT ![o] = t] BY <2>9, <2>1, Zenon DEF CloseNotify, Stream
    <3>2. Evolves(s, t) /\ t.ackCh = s.ackCh /\ t.call = s.call
      BY <2>1, <2>2, <2>4, <2>9 DEF CloseNotify, Stream, Evolves, Kept, LifeCycle
    <3> QED BY <3>1, <3>2, Zenon
  <2>10. CASE OnReset(o)
    <3> DEFINE r == IF mux[o[1]].closing = "no" THEN "delete" ELSE "done"
               t == [s EXCEPT !.resetter = r]
    <3>1. obj' = [obj EXCEPT ![o] = t] BY <2>10 DEF OnReset
    <3>2. Evolves(s, t) /\ t.ackCh = s.ackCh /\ t.call = s.call
      BY <2>1, <2>2, <2>4 DEF Stream, Evolves, Kept, LifeCycle
    <3> QED BY <3>1, <3>2, Zenon
  <2>11. CASE DrainFin(o)
    <3> DEFINE t == [s EXCEPT !.finCh = FALSE, !.drain = "flush"]
    <3>1. obj' = [obj EXCEPT ![o] = t] BY <2>11, <2>1, Zenon DEF DrainFin, Stream
    <3>2. Evolves(s, t) /\ t.ackCh = s.ackCh /\ t.call = s.call
      BY <2>1, <2>2, <2>4, <2>11 DEF DrainFin, Stream, Evolves, Kept, LifeCycle
    <3> QED BY <3>1, <3>2, Zenon
  <2>12. CASE DrainClosed(o)
    <3> DEFINE d == IF s.state = "Reset" THEN "done" ELSE "await"
               t == [s EXCEPT !.drain = d]
    <3>1. obj' = [obj EXCEPT ![o] = t] BY <2>12 DEF DrainClosed
    <3>2. s.drain = "select" /\ d \in {"done", "await"} BY <2>12 DEF DrainClosed
    <3> HIDE DEF d
    <3>3. Evolves(s, t) /\ t.ackCh = s.ackCh /\ t.call = s.call
      BY <2>1, <2>2, <2>4, <3>2 DEF Stream, Evolves, Kept, LifeCycle
    <3> QED BY <3>1, <3>3, Zenon
  <2>13. CASE DrainStop(o)
    <3> DEFINE t == [s EXCEPT !.drain = "done"]
    <3>1. obj' = [obj EXCEPT ![o] = t] BY <2>13 DEF DrainStop
    <3>2. Evolves(s, t) /\ t.ackCh = s.ackCh /\ t.call = s.call
      BY <2>1, <2>2, <2>4, <2>13 DEF DrainStop, Stream, Evolves, Kept, LifeCycle
    <3> QED BY <3>1, <3>2, Zenon
  <2>14. CASE OpenAcked(o)
    <3> DEFINE t == [s EXCEPT !.call = "ok", !.ackCh = FALSE]
    <3>1. obj' = [obj EXCEPT ![o] = t] BY <2>14, <2>1, Zenon DEF OpenAcked, Stream
    <3>2. Evolves(s, t) /\ s.ackCh
      BY <2>1, <2>2, <2>4, <2>14 DEF OpenAcked, Stream, Evolves, Kept, LifeCycle
    <3> QED BY <3>1, <3>2, Zenon
  <2> QED BY <2>5, <2>6, <2>7, <2>8, <2>9, <2>10, <2>11, <2>12, <2>13, <2>14 DEF WriterStep
\* Reset() drops what is buffered, and changes nothing else of the pipe.
<1>ResetEvolves.
  ASSUME NEW s \in Stream, s.id # 0
  PROVE  /\ Evolves(s, ResetStream(s)) /\ Evolves(s, [ResetStream(s) EXCEPT !.resetter = "done"])
         /\ ResetStream(s).ackCh = s.ackCh /\ ResetStream(s).call = s.call
         /\ [ResetStream(s) EXCEPT !.resetter = "done"].ackCh = s.ackCh
         /\ [ResetStream(s) EXCEPT !.resetter = "done"].call = s.call
  <2> USE <1>ResetEvolves
  <2>0. s.sent \in Nat
    BY StreamNumbers
  <2>1. CASE s.state \in Terminal
    <3>1. ResetStream(s) = s BY <2>1 DEF ResetStream
    <3> QED BY <2>0, <3>1 DEF Evolves, Kept, Stream, LifeCycle
  <2>2. CASE s.state \notin Terminal
    <3> DEFINE b == <<>>
               t == [s EXCEPT !.state = "Reset", !.readBuf = b, !.resetter = "callback"]
               u == [t EXCEPT !.resetter = "done"]
    <3>1. ResetStream(s) = t BY <2>2 DEF ResetStream
    <3>2. /\ t.id = s.id /\ t.origin = s.origin /\ t.sent = s.sent /\ t.drain = s.drain
          /\ t.closer = s.closer /\ t.closedAt = s.closedAt /\ t.wrote = s.wrote
          /\ t.writing = s.writing /\ t.call = s.call /\ t.finCh = s.finCh
          /\ t.ackCh = s.ackCh /\ t.state = "Reset" /\ t.readBuf = b
      BY DEF Stream
    <3>3. /\ u.id = s.id /\ u.origin = s.origin /\ u.sent = s.sent /\ u.drain = s.drain
          /\ u.closer = s.closer /\ u.closedAt = s.closedAt /\ u.wrote = s.wrote
          /\ u.writing = s.writing /\ u.call = s.call /\ u.finCh = s.finCh
          /\ u.ackCh = s.ackCh /\ u.state = "Reset" /\ u.readBuf = b
      BY DEF Stream
    <3> HIDE DEF t, u
    <3>4. Evolves(s, t) BY <2>0, <3>2 DEF Evolves, Kept, LifeCycle
    <3>5. Evolves(s, u) BY <2>0, <3>3 DEF Evolves, Kept, LifeCycle
    <3> QED BY <3>1, <3>2, <3>3, <3>4, <3>5 DEF u
  <2> QED BY <2>1, <2>2
\* What changes of a stream is its call, its resetter or the tail of its closer.
<1>TailEvolves.
  ASSUME NEW s \in Stream, s.id # 0, NEW c, NEW v, NEW r
  PROVE  /\ s.closer # "no" => Evolves(s, [s EXCEPT !.closer = "done"])
         /\ Evolves(s, [s EXCEPT !.resetter = r])
         /\ Evolves(s, [s EXCEPT !.ackCh = TRUE])
         /\ s.call \in {"wait", "canceled", "removed"} /\ c \notin {"alloc"}
              => /\ Evolves(s, [s EXCEPT !.call = c])
                 /\ Evolves(s, [s EXCEPT !.call = c, !.victim = v])
         /\ Evolves(s, [s EXCEPT !.call = "ok"])
  <2> USE <1>TailEvolves
  <2>0. s.sent \in Nat
    BY StreamNumbers
  <2>1. s.closer # "no" => Evolves(s, [s EXCEPT !.closer = "done"])
    BY <2>0 DEF Stream, Evolves, Kept, LifeCycle
  <2>2. Evolves(s, [s EXCEPT !.resetter = r])
    BY <2>0 DEF Stream, Evolves, Kept, LifeCycle
  <2>3. Evolves(s, [s EXCEPT !.ackCh = TRUE])
    BY <2>0 DEF Stream, Evolves, Kept, LifeCycle
  <2>4. ASSUME s.call \in {"wait", "canceled", "removed"}, c \notin {"alloc"}
        PROVE  Evolves(s, [s EXCEPT !.call = c])
    BY <2>0, <2>4 DEF Stream, Evolves, Kept, LifeCycle
  <2>5. ASSUME s.call \in {"wait", "canceled", "removed"}, c \notin {"alloc"}
        PROVE  Evolves(s, [s EXCEPT !.call = c, !.victim = v])
    BY <2>0, <2>5 DEF Stream, Evolves, Kept, LifeCycle
  <2>6. Evolves(s, [s EXCEPT !.call = "ok"])
    BY <2>0 DEF Stream, Evolves, Kept, LifeCycle
  <2> QED BY <2>1, <2>2, <2>3, <2>4, <2>5, <2>6
\* cleanupPendingOpen.
<1>PendingRecedes.
  ASSUME NEW m \in Session, NEW id \in Ids
  PROVE  Recedes(m, [m EXCEPT !.pendingOpen[id] = NoObj])
  <2> DEFINE n == [m EXCEPT !.pendingOpen[id] = NoObj]
  <2>1. Same(m, n) /\ n.streams = m.streams /\ n.pendingOpen = [m.pendingOpen EXCEPT ![id] = NoObj]
    BY DEF Session, Same
  <2>2. m.pendingOpen \in [Ids -> Obj \cup {NoObj}]
    BY DEF Session
  <2> HIDE DEF n
  <2> QED BY <2>1, <2>2, <1>SameRecedes, Zenon DEF n
\* Steps of one stream, with its session.
<1>StreamMuxPassive.
  ASSUME NEW o \in Obj,
         \/ CloseRemove(o) \/ ResetLocal(o) \/ OnResetDelete(o) \/ SendReset(o)
         \/ OpenCanceled(o) \/ OpenClosed(o) \/ removeStream(o)
  PROVE  Passive
  <2> USE <1>StreamMuxPassive
  <2> DEFINE s == obj[o]
             m == mux[o[1]]
  <2>1. s \in Stream /\ GoodStream(s, o[1], Used) /\ o[1] \in Endpoint /\ m \in Session
    BY PipeFacts DEF IndInv
  <2>2. s.id # 0
    BY <2>1, Zenon DEF GoodStream, CloseRemove, ResetLocal, OnResetDelete, SendReset,
       OpenCanceled, OpenClosed, removeStream
  <2>3. s.id \in Ids
    BY <2>1, <2>2 DEF Stream
  <2>4. up' = up /\ \A d \in Endpoint : Drops(wire[d], wire'[d])
    BY <1>MuxRecedes, Zenon DEF CloseRemove, ResetLocal, OnResetDelete, SendReset,
       OpenCanceled, OpenClosed, removeStream
  <2> SUFFICES /\ \A d \in Endpoint : Recedes(mux[d], mux'[d])
               /\ \E t : /\ Evolves(s, t) /\ obj' = [obj EXCEPT ![o] = t]
                         /\ t.ackCh \/ t.call \in {"queued", "ok"} =>
                              s.ackCh \/ s.call \in {"queued", "ok"}
    BY <2>4, <1>PassiveObj, Zenon
  <2>5. Recedes(m, m)
    BY <1>SameRecedes DEF Same
  <2>6. CASE CloseRemove(o)
    <3> DEFINE t == [s EXCEPT !.closer = "done"]
    <3>1. obj' = [obj EXCEPT ![o] = t] BY <2>6 DEF CloseRemove
    <3>2. Evolves(s, t) BY <2>1, <2>2, <2>6, <1>TailEvolves, Zenon DEF CloseRemove
    <3>3. t.ackCh = s.ackCh /\ t.call = s.call BY <2>1 DEF Stream
    <3>4. mux' = [mux EXCEPT ![o[1]] = maybeRemoveStream(m, s.id, s)] BY <2>6 DEF CloseRemove
    <3>5. Recedes(m, maybeRemoveStream(m, s.id, s)) BY <2>1, <2>3, <1>RemoveRecedes, Zenon
    <3> QED BY <3>1, <3>2, <3>3, <3>4, <3>5, <2>1, <1>MuxRecedes, Zenon
  <2>7. CASE ResetLocal(o)
    <3>1. obj' = [obj EXCEPT ![o] = ResetStream(s)] /\ mux' = mux BY <2>7 DEF ResetLocal
    <3> QED BY <3>1, <2>1, <2>2, <1>ResetEvolves, <1>MuxRecedes, Zenon
  <2>8. CASE OnResetDelete(o)
    <3> DEFINE x == m.streams[s.id] # NoObj
               r == IF x THEN "send" ELSE "done"
               t == [s EXCEPT !.resetter = r]
               n == IF x THEN Remove(m, s.id) ELSE m
    <3>1. obj' = [obj EXCEPT ![o] = t] /\ mux' = [mux EXCEPT ![o[1]] = n]
      BY <2>8 DEF OnResetDelete
    <3>2. Evolves(s, t) BY <2>1, <2>2, <1>TailEvolves, Zenon
    <3>3. t.ackCh = s.ackCh /\ t.call = s.call BY <2>1 DEF Stream
    <3>4. Recedes(m, Remove(m, s.id)) BY <2>1, <2>3, <1>RemoveRecedes, Zenon
    <3>5. Recedes(m, n) BY <3>4, <2>5
    <3> HIDE DEF t, n, m
    <3>6. \A d \in Endpoint : Recedes(mux[d], mux'[d]) BY <3>1, <3>5, <2>1, <1>MuxRecedes,
                                                          Zenon
                                                         DEF m
    <3> QED BY <3>1, <3>2, <3>3, <3>6, Zenon
  <2>9. CASE SendReset(o)
    <3> DEFINE t == [s EXCEPT !.resetter = "done"]
               f == NewFrame("RESET", s.id, o, 0)
    <3>1. obj' = [obj EXCEPT ![o] = t] /\ mux' = [mux EXCEPT ![o[1]] = EnqueueControl(m, f)]
      BY <2>9 DEF SendReset
    <3>2. Evolves(s, t) BY <2>1, <2>2, <1>TailEvolves, Zenon
    <3>3. t.ackCh = s.ackCh /\ t.call = s.call BY <2>1 DEF Stream
    <3>4. f \in Frame /\ f.cmd = "RESET"
      BY <2>3, MuxAssumption DEF NewFrame, Frame, Command
    <3> HIDE DEF t, f, m
    <3>5. Recedes(m, EnqueueControl(m, f)) BY <3>4, <2>1, <1>ControlRecedes
    <3>6. \A d \in Endpoint : Recedes(mux[d], mux'[d]) BY <3>1, <3>5, <2>1, <1>MuxRecedes,
                                                          Zenon
                                                         DEF m
    <3> QED BY <3>1, <3>2, <3>3, <3>6, Zenon
  <2>10. CASE OpenCanceled(o) \/ OpenClosed(o)
    <3>0. PICK c \in {"canceled", "failed"} : /\ s.call = "wait"
                                              /\ obj' = [obj EXCEPT ![o].call = c]
      BY <2>10 DEF OpenCanceled, OpenClosed
    <3> DEFINE t == [s EXCEPT !.call = c]
               n == [m EXCEPT !.pendingOpen[s.id] = NoObj]
    <3>1. obj' = [obj EXCEPT ![o] = t] BY <3>0
    <3>2. mux' = [mux EXCEPT ![o[1]] = n] BY <2>10 DEF OpenCanceled, OpenClosed
    <3>3. Evolves(s, t) BY <3>0, <2>1, <2>2, <1>TailEvolves, Zenon
    <3>4. t.ackCh = s.ackCh /\ t.call = c BY <2>1 DEF Stream
    <3>5. Recedes(m, n) BY <2>1, <2>3, <1>PendingRecedes, Zenon
    <3> HIDE DEF t, n, m
    <3>6. \A d \in Endpoint : Recedes(mux[d], mux'[d]) BY <3>2, <3>5, <2>1, <1>MuxRecedes,
                                                          Zenon
                                                         DEF m
    <3> QED BY <3>1, <3>3, <3>4, <3>6, Zenon
  <2>11. CASE removeStream(o)
    <3> DEFINE p == m.streams[s.id]
               c == IF p # NoObj THEN "removed" ELSE "failed"
               t == [s EXCEPT !.call = c, !.victim = p]
               n == IF p # NoObj THEN Remove(m, s.id) ELSE m
    <3>1. obj' = [obj EXCEPT ![o] = t] BY <2>11, <2>1, Zenon DEF removeStream, Stream
    <3>2. mux' = [mux EXCEPT ![o[1]] = n] BY <2>11 DEF removeStream
    <3>3. s.call = "canceled" /\ c \in {"removed", "failed"} BY <2>11 DEF removeStream
    <3>4. t.ackCh = s.ackCh /\ t.call = c BY <2>1, Zenon DEF Stream
    <3>5. Recedes(m, Remove(m, s.id)) BY <2>1, <2>3, <1>RemoveRecedes, Zenon
    <3>6. Recedes(m, n) BY <3>5, <2>5
    <3>7. Evolves(s, t) BY <3>3, <2>1, <2>2, <1>TailEvolves, Zenon
    <3> HIDE DEF t, n, m, c
    <3>8. \A d \in Endpoint : Recedes(mux[d], mux'[d]) BY <3>2, <3>6, <2>1, <1>MuxRecedes,
                                                          Zenon
                                                         DEF m
    <3> QED BY <3>1, <3>3, <3>4, <3>7, <3>8, Zenon
  <2> QED BY <2>6, <2>7, <2>8, <2>9, <2>10, <2>11, Zenon
\* Two changes in one step.
<1>EvolvesTwice.
  ASSUME NEW s, NEW t, NEW u, Evolves(s, t), Evolves(t, u)
  PROVE  Evolves(s, u)
    BY <1>EvolvesTwice, Zenon DEF Evolves, Kept
\* removeStream of a canceled OpenStream resets what it found.
<1>CancelPassive.
  ASSUME NEW o \in Obj, CancelReset(o)
  PROVE  Passive
  <2> USE <1>CancelPassive
  <2> DEFINE s == obj[o]
             v == s.victim
             t == [s EXCEPT !.call = "failed"]
             g == [obj EXCEPT ![o] = t]
  <2>1. s \in Stream /\ GoodStream(s, o[1], Used) /\ s.call = "removed"
    BY PipeFacts DEF CancelReset
  <2>2. s.id # 0 /\ v \in Used
    BY <2>1 DEF GoodStream
  <2>3. v \in Obj /\ obj[v].id # 0 /\ obj \in [Obj -> Stream]
    BY <2>2 DEF Used, IndInv
  <2>4. t \in Stream /\ t.call = "failed" /\ t.ackCh = s.ackCh /\ t.id = s.id
    BY <2>1 DEF Stream
  <2>5. Evolves(s, t)
    BY <2>1, <2>2, <1>TailEvolves, Zenon
  <2> HIDE DEF t
  <2>6. /\ g \in [Obj -> Stream] /\ \A p \in Obj : Evolves(obj[p], g[p])
        /\ \A p \in Obj : /\ g[p].ackCh = obj[p].ackCh
                           /\ (g[p].call = obj[p].call \/ g[p].call = "failed")
        /\ g[v].id # 0
    BY <2>3, <2>4, <2>5, <1>ObjEvolves
  <2>7. obj' = [g EXCEPT ![v] = ResetStream(@)]
    BY DEF CancelReset, t
  <2> HIDE DEF g
  <2>8. \A p \in Obj : obj'[p] = IF p = v THEN ResetStream(g[v]) ELSE g[p]
    BY <2>6, <2>7
  <2>9. /\ Evolves(g[v], ResetStream(g[v]))
        /\ ResetStream(g[v]).ackCh = g[v].ackCh /\ ResetStream(g[v]).call = g[v].call
    BY <2>3, <2>6, <1>ResetEvolves, Zenon
  <2>10. Evolves(obj[v], ResetStream(g[v]))
    BY <2>3, <2>6, <2>9, <1>EvolvesTwice
  <2>11. \A p \in Obj : Evolves(obj[p], obj'[p])
    BY <2>6, <2>8, <2>10
  <2>12. \A p \in Obj : obj'[p].ackCh \/ obj'[p].call \in {"queued", "ok"} =>
                          obj[p].ackCh \/ obj[p].call \in {"queued", "ok"}
    BY <2>3, <2>6, <2>8, <2>9
  <2>13. up' = up /\ \A d \in Endpoint : Recedes(mux[d], mux'[d]) /\ Drops(wire[d], wire'[d])
    BY <1>MuxRecedes DEF CancelReset
  <2> QED BY <2>11, <2>12, <2>13 DEF Passive
\* The steps of readLoop and acceptLoop that move no data.
<1>ReaderPassive.
  ASSUME NEW e \in Endpoint, AcceptStream(e) \/ RecvAck(e) \/ RecvReset(e)
  PROVE  Passive
  <2> USE <1>ReaderPassive
  <2> DEFINE m == mux[e]
             f == Head(wire[Peer(e)])
  <2>1. m \in Session /\ GoodSession(m, e, Used) /\ NamedSession(m, e, obj)
    BY PipeFacts DEF IndInv
  <2>2. \A o \in Used : o \in Obj /\ obj[o].id # 0 /\ obj[o] \in Stream
    BY PipeFacts, Zenon
  <2>a. HasFrame(e, "ACK") \/ HasFrame(e, "RESET") => f.id \in Ids
    BY HeadFrame
  <2>3. CASE AcceptStream(e)
    <3> DEFINE o == Head(m.acceptCh)
               t == [obj[o] EXCEPT !.call = "ok"]
               n == [m EXCEPT !.acceptCh = Tail(@)]
    <3>1. m.acceptCh \in Seq(Obj) /\ m.acceptCh # <<>>
      BY <2>1, <2>3 DEF AcceptStream, Session
    <3>2. 1 \in DOMAIN m.acceptCh /\ o = m.acceptCh[1]
      BY <3>1, SMTT(20)
    <3>3. o \in Used /\ obj[o].origin # NoObj
      BY <3>2, <2>1 DEF GoodSession, NamedSession
    <3>4. o \in Obj /\ obj[o].id # 0 /\ obj[o] \in Stream /\ Settled(o, obj)
      BY <3>3, <2>2, PipeFacts, Zenon
    <3>5. Known(o, obj)
      <4>1. obj[o].origin \in Obj
        BY <3>3, <3>4, Zenon DEF Stream
      <4> QED BY <4>1, <3>3, <3>4, Zenon DEF Settled, Known
    <3>6. Evolves(obj[o], t)
      BY <3>4, <1>TailEvolves, Zenon
    <3>7. \A i \in DOMAIN Tail(m.acceptCh) :
              \E j \in DOMAIN m.acceptCh : Tail(m.acceptCh)[i] = m.acceptCh[j]
      BY <3>1
    <3>8. /\ n.count = m.count /\ n.data = m.data /\ n.control = m.control
          /\ n.acceptCh = Tail(m.acceptCh) /\ n.closing = m.closing /\ n.wl = m.wl
          /\ n.rl = m.rl /\ n.streams = m.streams /\ n.pendingOpen = m.pendingOpen
      BY <2>1 DEF Session
    <3>9. /\ obj' = [obj EXCEPT ![o] = t] /\ mux' = [mux EXCEPT ![e] = n]
          /\ up' = up /\ wire' = wire
      BY <2>3 DEF AcceptStream
    <3> HIDE DEF n, m, o, t
    <3>10. Recedes(m, n)
      BY <3>7, <3>8 DEF Recedes
    <3>11. \A d \in Endpoint : Recedes(mux[d], mux'[d]) /\ Drops(wire[d], wire'[d])
      BY <3>9, <3>10, <1>MuxRecedes, Zenon DEF m
    <3> QED BY <3>4, <3>5, <3>6, <3>9, <3>11, <1>PassiveObj, Zenon
  <2>4. CASE RecvAck(e)
    <3> DEFINE o == m.pendingOpen[f.id]
               n == [m EXCEPT !.pendingOpen[f.id] = NoObj]
               t == [obj[o] EXCEPT !.ackCh = TRUE]
    <3>1. HasFrame(e, "ACK") /\ ReadFrame(e) /\ up' = up
      BY <2>4, Zenon DEF RecvAck
    <3>2. f.id \in Ids
      BY <3>1, <2>a, Zenon
    <3>3. mux' = [mux EXCEPT ![e] = n] /\ Recedes(m, n)
      BY <2>4, <2>1, <3>2, <1>PendingRecedes, Zenon DEF RecvAck
    <3>4. \A d \in Endpoint : Recedes(mux[d], mux'[d]) /\ Drops(wire[d], wire'[d])
      BY <3>1, <3>3, <1>MuxRecedes, ReadDrops, Zenon
    <3>5. CASE o = NoObj
      <4>1. obj' = obj BY <2>4, <3>5 DEF RecvAck
      <4> QED BY <4>1, <3>1, <3>4, <1>ObjEvolves DEF Passive
    <3>6. CASE o # NoObj
      <4>1. obj' = [obj EXCEPT ![o] = t] BY <2>4, <3>6, Zenon DEF RecvAck
      <4>2. o \in Used
        BY <3>2, <3>6, <2>1 DEF GoodSession
      <4>3. o \in Obj /\ obj[o].id # 0 /\ obj[o] \in Stream
        BY <4>2, <2>2, Zenon
      <4>4. Known(o, obj)
        BY <4>3, <3>1, EntryLinked, Zenon
      <4>5. Evolves(obj[o], t)
        BY <4>3, <1>TailEvolves, Zenon
      <4> HIDE DEF o, t
      <4> QED BY <4>1, <4>3, <4>4, <4>5, <3>1, <3>4, <1>PassiveObj, Zenon
    <3> QED BY <3>5, <3>6
  <2>5. CASE RecvReset(e)
    <3> DEFINE o == m.streams[f.id]
               pc == IF obj[o].state \in Terminal THEN "tail" ELSE "inReset"
               r == [pc |-> pc, id |-> f.id, obj |-> o]
               n == [m EXCEPT !.rl = r]
    <3>1. HasFrame(e, "RESET") /\ ReadFrame(e) /\ up' = up
      BY <2>5, Zenon DEF RecvReset
    <3>2. f.id \in Ids
      BY <3>1, <2>a, Zenon
    <3>3. \A d \in Endpoint : Drops(wire[d], wire'[d])
      BY <3>1, ReadDrops
    <3>5. CASE o = NoObj
      <4>1. obj' = obj /\ mux' = mux BY <2>5, <3>5 DEF RecvReset
      <4> QED BY <4>1, <3>1, <3>3, <1>ObjEvolves, <1>MuxRecedes DEF Passive
    <3>6. CASE o # NoObj
      <4>1. obj' = [obj EXCEPT ![o] = ResetStream(obj[o])] /\ mux' = [mux EXCEPT ![e] = n]
        BY <2>5, <3>6, Zenon DEF RecvReset
      <4>2. o \in Used
        BY <3>2, <3>6, <2>1, Zenon DEF GoodSession
      <4>3. o \in Obj /\ obj[o].id # 0 /\ obj[o] \in Stream
        BY <4>2, <2>2, Zenon
      <4>4. r.pc # "accept"
        OBVIOUS
      <4> HIDE DEF r
      <4>5. Recedes(m, n)
        BY <4>4, <3>2, <2>1, <1>RemoveRecedes, Zenon
      <4>6. \A d \in Endpoint : Recedes(mux[d], mux'[d])
        BY <4>1, <4>5, <1>MuxRecedes, Zenon
      <4>7. /\ Evolves(obj[o], ResetStream(obj[o]))
            /\ ResetStream(obj[o]).ackCh = obj[o].ackCh /\ ResetStream(obj[o]).call = obj[o].call
        BY <4>3, <1>ResetEvolves, Zenon
      <4> HIDE DEF o, n
      <4> QED BY <4>1, <4>3, <4>6, <4>7, <3>1, <3>3, <1>PassiveObj, Zenon
    <3> QED BY <3>5, <3>6
  <2> QED BY <2>3, <2>4, <2>5
\* Close() resets every stream of the session.
<1>TeardownPassive.
  ASSUME NEW e \in Endpoint, CloseStreams(e)
  PROVE  Passive
  <2> USE <1>TeardownPassive
  <2> DEFINE m == mux[e]
             Live(o) == \E i \in Ids : m.streams[i] = o
             T(s) == [ResetStream(s) EXCEPT !.resetter = "done"]
             z == [i \in Ids |-> NoObj]
             n == [m EXCEPT !.closing = "torn", !.streams = z]
  <2>1. m \in Session /\ GoodSession(m, e, Used) /\ m.closing = "signalled"
    BY PipeFacts DEF IndInv, CloseStreams
  <2>2. mux' = [mux EXCEPT ![e] = n] /\ up' = up /\ wire' = wire
    BY <2>1, Zenon DEF CloseStreams, Session
  <2>3. \A i \in Ids : z[i] = NoObj
    OBVIOUS
  <2>4. /\ n.count = m.count /\ n.data = m.data /\ n.control = m.control
        /\ n.acceptCh = m.acceptCh /\ n.closing = "torn" /\ n.wl = m.wl
        /\ n.rl = m.rl /\ n.streams = z /\ n.pendingOpen = m.pendingOpen
    BY <2>1 DEF Session
  <2>5. Recedes(m, n)
    <3> HIDE DEF n, m, z
    <3> QED BY <2>1, <2>3, <2>4 DEF Recedes
  <2>6. \A d \in Endpoint : Recedes(mux[d], mux'[d]) /\ Drops(wire[d], wire'[d])
    BY <2>2, <2>5, <1>MuxRecedes, Zenon
  <2>7. \A o \in Obj : \/ obj'[o] = obj[o]
                       \/ Live(o) /\ obj'[o] = T(obj[o])
    BY DEF CloseStreams
  <2>8. \A o \in Obj : Live(o) => obj[o].id # 0 /\ obj[o] \in Stream
    BY <2>1, PipeFacts, NoObjFacts, Zenon DEF GoodSession
  <2>9. ASSUME NEW o \in Obj, Live(o)
        PROVE  /\ Evolves(obj[o], T(obj[o]))
               /\ T(obj[o]).ackCh = obj[o].ackCh /\ T(obj[o]).call = obj[o].call
    BY <2>8, <2>9, <1>ResetEvolves
  <2> HIDE DEF Live, T
  <2>10. \A o \in Obj : /\ Evolves(obj[o], obj'[o]) /\ obj'[o].ackCh = obj[o].ackCh
                        /\ obj'[o].call = obj[o].call
    BY <2>7, <2>9, <1>ObjEvolves
  <2> QED BY <2>2, <2>6, <2>10 DEF Passive
<1> QED BY <1>SessionPassive, <1>IgnoredPassive, <1>ReaderPassive, <1>TeardownPassive,
           <1>StreamPassive, <1>StreamMuxPassive, <1>CancelPassive DEF QuietSession, QuietStream

-----------------------------------------------------------------------------
\* The steps that move data

\* Chunks in flight when the write loop may end.
LEMMA FlightStop ==
  ASSUME NEW p, NEW n, NEW k, NEW w, NEW m, NEW m2, NEW u, InFlight(p, n, k, w, m, u),
         m2.data = m.data, m2.closing = m.closing, m2.wl \in {m.wl, "done"}
  PROVE  InFlight(p, n, k, w, m2, u)
  BY DEF InFlight, CanSend

\* The write loop and the loss of the connection keep what the pipe rests on.
LEMMA TransportPipe ==
  ASSUME IndInv, LinkInv, FinInv, FlowInv
  PROVE  Break \/ (\E e \in Endpoint : WriteLoop(e)) => LinkInv' /\ FinInv' /\ FlowInv'
\* A step that changes no stream and creates none.
<1>StillLink.
  ASSUME obj' = obj,
         \A e \in Endpoint : /\ mux'[e].count = mux[e].count
                             /\ NamedSession(mux'[e], e, obj)
                             /\ SentFrames(mux'[e].data, e, obj)
                             /\ SentFrames(wire'[e], e, obj)
  PROVE  LinkInv'
    BY <1>StillLink, NoObjFacts, Zenon DEF LinkInv, Fresh
\* The flow of chunks through a step that changes no stream.
<1>StillFlow.
  ASSUME obj' = obj,
         \A e \in Endpoint : mux'[e].streams = mux[e].streams,
         \A p \in Obj : \A n \in Nat :
           InFlight(p, n, obj[p].sent, wire[p[1]], mux[p[1]], up)
             => InFlight(p, n, obj[p].sent, wire'[p[1]], mux'[p[1]], up')
  PROVE  FlowInv'
  <2> USE <1>StillFlow
  <2>1. IDsUsedOnce' => IDsUsedOnce
    BY DEF IDsUsedOnce
  <2> SUFFICES ASSUME IDsUsedOnce, NEW o \in Obj, NEW p \in Obj,
                      Linked(o, p, obj), obj[o].state # "Reset"
               PROVE  Flow(o, p)'
    BY <2>1 DEF FlowInv
  <2>2. Flow(o, p)
    BY DEF FlowInv
  <2>3. Len(obj[o].readBuf) \in Nat /\ o[1] \in Endpoint
    BY NoObjFacts DEF IndInv, Stream
  <2> QED BY <2>2, <2>3 DEF Flow
\* The connection breaks.
<1>BreakPipe.
  ASSUME Break
  PROVE  LinkInv' /\ FinInv' /\ FlowInv'
  <2> USE <1>BreakPipe
  <2>1. /\ mux' = mux /\ obj' = obj /\ up' = FALSE
        /\ \A e \in Endpoint : wire'[e] = <<>>
    BY DEF Break
  <2>2. \A e \in Endpoint : SentFrames(<<>>, e, obj)
    BY SMTT(20) DEF SentFrames
  <2>3. LinkInv'
    BY <2>1, <2>2, PipeFacts, <1>StillLink, Zenon
  <2>4. FinOrder(<<>>) /\ \A p : ~HasFin(<<>>, p)
    BY DEF FinOrder, HasFin
  <2>5. FinInv'
    BY <2>1, <2>4 DEF FinInv
  <2>6. ASSUME NEW p \in Obj, NEW n \in Nat,
               InFlight(p, n, obj[p].sent, wire[p[1]], mux[p[1]], up)
        PROVE  InFlight(p, n, obj[p].sent, <<>>, mux[p[1]], up')
    <3>1. PICK a \in Nat : n <= a /\ a <= obj[p].sent
      BY <2>6 DEF InFlight, Reaches
    <3>2. n <= obj[p].sent
      BY <3>1, StreamNumbers DEF IndInv
    <3>3. Carries(<<>>, p, n, n)
      BY CarriesNothing
    <3>4. Reaches(<<>>, p, n, n, obj[p].sent, "optional")
      BY <3>2, <3>3, <2>4 DEF Reaches
    <3>5. ~CanSend(mux[p[1]], up')
      BY <2>1 DEF CanSend
    <3> QED BY <3>4, <3>5 DEF InFlight
  <2>7. ASSUME NEW p \in Obj, NEW n \in Nat,
               InFlight(p, n, obj[p].sent, wire[p[1]], mux[p[1]], up)
        PROVE  InFlight(p, n, obj[p].sent, wire'[p[1]], mux'[p[1]], up')
    BY <2>1, <2>6, <2>7, NoObjFacts
  <2>8. FlowInv'
    BY <2>1, <2>7, <1>StillFlow
  <2> QED BY <2>3, <2>5, <2>8
\* A frame leaves the queue q for the transport w.
<1>FlightWrite.
  ASSUME NEW p, NEW n \in Nat, NEW k \in Nat, NEW w \in Seq(Frame),
         NEW m, m.data \in Seq(Frame), NEW m2, NEW u, InFlight(p, n, k, w, m, u),
         CanSend(m, u), m2.closing = m.closing, NEW f \in Frame, FinOrder(m.data),
         \/ f.cmd \in {"RESET", "GOAWAY"} /\ m2.data = m.data
         \/ m.data # <<>> /\ f = Head(m.data) /\ m2.data = Tail(m.data)
  PROVE  InFlight(p, n, k, Append(w, f), m2, u)
  <2> USE <1>FlightWrite
  <2> DEFINE q == m.data
             v == Append(w, f)
  <2>1. PICK a \in Nat, b \in Nat : /\ Reaches(w, p, n, a, k, "optional")
                                    /\ Reaches(q, p, a, b, k, m.closing)
    BY DEF InFlight
  <2>2. /\ n <= a /\ a <= k /\ Carries(w, p, n, a) /\ (HasFin(w, p) => a = k)
        /\ a <= b /\ b <= k /\ Carries(q, p, a, b)
        /\ (m.closing = "no" \/ HasFin(q, p) => b = k)
    BY <2>1 DEF Reaches
  <2>3. \A x : HasFin(v, x) => HasFin(w, x) \/ FinOf(f, x)
    BY FinAppend
  <2> HIDE DEF v
  <2>4. CASE f.cmd \in {"RESET", "GOAWAY"} /\ m2.data = q
    <3>1. Carries(v, p, n, a) /\ ~FinOf(f, p)
      BY <2>2, <2>4, CarriesAppend DEF DataOf, FinOf, v
    <3>2. Reaches(v, p, n, a, k, "optional") /\ Reaches(m2.data, p, a, b, k, m2.closing)
      BY <2>2, <2>3, <2>4, <3>1, Zenon DEF Reaches
    <3> QED BY <3>2 DEF InFlight, v
  <2>5. CASE q # <<>> /\ f = Head(q) /\ m2.data = Tail(q)
    <3>0. \A x : HasFin(Tail(q), x) => HasFin(q, x)
      BY <2>5, FinTail
    <3>1. CASE DataOf(f, p)
      <4>1. f.seq = a + 1 /\ a + 1 <= b /\ Carries(Tail(q), p, a + 1, b)
        BY <2>2, <2>5, <3>1, CarriesTail, Zenon
      <4>2. Carries(v, p, n, a + 1) /\ ~FinOf(f, p)
        BY <2>2, <3>1, <4>1, CarriesAppend DEF FinOf, DataOf, v
      <4>3. ~HasFin(w, p)
        BY <2>2, <4>1
      <4>4. Reaches(v, p, n, a + 1, k, "optional")
        BY <2>2, <2>3, <4>1, <4>2, <4>3 DEF Reaches
      <4>5. Reaches(m2.data, p, a + 1, b, k, m2.closing)
        BY <2>2, <2>5, <3>0, <4>1, Zenon DEF Reaches
      <4> QED BY <4>4, <4>5 DEF InFlight, v
    <3>2. CASE ~DataOf(f, p)
      <4>1. Carries(Tail(q), p, a, b) /\ Carries(v, p, n, a)
        BY <2>2, <2>5, <3>2, CarriesTail, CarriesAppend, Zenon DEF v
      <4>2. FinOf(f, p) => a = k
        <5>1. FinOf(f, p) => a = b
          BY <2>2, <2>5, FinHead
        <5>2. FinOf(f, p) => HasFin(q, p)
          BY <2>5, TailShift DEF HasFin
        <5> QED BY <5>1, <5>2, <2>2
      <4>3. Reaches(v, p, n, a, k, "optional")
        BY <2>2, <2>3, <4>1, <4>2, Zenon DEF Reaches
      <4>4. Reaches(m2.data, p, a, b, k, m2.closing)
        BY <2>2, <2>5, <3>0, <4>1 DEF Reaches
      <4> QED BY <4>3, <4>4, Zenon DEF InFlight, v
    <3> QED BY <3>1, <3>2
  <2> QED BY <2>4, <2>5
\* writeLoop
<1>WriteLoopPipe.
  ASSUME NEW e \in Endpoint, WriteLoop(e)
  PROVE  LinkInv' /\ FinInv' /\ FlowInv'
  <2> USE <1>WriteLoopPipe
  <2> DEFINE m == mux[e]
             q == m.data
             w == wire[e]
             f == NextFrame(m)
             l == IF m.closing = "no" THEN "run" ELSE "done"
             n == [Dequeue(m) EXCEPT !.wl = l]
  <2>1. /\ mux' = [mux EXCEPT ![e] = n] /\ wire' = [wire EXCEPT ![e] = Append(w, f)]
        /\ obj' = obj /\ up' = up /\ CanSend(m, up) /\ Queued(m)
    BY DEF WriteLoop, CanSend
  <2>2. /\ m \in Session /\ NamedSession(m, e, obj) /\ GoodSession(m, e, Used)
        /\ q \in Seq(Frame) /\ w \in Seq(Frame) /\ m.control \in Seq(Frame)
        /\ SentFrames(q, e, obj) /\ SentFrames(w, e, obj)
    BY PipeFacts, Zenon DEF IndInv, Session
  <2>3. /\ \A d \in Endpoint : mux'[d] = IF d = e THEN n ELSE mux[d]
        /\ \A d \in Endpoint : wire'[d] = IF d = e THEN Append(w, f) ELSE wire[d]
    BY <2>1 DEF IndInv
  <2>4. /\ n.count = m.count /\ n.acceptCh = m.acceptCh /\ n.closing = m.closing
        /\ n.rl = m.rl /\ n.streams = m.streams /\ n.pendingOpen = m.pendingOpen
        /\ n.wl = l
    BY <2>2 DEF Session, Dequeue
  <2>5. \/ m.control # <<>> /\ f = Head(m.control) /\ n.control = Tail(m.control) /\ n.data = q
        \/ q # <<>> /\ f = Head(q) /\ n.control = m.control /\ n.data = Tail(q)
    BY <2>1, <2>2 DEF Session, Dequeue, NextFrame, Queued
  <2>6. f \in Frame
    BY <2>2, <2>5, TailShift
  <2>7. \/ f.cmd \in {"RESET", "GOAWAY"} /\ n.data = q
        \/ q # <<>> /\ f = Head(q) /\ n.data = Tail(q)
    BY <2>2, <2>5, TailShift DEF NamedSession
  <2> HIDE DEF n, f, l
  <2>8. \A i \in DOMAIN n.control : \E j \in DOMAIN m.control : n.control[i] = m.control[j]
    <3>1. m.control # <<>> => \A i \in DOMAIN Tail(m.control) :
                                \E j \in DOMAIN m.control : Tail(m.control)[i] = m.control[j]
      BY <2>2, TailShift
    <3>2. CASE n.control = m.control
      BY <3>2
    <3>3. CASE m.control # <<>> /\ n.control = Tail(m.control)
      BY <3>1, <3>3, Zenon
    <3> QED BY <2>5, <3>2, <3>3
  <2>9. NamedSession(n, e, obj)
    BY <2>2, <2>4, <2>8, Zenon DEF NamedSession
  <2>10. SentFrame(f, e, obj) /\ SentFrames(n.data, e, obj)
    <3>1. CASE f.cmd \in {"RESET", "GOAWAY"} /\ n.data = q
      BY <3>1, <2>2 DEF SentFrame
    <3>2. CASE q # <<>> /\ f = Head(q) /\ n.data = Tail(q)
      BY <3>2, <2>2, FramesTail, Zenon
    <3> QED BY <2>7, <3>1, <3>2, Zenon
  <2>11. SentFrames(Append(w, f), e, obj)
    BY <2>2, <2>6, <2>10, FramesAppend
  <2>12. LinkInv'
    <3>1. ASSUME NEW d \in Endpoint
          PROVE  /\ mux'[d].count = mux[d].count /\ NamedSession(mux'[d], d, obj)
                 /\ SentFrames(mux'[d].data, d, obj) /\ SentFrames(wire'[d], d, obj)
      <4>1. CASE d = e
        BY <4>1, <2>3, <2>4, <2>9, <2>10, <2>11, Zenon
      <4>2. CASE d # e
        BY <4>2, <2>3, PipeFacts, Zenon
      <4> QED BY <4>1, <4>2
    <3> QED BY <2>1, <3>1, <1>StillLink, Zenon
  <2>13. FinInv'
    <3>1. /\ FinOrder(w) /\ FinOrder(q)
          /\ \A i \in DOMAIN q : q[i].cmd = "DATA" => ~HasFin(w, q[i].src)
      BY Zenon DEF FinInv
    <3>2. f.cmd = "DATA" => ~HasFin(w, f.src)
      BY <2>2, <2>7, <3>1, TailShift
    <3>3. FinOrder(Append(w, f)) /\ \A p : HasFin(Append(w, f), p) => HasFin(w, p) \/ FinOf(f, p)
      BY <2>2, <2>6, <3>1, <3>2, FinAppend, Zenon
    <3>4. FinOrder(n.data)
      BY <2>2, <2>7, <3>1, FinTail, Zenon
    <3>5. \A i \in DOMAIN n.data : n.data[i].cmd = "DATA" => ~HasFin(w, n.data[i].src)
                                                             /\ ~FinOf(f, n.data[i].src)
      <4>1. CASE f.cmd \in {"RESET", "GOAWAY"} /\ n.data = q
        BY <4>1, <3>1, Zenon DEF FinOf
      <4>2. CASE q # <<>> /\ f = Head(q) /\ n.data = Tail(q)
        <5>1. /\ f = q[1] /\ 1 \in DOMAIN q
              /\ \A i \in DOMAIN n.data : n.data[i] = q[i + 1] /\ i + 1 \in DOMAIN q /\ 1 < i + 1
          BY <2>2, <4>2, TailShift
        <5> QED BY <5>1, <3>1, Zenon DEF FinOrder, FinOf
      <4> QED BY <4>1, <4>2, <2>7
    <3> QED BY <2>3, <3>3, <3>4, <3>5 DEF FinInv
  <2>14. ASSUME NEW p \in Obj, NEW k \in Nat,
                InFlight(p, k, obj[p].sent, wire[p[1]], mux[p[1]], up)
         PROVE  InFlight(p, k, obj[p].sent, wire'[p[1]], mux'[p[1]], up')
    <3>1. CASE p[1] # e
      BY <3>1, <2>1, <2>3, <2>14, NoObjFacts, Zenon
    <3>2. CASE p[1] = e
      <4>1. obj[p].sent \in Nat /\ FinOrder(q)
        BY PipeFacts, Zenon DEF FinInv
      <4>2. InFlight(p, k, obj[p].sent, w, m, up)
        BY <3>2, <2>14
      <4> HIDE DEF m, w
      <4>3. InFlight(p, k, obj[p].sent, Append(w, f), n, up)
        BY <4>1, <4>2, <2>1, <2>2, <2>4, <2>6, <2>7, <1>FlightWrite, Zenon
      <4> QED BY <3>2, <4>3, <2>1, <2>3
    <3> QED BY <3>1, <3>2, Zenon
  <2>15. FlowInv'
    BY <2>1, <2>3, <2>4, <2>14, <1>StillFlow, Zenon
  <2> QED BY <2>12, <2>13, <2>15
<1> QED BY <1>BreakPipe, <1>WriteLoopPipe
=============================================================================
