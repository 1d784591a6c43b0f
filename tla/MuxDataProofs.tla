--------------------------- MODULE MuxDataProofs ----------------------------
(***************************************************************************)
(* Theorems about the data path of MuxSession, for every value of its      *)
(* constants: no data behind a FIN, no chunk lost, repeated or reordered   *)
(* while IDs are not recycled, and the refinement of StreamPipe.           *)
(*                                                                         *)
(* They rest on PipeInv, which is inductive: the steps that move no data   *)
(* are in MuxQuietProofs, the others in MuxPipeProofs, and the part of it  *)
(* that is not about data, IndInv, in MuxSessionProofs.                    *)
(***************************************************************************)
EXTENDS MuxSessionProofs, MuxPipeProofs, MuxProperties

\* The invariant of the pipe

\* Before the first OpenStream nothing is on its way and no stream has an ID.
LEMMA InitPipe == Init => PipeInv
<1> SUFFICES ASSUME Init PROVE PipeInv
  OBVIOUS
<1>1. IndInv
  BY InitGood
<1>2. \A o \in Obj : obj[o] = NewStreamSession
  BY DEF Init
<1>3. \A o \in Obj : /\ obj[o].id = 0 /\ obj[o].wrote = 0 /\ obj[o].readBuf = <<>>
                     /\ obj[o].closer = "no" /\ obj[o].closedAt = 0 /\ obj[o].origin = NoObj
                     /\ obj[o].finCh = FALSE /\ obj[o].ackCh = FALSE
                     /\ obj[o].writing = FALSE /\ obj[o].state = "Idle"
                     /\ obj[o].call = "none" /\ obj[o].drain = "none"
  BY <1>2 DEF NewStreamSession
<1>4. \A e \in Endpoint :
        /\ \A i \in Ids : mux[e].streams[i] = NoObj /\ mux[e].pendingOpen[i] = NoObj
        /\ mux[e].acceptCh = <<>> /\ mux[e].control = <<>> /\ mux[e].data = <<>>
        /\ mux[e].rl.pc = "read" /\ wire[e] = <<>>
  BY DEF Init, NewMuxSession, Reading
<1>5. LinkInv
  <2>1. Fresh
    BY <1>2 DEF Fresh
  <2>2. ASSUME NEW e \in Endpoint PROVE NamedSession(mux[e], e, obj)
    BY <1>4 DEF NamedSession, OwnEntry
  <2>3. ASSUME NEW e \in Endpoint
        PROVE  SentFrames(mux[e].data, e, obj) /\ SentFrames(wire[e], e, obj)
    BY <1>4 DEF SentFrames
  <2>4. ASSUME NEW o \in Obj PROVE Settled(o, obj)
    <3>1. LifeCycle(obj[o])
      BY <1>3 DEF LifeCycle
    <3> QED BY <1>3, <3>1 DEF Settled, Eof
  <2> QED BY <2>1, <2>2, <2>3, <2>4, Zenon DEF LinkInv
<1>6. FinInv
  BY <1>4 DEF FinInv, FinOrder
<1>7. FlowInv
  BY <1>3 DEF FlowInv, Linked
<1> QED BY <1>1, <1>5, <1>6, <1>7, Zenon DEF PipeInv

\* Every step of the sessions, of the application and of the network keeps it.
LEMMA StepPipe == PipeInv /\ [Next]_vars => PipeInv'
<1> SUFFICES ASSUME PipeInv, [Next]_vars PROVE PipeInv'
  OBVIOUS
<1>1. IndInv /\ LinkInv /\ FinInv /\ FlowInv
  BY DEF PipeInv
<1>2. IndInv'
  BY <1>1, StepGood
<1>3. /\ \A e \in Endpoint : QuietSession(e) => LinkInv' /\ FinInv' /\ FlowInv'
      /\ \A o \in Obj : QuietStream(o) => LinkInv' /\ FinInv' /\ FlowInv'
  <2>1. ASSUME Passive PROVE LinkInv' /\ FinInv' /\ FlowInv'
    BY <1>1, <1>2, <2>1, PassiveLink, PassiveFin, PassiveFlow, Zenon
  <2> QED BY <1>1, <2>1, PassiveSteps
<1>4. CASE UNCHANGED vars
  <2>1. mux' = mux /\ obj' = obj /\ wire' = wire /\ up' = up
    BY <1>4 DEF vars
  <2>2. LinkInv'
    BY <1>1, <2>1, Zenon DEF LinkInv, Fresh
  <2>3. FinInv'
    BY <1>1, <2>1, Zenon DEF FinInv
  <2>4. FlowInv'
    BY <1>1, <2>1 DEF FlowInv, Flow, IDsUsedOnce
  <2> QED BY <1>2, <2>2, <2>3, <2>4, Zenon DEF PipeInv
<1>5. ASSUME NEW e \in Endpoint,
             \/ AppCall(e) \/ OpenStep(e) \/ AcceptStream(e)
             \/ ReadStep(e) \/ WriteStep(e) \/ CloseStep(e)
      PROVE  LinkInv' /\ FinInv' /\ FlowInv'
  <2>1. CASE AppCall(e)
    BY <1>3, <2>1 DEF QuietSession
  <2>2. CASE OpenStep(e)
    BY <1>1, <1>2, <1>3, <2>2, CreatorsPipe, Zenon DEF OpenStep, QuietSession
  <2>3. CASE AcceptStream(e)
    BY <1>3, <2>3 DEF QuietSession
  <2>4. CASE ReadStep(e)
    <3>1. CASE RecvAck(e) \/ RecvReset(e)
      BY <1>3, <3>1 DEF QuietSession
    <3>2. CASE RejectOpen(e) \/ RecvGoAway(e)
      BY <1>3, <3>2 DEF QuietSession
    <3>3. CASE Deliver(e) \/ RemoveClosed(e) \/ ResetTail(e) \/ ReadError(e)
      BY <1>3, <3>3 DEF QuietSession
    <3>4. CASE RecvData(e) \/ RecvClose(e)
      BY <1>1, <1>2, <3>4, ReceiversPipe, Zenon
    <3>5. CASE RecvOpen(e)
      BY <1>1, <1>2, <3>5, CreatorsPipe, Zenon
    <3> QED BY <2>4, <3>1, <3>2, <3>3, <3>4, <3>5, Zenon DEF ReadStep
  <2>5. CASE WriteStep(e)
    BY <1>1, <1>3, <2>5, TransportPipe, Zenon DEF WriteStep, QuietSession
  <2>6. CASE CloseStep(e)
    BY <1>3, <2>6, Zenon DEF CloseStep, QuietSession
  <2> QED BY <1>5, <2>1, <2>2, <2>3, <2>4, <2>5, <2>6, Zenon
<1>6. ASSUME NEW o \in Obj,
             \/ StreamCall(o) \/ OpenerStep(o) \/ WriterStep(o)
             \/ CloserStep(o) \/ ResetterStep(o) \/ DrainStep(o)
      PROVE  LinkInv' /\ FinInv' /\ FlowInv'
  <2>1. CASE StreamCall(o)
    BY <1>3, <2>1, Zenon DEF StreamCall, QuietStream
  <2>2. CASE OpenerStep(o)
    BY <1>1, <1>2, <1>3, <2>2, SendersPipe, Zenon DEF OpenerStep, QuietStream
  <2>3. CASE WriterStep(o)
    BY <1>3, <2>3 DEF QuietStream
  <2>4. CASE CloserStep(o)
    BY <1>3, <2>4 DEF CloserStep, QuietStream
  <2>5. CASE ResetterStep(o)
    BY <1>3, <2>5 DEF ResetterStep, QuietStream
  <2>6. CASE DrainStep(o)
    BY <1>1, <1>2, <1>3, <2>6, SendersPipe, Zenon DEF DrainStep, QuietStream
  <2> QED BY <1>6, <2>1, <2>2, <2>3, <2>4, <2>5, <2>6
<1>7. ASSUME Break PROVE LinkInv' /\ FinInv' /\ FlowInv'
  BY <1>1, <1>7, TransportPipe
<1>8. CASE Next
  BY <1>2, <1>5, <1>6, <1>7, <1>8, Zenon DEF Next, PipeInv
<1> QED BY <1>4, <1>8

\* The invariant of the pipe holds in every behaviour.
THEOREM PipeInductive == Spec => []PipeInv
  BY InitPipe, StepPipe, PTL DEF Spec

-----------------------------------------------------------------------------
\* What it says of the system

\* drainStream and flushAndFIN: wherever Write races with Close, no data frame
\* of a stream is queued or on its way behind the stream's STREAM_CLOSE+FIN.
THEOREM FinIsLast == Spec => []FinLast
<1>1. PipeInv => FinLast
  <2> SUFFICES ASSUME PipeInv, NEW e \in Endpoint,
                      NEW i \in DOMAIN (wire[e] \o mux[e].data),
                      NEW j \in DOMAIN (wire[e] \o mux[e].data),
                      i < j, (wire[e] \o mux[e].data)[i].cmd = "CLOSE",
                      (wire[e] \o mux[e].data)[j].cmd = "DATA"
               PROVE  (wire[e] \o mux[e].data)[i].src # (wire[e] \o mux[e].data)[j].src
    BY Zenon DEF FinLast
  <2> DEFINE w == wire[e]
             q == mux[e].data
             out == w \o q
  <2>1. w \in Seq(Frame) /\ q \in Seq(Frame)
    BY PipeFacts DEF PipeInv
  <2>2. /\ FinOrder(w) /\ FinOrder(q)
        /\ \A k \in DOMAIN q : q[k].cmd = "DATA" => ~HasFin(w, q[k].src)
    BY DEF PipeInv, FinInv
  <2>3. i \in DOMAIN out /\ j \in DOMAIN out /\ out[i].cmd = "CLOSE" /\ out[j].cmd = "DATA"
    BY Zenon
  <2> HIDE DEF w, q
  <2>4. /\ Len(w) \in Nat /\ Len(q) \in Nat /\ DOMAIN w = 1 .. Len(w)
        /\ DOMAIN q = 1 .. Len(q) /\ DOMAIN out = 1 .. Len(w) + Len(q)
        /\ \A k \in DOMAIN out : out[k] = IF k <= Len(w) THEN w[k] ELSE q[k - Len(w)]
    BY <2>1
  <2> HIDE DEF out
  <2>5. i \in Nat /\ j \in Nat /\ i >= 1 /\ j >= 1 /\ j <= Len(w) + Len(q)
    BY <2>3, <2>4
  <2>6. CASE j <= Len(w)
    <3>1. i \in DOMAIN w /\ j \in DOMAIN w /\ out[i] = w[i] /\ out[j] = w[j]
      BY <2>3, <2>4, <2>5, <2>6, SMTT(20)
    <3>2. out[i].src # out[j].src
      BY <2>2, <2>3, <3>1, Zenon DEF FinOrder
    <3> QED BY <3>2 DEF out, w, q
  <2>7. CASE j > Len(w) /\ i <= Len(w)
    <3>1. i \in DOMAIN w /\ j - Len(w) \in DOMAIN q /\ out[i] = w[i] /\ out[j] = q[j - Len(w)]
      BY <2>3, <2>4, <2>5, <2>7, SMTT(20)
    <3>2. out[i].src # out[j].src
      BY <2>2, <2>3, <3>1, Zenon DEF HasFin, FinOf
    <3> QED BY <3>2 DEF out, w, q
  <2>8. CASE i > Len(w)
    <3>1. /\ i - Len(w) \in DOMAIN q /\ j - Len(w) \in DOMAIN q /\ i - Len(w) < j - Len(w)
          /\ out[i] = q[i - Len(w)] /\ out[j] = q[j - Len(w)]
      BY <2>3, <2>4, <2>5, <2>8, SMTT(20)
    <3>2. out[i].src # out[j].src
      BY <2>2, <2>3, <3>1, Zenon DEF FinOrder
    <3> QED BY <3>2 DEF out, w, q
  <2>9. j <= Len(w) \/ (j > Len(w) /\ i <= Len(w)) \/ i > Len(w)
    BY <2>4, <2>5
  <2> QED BY <2>6, <2>7, <2>8, <2>9
<1> QED BY <1>1, PipeInductive, PTL

\* Write, drainStream, the queues, the loops and Read: as long as no ID was
\* recycled, each end reads its partner's chunks in order, each once, and after
\* the FIN it has every chunk of a Write that returned before Close() was called.
THEOREM NothingTruncated == Spec => []NoTruncation
\* The stream a peer's OPEN created and the stream that sent it are linked.
<1>PartnersLinked.
  ASSUME PipeInv, NEW o \in Obj, NEW p \in Obj, Partners(o, p)
  PROVE  Linked(o, p, obj)
  <2> USE <1>PartnersLinked
  <2>1. \A x \in Obj : obj[x].origin # NoObj => Linked(x, obj[x].origin, obj)
    BY DEF PipeInv, LinkInv, Settled
  <2>2. p # NoObj /\ o # NoObj
    BY NoObjFacts
  <2>3. CASE obj[o].origin = p
    BY <2>1, <2>2, <2>3, Zenon
  <2>4. CASE obj[p].origin = o
    <3>1. Linked(p, o, obj)
      BY <2>1, <2>2, <2>4, Zenon
    <3> QED BY <3>1 DEF Linked
  <2> QED BY <2>3, <2>4, Zenon DEF Partners
\* Two streams of one session with one ID are one stream, when no ID is reused.
<1>LinkedOnce.
  ASSUME IDsUsedOnce, NEW o \in Obj, NEW p \in Obj, NEW q \in Obj,
         Linked(o, p, obj), Linked(o, q, obj)
  PROVE  p = q
  <2> USE <1>LinkedOnce
  <2>1. o[1] \in Endpoint /\ p[1] \in Endpoint /\ q[1] \in Endpoint
    BY NoObjFacts
  <2>2. p[1] = q[1] /\ obj[p].id = obj[q].id /\ obj[p].id # 0
    BY <2>1 DEF Linked, Endpoint
  <2> QED BY <2>2 DEF IDsUsedOnce
<1>1. PipeInv => NoTruncation
  <2> SUFFICES ASSUME PipeInv, IDsUsedOnce, NEW o \in Obj, NEW p \in Obj, Partners(o, p)
               PROVE  /\ obj[o].state # "Reset" => \A i \in DOMAIN obj[o].readBuf :
                           obj[o].readBuf[i] = [src |-> p, seq |-> i]
                      /\ obj[o].state \in {"HalfClosedRemote", "Closed"} =>
                           /\ Len(obj[o].readBuf) = obj[p].sent
                           /\ obj[p].sent >= obj[p].closedAt
    BY DEF NoTruncation
  <2>1. Linked(o, p, obj)
    BY <1>PartnersLinked
  <2>2. obj[o].state # "Reset" => Flow(o, p)
    BY <2>1 DEF PipeInv, FlowInv
  <2>3. obj[o].readBuf \in Seq([src : Obj \cup {NoObj}, seq : 0 .. MaxWrites])
    BY Zenon DEF PipeInv, IndInv, Stream
  <2>4. ASSUME obj[o].state # "Reset", NEW i \in DOMAIN obj[o].readBuf
        PROVE  obj[o].readBuf[i] = [src |-> p, seq |-> i]
    <3> DEFINE rb == obj[o].readBuf
               c == rb[i]
               R == [src : Obj \cup {NoObj}, seq : 0 .. MaxWrites]
    <3>1. c \in R
      <4>1. rb \in Seq(R) /\ i \in DOMAIN rb
        BY <2>3, <2>4, Zenon
      <4> HIDE DEF rb, R
      <4> QED BY <4>1
    <3>2. c.src \in Obj /\ Linked(o, c.src, obj)
      BY <2>4, Zenon DEF PipeInv, LinkInv, Settled
    <3>3. c.seq = i
      BY <2>2, <2>4 DEF Flow
    <3> HIDE DEF c
    <3>4. c.src = p
      BY <2>1, <3>2, <1>LinkedOnce
    <3>5. c = [src |-> p, seq |-> i]
      BY <3>1, <3>3, <3>4, Zenon
    <3> QED BY <3>5 DEF c
  <2>5. ASSUME obj[o].state \in {"HalfClosedRemote", "Closed"}
        PROVE  Len(obj[o].readBuf) = obj[p].sent /\ obj[p].sent >= obj[p].closedAt
    <3>1. Flow(o, p) /\ obj[o].state \in Eof
      BY <2>2, <2>5 DEF Eof
    <3>2. Len(obj[o].readBuf) = obj[p].sent /\ obj[p].closedAt <= obj[p].sent
      BY <3>1 DEF Flow
    <3>3. obj[p].sent \in Nat /\ obj[p].closedAt \in Nat
      BY DEF PipeInv, IndInv, Stream
    <3> QED BY <3>2, <3>3
  <2> QED BY <2>4, <2>5
<1> QED BY <1>1, PipeInductive, PTL

-----------------------------------------------------------------------------
\* The refinement of StreamPipe

\* A step that is no Write and no Close() of stream s.
SameWriter(s, t) ==
  /\ t.wrote = s.wrote /\ t.closedAt = s.closedAt
  /\ t.closer # "no" <=> s.closer # "no"

\* A step that delivers nothing to stream s.
SameReader(s, t) ==
  \/ /\ t.readBuf = s.readBuf
     /\ t.state = "Reset" <=> s.state = "Reset"
     /\ t.state \in Eof <=> s.state \in Eof
  \/ t.readBuf = <<>> /\ t.state = "Reset"

\* A step of one stream.
LEMMA ObjWriter ==
  ASSUME IndInv, NEW o \in Obj, NEW t, SameWriter(obj[o], t), obj' = [obj EXCEPT ![o] = t]
  PROVE  \A x \in Obj : SameWriter(obj[x], obj'[x])
<1>1. \A x \in Obj : obj'[x] = IF x = o THEN t ELSE obj[x]
  BY DEF IndInv
<1> QED BY <1>1 DEF SameWriter

\* Reset is neither.
LEMMA ResetWriter ==
  ASSUME NEW s \in Stream
  PROVE  /\ SameWriter(s, ResetStream(s))
         /\ SameWriter(s, [ResetStream(s) EXCEPT !.resetter = "done"])
<1>1. CASE s.state \in Terminal
  <2>1. ResetStream(s) = s BY <1>1 DEF ResetStream
  <2> QED BY <2>1 DEF SameWriter, Stream
<1>2. CASE s.state \notin Terminal
  <2> DEFINE b == <<>>
             t == [s EXCEPT !.state = "Reset", !.readBuf = b, !.resetter = "callback"]
  <2>1. ResetStream(s) = t BY <1>2 DEF ResetStream
  <2> HIDE DEF b
  <2>2. SameWriter(s, t) /\ SameWriter(s, [t EXCEPT !.resetter = "done"])
    BY Zenon DEF SameWriter, Stream
  <2> QED BY <2>1, <2>2
<1> QED BY <1>1, <1>2

\* The steps of a stream's goroutines, but for the two.
LEMMA StreamWriter ==
  ASSUME IndInv, NEW o \in Obj,
         \/ WriteCheck(o) \/ WriteAborted(o) \/ ResetLocal(o) \/ OpenCanceled(o)
         \/ OpenerStep(o) \/ CloserStep(o) \/ ResetterStep(o) \/ DrainStep(o)
  PROVE  \A x \in Obj : SameWriter(obj[x], obj'[x])
<1> DEFINE s == obj[o]
<1>1. s \in Stream /\ obj \in [Obj -> Stream]
  BY DEF IndInv
<1>2. CASE WriteCheck(o)
  <2>1. obj' = [obj EXCEPT ![o] = [s EXCEPT !.writing = TRUE]] BY <1>2 DEF WriteCheck
  <2>2. SameWriter(s, [s EXCEPT !.writing = TRUE]) BY <1>1 DEF SameWriter, Stream
  <2> QED BY <2>1, <2>2, ObjWriter, Zenon
<1>3. CASE WriteAborted(o)
  <2>1. obj' = [obj EXCEPT ![o] = [s EXCEPT !.writing = FALSE]] BY <1>3 DEF WriteAborted
  <2>2. SameWriter(s, [s EXCEPT !.writing = FALSE]) BY <1>1 DEF SameWriter, Stream
  <2> QED BY <2>1, <2>2, ObjWriter, Zenon
<1>4. CASE ResetLocal(o)
  <2>1. obj' = [obj EXCEPT ![o] = ResetStream(s)] BY <1>4 DEF ResetLocal
  <2> QED BY <1>1, <2>1, ResetWriter, ObjWriter, Zenon
<1>5. CASE OpenCanceled(o) \/ OpenClosed(o)
  <2>1. PICK c \in {"canceled", "failed"} : obj' = [obj EXCEPT ![o] = [s EXCEPT !.call = c]]
    BY <1>5 DEF OpenCanceled, OpenClosed
  <2>2. SameWriter(s, [s EXCEPT !.call = c]) BY <1>1 DEF SameWriter, Stream
  <2> QED BY <2>1, <2>2, ObjWriter, Zenon
<1>6. CASE OpenSend(o)
  <2> DEFINE t == [s EXCEPT !.call = "wait", !.drain = "select"]
  <2>1. obj' = [obj EXCEPT ![o] = t] BY <1>6, OpenSendStep, Zenon
  <2>2. SameWriter(s, t) BY <1>1, Zenon DEF SameWriter, Stream
  <2> HIDE DEF t
  <2> QED BY <2>1, <2>2, ObjWriter, Zenon
<1>7. CASE OpenAcked(o)
  <2> DEFINE t == [s EXCEPT !.call = "ok", !.ackCh = FALSE]
  <2>1. obj' = [obj EXCEPT ![o] = t] BY <1>7, <1>1, Zenon DEF OpenAcked, Stream
  <2>2. SameWriter(s, t) BY <1>1, Zenon DEF SameWriter, Stream
  <2> HIDE DEF t
  <2> QED BY <2>1, <2>2, ObjWriter, Zenon
<1>8. CASE removeStream(o)
  <2> DEFINE p == mux[o[1]].streams[s.id]
             c == IF p # NoObj THEN "removed" ELSE "failed"
             t == [s EXCEPT !.call = c, !.victim = p]
  <2>1. obj' = [obj EXCEPT ![o] = t] BY <1>8, <1>1, Zenon DEF removeStream, Stream
  <2> HIDE DEF c, p
  <2>2. SameWriter(s, t) BY <1>1 DEF SameWriter, Stream
  <2> HIDE DEF t
  <2> QED BY <2>1, <2>2, ObjWriter, Zenon
<1>9. CASE CancelReset(o)
  <2> DEFINE v == s.victim
             t == [s EXCEPT !.call = "failed"]
             g == [obj EXCEPT ![o] = t]
  <2>1. obj' = [g EXCEPT ![v] = ResetStream(@)] BY <1>9 DEF CancelReset
  <2>2. t \in Stream /\ SameWriter(s, t)
    <3>1. t \in Stream BY <1>1, Zenon DEF Stream
    <3>2. SameWriter(s, t) BY <1>1 DEF SameWriter, Stream
    <3> QED BY <3>1, <3>2
  <2> HIDE DEF t
  <2>3. g \in [Obj -> Stream] /\ \A x \in Obj : SameWriter(obj[x], g[x])
    BY <1>1, <2>2 DEF SameWriter
  <2> HIDE DEF g
  <2>4. \A x \in Obj : obj'[x] = g[x] \/ obj'[x] = ResetStream(g[x])
    BY <2>1, <2>3
  <2>5. \A x \in Obj : SameWriter(g[x], obj'[x])
    <3>1. \A x \in Obj : SameWriter(g[x], ResetStream(g[x])) BY <2>3, ResetWriter, Zenon
    <3> QED BY <2>4, <3>1 DEF SameWriter
  <2> QED BY <2>3, <2>5 DEF SameWriter
<1>10. CASE CloseNotify(o)
  <2> DEFINE t == [s EXCEPT !.closer = "remove", !.finCh = TRUE]
  <2>1. obj' = [obj EXCEPT ![o] = t] /\ s.closer = "notify" BY <1>10, <1>1, Zenon
                                                              DEF CloseNotify, Stream
  <2>2. SameWriter(s, t) BY <1>1, <2>1 DEF SameWriter, Stream
  <2> HIDE DEF t
  <2> QED BY <2>1, <2>2, ObjWriter, Zenon
<1>11. CASE CloseRemove(o)
  <2>1. obj' = [obj EXCEPT ![o] = [s EXCEPT !.closer = "done"]] /\ s.closer = "remove"
    BY <1>11 DEF CloseRemove
  <2>2. SameWriter(s, [s EXCEPT !.closer = "done"]) BY <1>1, <2>1 DEF SameWriter, Stream
  <2> QED BY <2>1, <2>2, ObjWriter, Zenon
<1>12. CASE ResetterStep(o)
  <2>1. \E r : obj' = [obj EXCEPT ![o] = [s EXCEPT !.resetter = r]]
    BY <1>12, Zenon DEF ResetterStep, OnReset, OnResetDelete, SendReset
  <2>2. PICK r : obj' = [obj EXCEPT ![o] = [s EXCEPT !.resetter = r]]
    BY <2>1, Zenon
  <2>3. SameWriter(s, [s EXCEPT !.resetter = r]) BY <1>1 DEF SameWriter, Stream
  <2> QED BY <2>2, <2>3, ObjWriter, Zenon
<1>13. CASE DrainData(o)
  <2>1. obj' = [obj EXCEPT ![o] = [s EXCEPT !.sent = @ + 1]] BY <1>13 DEF DrainData
  <2>2. SameWriter(s, [s EXCEPT !.sent = @ + 1]) BY <1>1, Zenon DEF SameWriter, Stream
  <2> QED BY <2>1, <2>2, ObjWriter, Zenon
<1>14. CASE DrainFin(o)
  <2> DEFINE t == [s EXCEPT !.finCh = FALSE, !.drain = "flush"]
  <2>1. obj' = [obj EXCEPT ![o] = t] BY <1>14, <1>1, Zenon DEF DrainFin, Stream
  <2>2. SameWriter(s, t) BY <1>1 DEF SameWriter, Stream
  <2> HIDE DEF t
  <2> QED BY <2>1, <2>2, ObjWriter, Zenon
<1>15. CASE DrainClosed(o) \/ DrainFlushed(o) \/ DrainStop(o)
  <2>1. \E r : obj' = [obj EXCEPT ![o] = [s EXCEPT !.drain = r]]
    BY <1>15 DEF DrainClosed, DrainFlushed, DrainStop
  <2>2. PICK r : obj' = [obj EXCEPT ![o] = [s EXCEPT !.drain = r]]
    BY <2>1, Zenon
  <2>3. SameWriter(s, [s EXCEPT !.drain = r]) BY <1>1 DEF SameWriter, Stream
  <2> QED BY <2>2, <2>3, ObjWriter, Zenon
<1> QED BY <1>2, <1>3, <1>4, <1>5, <1>6, <1>7, <1>8, <1>9, <1>10, <1>11, <1>12, <1>13,
           <1>14, <1>15, Zenon DEF OpenerStep, CloserStep, DrainStep

\* The steps of a session: they write for no stream.
LEMMA SessionWriter ==
  ASSUME IndInv, LinkInv, NEW e \in Endpoint,
         \/ AppCall(e) \/ OpenStep(e) \/ AcceptStream(e)
         \/ ReadStep(e) \/ WriteStep(e) \/ CloseStep(e)
  PROVE  \A x \in Obj : SameWriter(obj[x], obj'[x])
<1> DEFINE m == mux[e]
           f == Head(wire[Peer(e)])
<1>1. /\ obj \in [Obj -> Stream] /\ m \in Session /\ \A x \in Obj : obj[x] \in Stream
  BY DEF IndInv
<1>2. CASE obj' = obj
  BY <1>2 DEF SameWriter
<1>3. CASE OpenAlloc(e) \/ RecvOpen(e)
  <2>1. PICK o \in Obj : \E t, n : Creates(o, t, n)
    BY <1>3, AllocCreates, AcceptCreates
  <2>2. PICK t, n : Creates(o, t, n)
    BY <2>1, Zenon
  <2>3. obj[o] = NewStreamSession /\ \A p \in Obj : obj'[p] = IF p = o THEN t ELSE obj[p]
    <3>1. obj[o] = NewStreamSession
      BY <2>2, CreateFacts, Zenon
    <3>2. \A p \in Obj : obj'[p] = IF p = o THEN t ELSE obj[p]
      BY <2>2, Zenon DEF Creates
    <3> QED BY <3>1, <3>2, Zenon
  <2>4. SameWriter(obj[o], t)
    BY <2>2, <2>3 DEF Creates, SameWriter, NewStreamSession
  <2> QED BY <2>3, <2>4, Zenon DEF SameWriter
<1>4. CASE AcceptStream(e)
  <2> DEFINE o == Head(m.acceptCh)
             t == [obj[o] EXCEPT !.call = "ok"]
  <2>1. m.acceptCh \in Seq(Obj) /\ m.acceptCh # <<>>
    BY <1>1, <1>4, Zenon DEF AcceptStream, Session
  <2>2. o \in Obj
    BY <2>1
  <2>3. obj' = [obj EXCEPT ![o] = t]
    BY <1>4 DEF AcceptStream
  <2> HIDE DEF o
  <2>4. SameWriter(obj[o], t)
    BY <1>1, <2>2, Zenon DEF SameWriter, Stream
  <2> HIDE DEF t
  <2> QED BY <2>2, <2>3, <2>4, ObjWriter, Zenon
<1>5. CASE RecvAck(e)
  <2> DEFINE o == m.pendingOpen[f.id]
             t == [obj[o] EXCEPT !.ackCh = TRUE]
  <2>1. HasFrame(e, "ACK")
    BY <1>5, Zenon DEF RecvAck
  <2>2. f.id \in Ids /\ m.pendingOpen \in [Ids -> Obj \cup {NoObj}]
    BY <1>1, <2>1, HeadFrame, SMTT(20) DEF Session
  <2>3. obj' = obj \/ (o # NoObj /\ obj' = [obj EXCEPT ![o] = t])
    BY <1>5, Zenon DEF RecvAck
  <2>4. ASSUME o # NoObj, obj' = [obj EXCEPT ![o] = t]
        PROVE  \A x \in Obj : SameWriter(obj[x], obj'[x])
    <3>1. o \in Obj
      BY <2>2, <2>4, Zenon
    <3> HIDE DEF o
    <3>2. SameWriter(obj[o], t)
      BY <1>1, <3>1 DEF SameWriter, Stream
    <3> HIDE DEF t
    <3> QED BY <2>4, <3>1, <3>2, ObjWriter, Zenon
  <2> QED BY <1>2, <2>3, <2>4, Zenon
<1>6. CASE RecvReset(e) \/ RecvData(e) \/ RecvClose(e)
  <2> DEFINE o == m.streams[f.id]
             c == [src |-> f.src, seq |-> f.seq]
  <2>1. HasFrame(e, "RESET") \/ HasFrame(e, "DATA") \/ HasFrame(e, "CLOSE")
    BY <1>6, RecvDataStep, RecvCloseStep, Zenon DEF RecvReset
  <2>2. f.id \in Ids /\ m.streams \in [Ids -> Obj \cup {NoObj}]
    BY <1>1, <2>1, HeadFrame DEF Session
  <2>3. \/ obj' = obj
        \/ o # NoObj /\ obj' = [obj EXCEPT ![o] = ResetStream(obj[o])]
        \/ o # NoObj /\ obj' = [obj EXCEPT ![o] = [obj[o] EXCEPT !.readBuf = Append(@, c)]]
        \/ o # NoObj /\ obj' = [obj EXCEPT ![o] = RemoteClose(obj[o])]
    <3>1. CASE RecvReset(e) BY <3>1, Zenon DEF RecvReset
    <3>2. CASE RecvData(e) BY <3>2, RecvDataStep, Zenon
    <3>3. CASE RecvClose(e) BY <3>3, RecvCloseStep, Zenon
    <3> QED BY <1>6, <3>1, <3>2, <3>3, Zenon
  <2>4. ASSUME o # NoObj
        PROVE  /\ o \in Obj /\ SameWriter(obj[o], ResetStream(obj[o]))
               /\ SameWriter(obj[o], [obj[o] EXCEPT !.readBuf = Append(@, c)])
               /\ SameWriter(obj[o], RemoteClose(obj[o]))
    <3>1. o \in Obj
      BY <2>2, <2>4
    <3> HIDE DEF o, c
    <3>2. SameWriter(obj[o], ResetStream(obj[o]))
      BY <1>1, <3>1, ResetWriter, Zenon
    <3>3. SameWriter(obj[o], [obj[o] EXCEPT !.readBuf = Append(@, c)])
      BY <1>1, <3>1, Zenon DEF SameWriter, Stream
    <3>4. SameWriter(obj[o], RemoteClose(obj[o]))
      BY <1>1, <3>1, RemoteCloseFields, Zenon DEF SameWriter
    <3> QED BY <3>1, <3>2, <3>3, <3>4, Zenon
  <2> HIDE DEF o, c
  <2> QED BY <1>2, <2>3, <2>4, ObjWriter, Zenon
<1>7. CASE CloseStreams(e)
  <2> DEFINE T(s) == [ResetStream(s) EXCEPT !.resetter = "done"]
  <2>1. \A x \in Obj : obj'[x] = obj[x] \/ obj'[x] = T(obj[x])
    BY <1>7 DEF CloseStreams
  <2>2. \A x \in Obj : SameWriter(obj[x], T(obj[x]))
    BY <1>1, ResetWriter
  <2> HIDE DEF T
  <2> QED BY <2>1, <2>2, Zenon DEF SameWriter
<1>8. CASE \/ AppCall(e) \/ OpenRefused(e) \/ Deliver(e) \/ RemoveClosed(e) \/ ResetTail(e)
           \/ ReadError(e) \/ WriteStep(e) \/ CloseTransport(e) \/ RejectOpen(e) \/ RecvGoAway(e)
  <2>1. obj' = obj
    BY <1>8, Zenon
      DEF AppCall, OpenCheck, Close, GoAway, OpenRefused, Deliver, RemoveClosed, ResetTail,
       ReadError, WriteStep, WriteLoop, WriteError, WriteLoopExit, CloseTransport, RejectOpen,
       RecvGoAway
  <2> QED BY <1>2, <2>1, Zenon
<1> QED BY <1>3, <1>4, <1>5, <1>6, <1>7, <1>8, Zenon DEF OpenStep, ReadStep, CloseStep

\* What sends a frame delivers nothing at its own end.
LEMMA SendersReader ==
  ASSUME IndInv, NEW o \in Obj, OpenSend(o) \/ DrainData(o) \/ DrainFlushed(o)
  PROVE  \A x \in Obj : SameReader(obj[x], obj'[x])
<1> DEFINE s == obj[o]
<1>1. s \in Stream /\ obj \in [Obj -> Stream]
  BY DEF IndInv
<1>2. PICK t : /\ obj' = [obj EXCEPT ![o] = t] /\ t.readBuf = s.readBuf /\ t.state = s.state
  <2>1. CASE OpenSend(o)
    <3> DEFINE t == [s EXCEPT !.call = "wait", !.drain = "select"]
    <3>1. obj' = [obj EXCEPT ![o] = t] BY <2>1, OpenSendStep, Zenon
    <3>2. t.readBuf = s.readBuf /\ t.state = s.state BY <1>1, Zenon DEF Stream
    <3> HIDE DEF t
    <3> QED BY <3>1, <3>2, Zenon
  <2>2. CASE DrainData(o)
    <3> DEFINE t == [s EXCEPT !.sent = @ + 1]
    <3>1. obj' = [obj EXCEPT ![o] = t] BY <2>2 DEF DrainData
    <3>2. t.readBuf = s.readBuf /\ t.state = s.state BY <1>1, Zenon DEF Stream
    <3> HIDE DEF t
    <3> QED BY <3>1, <3>2, Zenon
  <2>3. CASE DrainFlushed(o)
    <3> DEFINE t == [s EXCEPT !.drain = "done"]
    <3>1. obj' = [obj EXCEPT ![o] = t] BY <2>3 DEF DrainFlushed
    <3>2. t.readBuf = s.readBuf /\ t.state = s.state BY <1>1 DEF Stream
    <3> HIDE DEF t
    <3> QED BY <3>1, <3>2, Zenon
  <2> QED BY <2>1, <2>2, <2>3, Zenon
<1>3. \A x \in Obj : obj'[x] = IF x = o THEN t ELSE obj[x]
  BY <1>1, <1>2, Zenon
<1> QED BY <1>2, <1>3, Zenon DEF SameReader

\* All steps but those of readLoop that deliver data or the FIN.
LEMMA QuietReader ==
  ASSUME IndInv, LinkInv, Next, \A e \in Endpoint : ~RecvData(e) /\ ~RecvClose(e)
  PROVE  \A x \in Obj : SameReader(obj[x], obj'[x])
<1>1. /\ \A e \in Endpoint : QuietSession(e) => \A x \in Obj : SameReader(obj[x], obj'[x])
      /\ \A o \in Obj : QuietStream(o) => \A x \in Obj : SameReader(obj[x], obj'[x])
  <2>1. ASSUME Passive PROVE \A x \in Obj : SameReader(obj[x], obj'[x])
    BY <2>1 DEF Passive, Evolves, SameReader
  <2> QED BY <2>1, PassiveSteps, Zenon
<1>2. CASE obj' = obj
  BY <1>2 DEF SameReader
<1>3. ASSUME NEW e \in Endpoint, OpenAlloc(e) \/ RecvOpen(e)
      PROVE  \A x \in Obj : SameReader(obj[x], obj'[x])
  <2>1. PICK o \in Obj : \E t, n : Creates(o, t, n)
    BY <1>3, AllocCreates, AcceptCreates, Zenon
  <2>2. PICK t, n : Creates(o, t, n)
    BY <2>1, Zenon
  <2>3. obj[o] = NewStreamSession /\ \A p \in Obj : obj'[p] = IF p = o THEN t ELSE obj[p]
    <3>1. obj[o] = NewStreamSession
      BY <2>2, CreateFacts, Zenon
    <3>2. \A p \in Obj : obj'[p] = IF p = o THEN t ELSE obj[p]
      BY <2>2, Zenon DEF Creates
    <3> QED BY <3>1, <3>2, Zenon
  <2>4. SameReader(obj[o], t)
    BY <2>2, <2>3 DEF Creates, SameReader, NewStreamSession, Eof
  <2> QED BY <2>3, <2>4, Zenon DEF SameReader
<1>4. ASSUME NEW e \in Endpoint,
             \/ AppCall(e) \/ OpenStep(e) \/ AcceptStream(e)
             \/ ReadStep(e) \/ WriteStep(e) \/ CloseStep(e)
      PROVE  \A x \in Obj : SameReader(obj[x], obj'[x])
  <2>1. CASE AppCall(e)
    BY <1>1, <2>1, Zenon DEF QuietSession
  <2>2. CASE OpenStep(e)
    BY <1>1, <1>3, <2>2, Zenon DEF OpenStep, QuietSession
  <2>3. CASE AcceptStream(e)
    BY <1>1, <2>3, Zenon DEF QuietSession
  <2>4. CASE ReadStep(e)
    <3>1. CASE RecvAck(e) \/ RecvReset(e)
      BY <1>1, <3>1, Zenon DEF QuietSession
    <3>2. CASE RejectOpen(e) \/ RecvGoAway(e)
      BY <1>1, <3>2, Zenon DEF QuietSession
    <3>3. CASE Deliver(e) \/ RemoveClosed(e) \/ ResetTail(e) \/ ReadError(e)
      BY <1>1, <3>3, Zenon DEF QuietSession
    <3>4. CASE RecvOpen(e)
      BY <1>3, <3>4
    <3> QED BY <2>4, <3>1, <3>2, <3>3, <3>4, Zenon DEF ReadStep
  <2>5. CASE WriteStep(e)
    <3>1. obj' = obj
      BY <2>5, Zenon DEF WriteStep, WriteLoop, WriteError, WriteLoopExit
    <3> QED BY <1>2, <3>1
  <2>6. CASE CloseStep(e)
    BY <1>1, <2>6, Zenon DEF CloseStep, QuietSession
  <2> QED BY <1>4, <2>1, <2>2, <2>3, <2>4, <2>5, <2>6
<1>5. ASSUME NEW o \in Obj,
             \/ StreamCall(o) \/ OpenerStep(o) \/ WriterStep(o)
             \/ CloserStep(o) \/ ResetterStep(o) \/ DrainStep(o)
      PROVE  \A x \in Obj : SameReader(obj[x], obj'[x])
  <2>1. CASE OpenSend(o) \/ DrainData(o) \/ DrainFlushed(o)
    BY <2>1, SendersReader, Zenon
  <2>2. CASE \/ WriteCheck(o) \/ WriterStep(o) \/ CloseLocal(o) \/ CloseNotify(o)
             \/ OnReset(o) \/ DrainFin(o) \/ DrainClosed(o) \/ DrainStop(o) \/ OpenAcked(o)
    BY <1>1, <2>2, Zenon DEF QuietStream
  <2>3. CASE \/ CloseRemove(o) \/ ResetLocal(o) \/ OnResetDelete(o) \/ SendReset(o)
             \/ OpenCanceled(o) \/ OpenClosed(o) \/ removeStream(o)
    BY <1>1, <2>3, Zenon DEF QuietStream
  <2>4. CASE CancelReset(o)
    BY <1>1, <2>4, Zenon DEF QuietStream
  <2> QED BY <1>5, <2>1, <2>2, <2>3, <2>4, Zenon
             DEF StreamCall, OpenerStep, CloserStep, ResetterStep, DrainStep
<1>6. CASE Break
  BY <1>2, <1>6, Zenon DEF Break
<1> QED BY <1>4, <1>5, <1>6, Zenon DEF Next

\* The direction of a stream that p writes and o reads takes a step of
\* StreamPipe, or none.
Moves(o, p) ==
  LET AtRest == Chunks(o)' = Chunks(o) /\ EndOf(o)' = EndOf(o)
      Still == SameWriter(obj[p], obj'[p])
      closed == obj[p].closer # "no"
  IN  \/ /\ obj'[p].wrote = obj[p].wrote + 1 /\ obj'[p].closedAt = obj[p].closedAt
         /\ obj'[p].closer # "no" <=> closed
         /\ AtRest
      \/ /\ ~closed /\ obj'[p].closer # "no"
         /\ obj'[p].closedAt = obj[p].wrote /\ obj'[p].wrote = obj[p].wrote
         /\ AtRest
      \/ /\ Still /\ EndOf(o) = "open" /\ EndOf(o)' = "open"
         /\ Len(Chunks(o)) < obj[p].wrote
         /\ Chunks(o)' = Append(Chunks(o), Len(Chunks(o)) + 1)
      \/ /\ Still /\ EndOf(o) = "open" /\ EndOf(o)' = "eof"
         /\ closed /\ Len(Chunks(o)) >= obj[p].closedAt
         /\ Chunks(o)' = Chunks(o)
      \/ Still /\ EndOf(o)' = "reset" /\ Chunks(o)' = <<>>
      \/ Still /\ AtRest

\* A step that delivers nothing to the reader leaves the pipe's far end alone, or
\* aborts it.
LEMMA ReaderMoves ==
  ASSUME NEW o \in Obj, SameReader(obj[o], obj'[o])
  PROVE  \/ Chunks(o)' = Chunks(o) /\ EndOf(o)' = EndOf(o)
         \/ EndOf(o)' = "reset" /\ Chunks(o)' = <<>>
<1>1. CASE obj'[o].state = "Reset"
  BY <1>1, Zenon DEF Chunks, EndOf
<1>2. CASE obj'[o].state # "Reset"
  <2>1. /\ obj'[o].readBuf = obj[o].readBuf /\ obj[o].state # "Reset"
        /\ obj'[o].state \in {"HalfClosedRemote", "Closed"}
             <=> obj[o].state \in {"HalfClosedRemote", "Closed"}
    BY <1>2, Zenon DEF SameReader, Eof
  <2> QED BY <1>2, <2>1 DEF Chunks, EndOf
<1> QED BY <1>1, <1>2, Zenon

\* A data or FIN frame moves the pipe on by the next chunk, or by its end.
LEMMA ReceiveMoves ==
  ASSUME PipeInv, PipeInv', IDsUsedOnce'
  PROVE  \A e \in Endpoint : \A o, p \in Obj :
           /\ RecvData(e) \/ RecvClose(e)
           /\ o # p /\ \A q \in Obj : Linked(o, q, obj') => q = p
           => Moves(o, p)
\* Chunks that came in order are the numbers from 1.
<1>ChunkSeq.
  ASSUME NEW S, NEW n \in Nat, DOMAIN S = 1 .. n, \A i \in DOMAIN S : S[i].seq = i
  PROVE  LET c == [i \in DOMAIN S |-> S[i].seq] IN
         c = [i \in 1 .. n |-> i] /\ c \in Seq(Nat) /\ Len(c) = n
  <2> USE <1>ChunkSeq
  <2> DEFINE c == [i \in DOMAIN S |-> S[i].seq]
  <2>1. c = [i \in 1 .. n |-> i]
    OBVIOUS
  <2> HIDE DEF c
  <2>2. c \in Seq(Nat) /\ Len(c) = n
    BY <2>1
  <2> QED BY <2>1, <2>2, Zenon DEF c
\* The next chunk.
<1>NextChunk.
  ASSUME NEW n \in Nat
  PROVE  [i \in 1 .. n + 1 |-> i] = Append([i \in 1 .. n |-> i], n + 1)
  <2> DEFINE c == [i \in 1 .. n |-> i]
             d == [i \in 1 .. n + 1 |-> i]
  <2>1. c \in Seq(Nat) /\ Len(c) = n /\ d \in Seq(Nat) /\ Len(d) = n + 1
    OBVIOUS
  <2>2. \A i \in 1 .. n + 1 : d[i] = Append(c, n + 1)[i]
    <3>1. \A i \in 1 .. n + 1 : d[i] = i
      OBVIOUS
    <3>2. \A i \in 1 .. n : c[i] = i
      OBVIOUS
    <3> HIDE DEF c, d
    <3>3. \A i \in 1 .. n + 1 : Append(c, n + 1)[i] = IF i = n + 1 THEN n + 1 ELSE c[i]
      BY <2>1
    <3> QED BY <2>1, <3>1, <3>2, <3>3
  <2>3. Append(c, n + 1) \in Seq(Nat) /\ Len(Append(c, n + 1)) = n + 1
    BY <2>1
  <2> HIDE DEF c, d
  <2>4. d = Append(c, n + 1)
    BY <2>1, <2>2, <2>3
  <2> QED BY <2>4 DEF c, d
\* A FIN never reopens a stream.
<1>EofStays.
  ASSUME IndInv, LinkInv, NEW e \in Endpoint, RecvClose(e), NEW x \in Obj, obj[x].state \in Eof
  PROVE  obj'[x].state \in Eof
  <2> USE <1>EofStays
  <2> DEFINE o == mux[e].streams[Head(wire[Peer(e)]).id]
  <2>1. obj' = obj \/ (o # NoObj /\ obj' = [obj EXCEPT ![o] = RemoteClose(obj[o])])
    BY RecvCloseStep, Zenon
  <2>2. obj \in [Obj -> Stream] /\ obj[x] \in Stream
    BY DEF IndInv
  <2> HIDE DEF o
  <2>3. obj'[x] = obj[x] \/ obj'[x] = RemoteClose(obj[x])
    BY <2>1, <2>2, Zenon
  <2>4. RemoteClose(obj[x]).state = obj[x].state
    BY <2>2, RemoteCloseFields DEF Eof
  <2> QED BY <2>3, <2>4, Zenon
<1> SUFFICES ASSUME NEW e \in Endpoint, RecvData(e) \/ RecvClose(e),
                    NEW o \in Obj, NEW p \in Obj, o # p,
                    \A q \in Obj : Linked(o, q, obj') => q = p
             PROVE  Moves(o, p)
  OBVIOUS
<1> DEFINE f == Head(wire[Peer(e)])
           x == mux[e].streams[f.id]
           s == obj[o]
           t == obj'[o]
<1>0. IndInv /\ LinkInv /\ FlowInv /\ FlowInv' /\ IndInv'
  BY DEF PipeInv
<1>1. SameWriter(obj[p], obj'[p])
  BY <1>0, SessionWriter, Zenon DEF ReadStep
<1>2. PICK cmd \in {"DATA", "CLOSE"} :
        /\ Receives(e, cmd) /\ (cmd = "CLOSE" => RecvClose(e))
        /\ \A q \in Obj : GoesOn(q, obj, obj')
  <2>1. CASE RecvData(e)
    <3>1. Receives(e, "DATA") /\ \A q \in Obj : GoesOn(q, obj, obj')
      BY <1>0, <2>1, RecvReceives, Zenon
    <3> QED BY <3>1
  <2>2. CASE RecvClose(e)
    <3>1. Receives(e, "CLOSE") /\ \A q \in Obj : GoesOn(q, obj, obj')
      BY <1>0, <2>2, RecvReceives, Zenon
    <3> QED BY <2>2, <3>1, Zenon
  <2> QED BY <2>1, <2>2, Zenon
<1>3. HasFrame(e, cmd) /\ f.cmd = cmd
  BY <1>2, Zenon DEF Receives, HasFrame
<1>4. \A q \in Obj : IF q = x THEN Got(obj[q], obj'[q], f) ELSE obj'[q] = obj[q]
  BY <1>2, Zenon DEF Receives
<1>5. CASE o # x
  <2>1. obj'[o] = obj[o]
    BY <1>4, <1>5
  <2>2. Chunks(o)' = Chunks(o) /\ EndOf(o)' = EndOf(o)
    BY <2>1 DEF Chunks, EndOf
  <2> QED BY <1>1, <2>2, Zenon DEF Moves
<1>6. CASE o = x
  <2>1. Got(s, t, f) /\ obj'[p] = obj[p]
    BY <1>4, <1>6, Zenon
  <2>2. f.src \in Obj /\ Linked(o, f.src, obj)
    BY <1>0, <1>3, <1>6, EntryLinked, Zenon
  <2>3. Linked(o, p, obj') /\ Linked(o, p, obj)
    <3>1. \A q \in Obj : obj'[q].id = obj[q].id
      BY <1>2, Zenon DEF GoesOn
    <3>2. Linked(o, f.src, obj')
      BY <2>2, <3>1, Zenon DEF Linked
    <3>3. f.src = p
      BY <2>2, <3>2, Zenon
    <3> QED BY <2>2, <3>2, <3>3, Zenon
  <2>4. IDsUsedOnce
    <3>1. \A q \in Obj : obj'[q].id = obj[q].id
      BY <1>2 DEF GoesOn
    <3> QED BY <3>1 DEF IDsUsedOnce
  <2>5. s.state # "Reset" => Flow(o, p)
    BY <1>0, <2>3, <2>4, Zenon DEF FlowInv
  <2>6. t.state # "Reset" => Flow(o, p)'
    BY <1>0, <2>3, Zenon DEF FlowInv
  <2>7. /\ s.readBuf \in Seq([src : Obj \cup {NoObj}, seq : 0 .. MaxWrites])
        /\ obj[p].sent \in Nat /\ obj[p].wrote \in Nat /\ obj[p].sent <= obj[p].wrote
        /\ obj[p].closedAt \in Nat
    BY <1>0, PipeFacts, StreamNumbers, Zenon DEF Stream, GoodStream
  <2> DEFINE n == Len(s.readBuf)
  <2>8. n \in Nat /\ DOMAIN s.readBuf = 1 .. n
    BY <2>7
  <2>9. CASE s.state = "Reset" /\ t.state = "Reset"
    <3>1. Chunks(o)' = Chunks(o) /\ EndOf(o)' = EndOf(o)
      BY <2>9, Zenon DEF Chunks, EndOf
    <3> QED BY <1>1, <3>1 DEF Moves
  <2>10. s.state = "Reset" <=> t.state = "Reset"
    BY <1>3, <2>1 DEF Got
  <2>11. CASE s.state # "Reset" /\ t.state # "Reset"
    <3>1. /\ \A i \in DOMAIN s.readBuf : s.readBuf[i].seq = i
          /\ \A i \in DOMAIN t.readBuf : t.readBuf[i].seq = i
      BY <2>5, <2>6, <2>11, Zenon DEF Flow
    <3>2. /\ s.state \in Eof => n = obj[p].sent
          /\ t.state \in Eof => /\ Len(t.readBuf) = obj[p].sent
                                /\ obj[p].closedAt <= obj[p].sent /\ obj[p].closer # "no"
      BY <2>1, <2>5, <2>6, <2>11, Zenon DEF Flow
    <3>3. Chunks(o) = [i \in DOMAIN s.readBuf |-> s.readBuf[i].seq]
      BY <2>11, Zenon DEF Chunks
    <3>4. Chunks(o)' = [i \in DOMAIN t.readBuf |-> t.readBuf[i].seq]
      BY <2>11 DEF Chunks
    <3>5. Chunks(o) = [i \in 1 .. n |-> i] /\ Len(Chunks(o)) = n
      <4> DEFINE b == s.readBuf
      <4>1. DOMAIN b = 1 .. n /\ n \in Nat /\ \A i \in DOMAIN b : b[i].seq = i
        BY <2>8, <3>1, Zenon
      <4>2. Chunks(o) = [i \in DOMAIN b |-> b[i].seq]
        BY <3>3, Zenon
      <4> HIDE DEF b, n
      <4> QED BY <4>1, <4>2, <1>ChunkSeq, Zenon
    <3>6. CASE cmd = "DATA"
      <4> DEFINE c == [src |-> f.src, seq |-> f.seq]
      <4>1. t.readBuf = Append(s.readBuf, c) /\ t.state = s.state
        BY <1>3, <2>1, <3>6, Zenon DEF Got
      <4>2. DOMAIN t.readBuf = 1 .. n + 1 /\ Len(t.readBuf) = n + 1
        <5> HIDE DEF c
        <5> QED BY <2>7, <4>1
      <4>3. Chunks(o)' = [i \in 1 .. n + 1 |-> i]
        <5> DEFINE b == t.readBuf
                   k == n + 1
        <5>1. DOMAIN b = 1 .. k /\ k \in Nat /\ \A i \in DOMAIN b : b[i].seq = i
          BY <2>8, <3>1, <4>2
        <5>2. Chunks(o)' = [i \in DOMAIN b |-> b[i].seq]
          BY <3>4
        <5> HIDE DEF b, k
        <5>3. Chunks(o)' = [i \in 1 .. k |-> i]
          BY <5>1, <5>2, <1>ChunkSeq, Zenon
        <5> QED BY <5>3, Zenon DEF k
      <4>4. Chunks(o)' = Append(Chunks(o), Len(Chunks(o)) + 1)
        <5> HIDE DEF n
        <5> QED BY <2>8, <3>5, <4>3, <1>NextChunk, Zenon
      <4>5. n + 1 <= obj[p].sent
        <5>1. f.seq <= obj[f.src].sent /\ f.src = p
          <6>1. SentFrame(f, Peer(e), obj)
            BY <1>0, <1>3, HeadFrame, Zenon
          <6>2. f.seq <= obj[f.src].sent
            BY <1>3, <3>6, <6>1, Zenon DEF SentFrame
          <6>3. Linked(o, f.src, obj')
            <7>1. \A q \in Obj : obj'[q].id = obj[q].id
              BY <1>2 DEF GoesOn
            <7> QED BY <2>2, <7>1 DEF Linked
          <6> QED BY <2>2, <6>2, <6>3, Zenon
        <5>2. t.readBuf[n + 1] = c
          <6> HIDE DEF c
          <6> QED BY <2>7, <4>1
        <5>3. n + 1 \in DOMAIN t.readBuf
          BY <2>8, <4>2
        <5>4. c.seq = n + 1
          BY <3>1, <5>2, <5>3, Zenon
        <5>5. f.seq = n + 1
          BY <5>4, Zenon
        <5> QED BY <5>1, <5>5, Zenon
      <4>6. s.state \notin Eof
        BY <2>7, <2>8, <3>2, <4>5, SMTT(20)
      <4>7. EndOf(o) = "open" /\ EndOf(o)' = "open"
        BY <2>11, <4>1, <4>6, Zenon DEF EndOf, Eof
      <4>8. Len(Chunks(o)) < obj[p].wrote
        BY <2>7, <2>8, <3>5, <4>5, SMTT(20)
      <4> QED BY <1>1, <4>4, <4>7, <4>8, Zenon DEF Moves
    <3>7. CASE cmd = "CLOSE"
      <4>1. t.readBuf = s.readBuf
        BY <1>3, <2>1, <3>7, Zenon DEF Got
      <4>2. Chunks(o)' = Chunks(o)
        BY <3>3, <3>4, <4>1, Zenon
      <4>3. CASE s.state \in Eof
        <5>1. t.state \in Eof
          BY <1>0, <1>2, <3>7, <4>3, <1>EofStays, Zenon
        <5>2. EndOf(o)' = EndOf(o)
          BY <2>11, <4>3, <5>1, Zenon DEF EndOf, Eof
        <5> QED BY <1>1, <4>2, <5>2, Zenon DEF Moves
      <4>4. CASE s.state \notin Eof /\ t.state \notin Eof
        <5>1. EndOf(o)' = EndOf(o)
          BY <2>11, <4>4, Zenon DEF EndOf, Eof
        <5> QED BY <1>1, <4>2, <5>1 DEF Moves
      <4>5. CASE s.state \notin Eof /\ t.state \in Eof
        <5>1. EndOf(o) = "open" /\ EndOf(o)' = "eof"
          BY <2>11, <4>5, Zenon DEF EndOf, Eof
        <5>2. obj[p].closer # "no" /\ Len(Chunks(o)) >= obj[p].closedAt
          BY <2>7, <2>8, <3>2, <3>5, <4>1, <4>5, SMTT(20)
        <5> QED BY <1>1, <4>2, <5>1, <5>2, Zenon DEF Moves
      <4> QED BY <4>3, <4>4, <4>5, Zenon
    <3> QED BY <3>6, <3>7, Zenon
  <2> QED BY <2>9, <2>10, <2>11, Zenon
<1> QED BY <1>5, <1>6, Zenon

\* Write and Close() move the pipe on at the writer's end.
LEMMA WriterMoves ==
  ASSUME PipeInv, NEW x \in Obj, WritePut(x) \/ CloseLocal(x),
         NEW o \in Obj, NEW p \in Obj, o # p, SameReader(obj[o], obj'[o])
  PROVE  Moves(o, p)
<1> DEFINE s == obj[x]
<1>1. /\ s \in Stream /\ obj \in [Obj -> Stream] /\ LifeCycle(s) /\ s.wrote \in Nat
      /\ s.closedAt \in Nat
  BY PipeFacts, StreamNumbers, Zenon DEF PipeInv, IndInv, Settled
<1>2. PICK t :
        /\ obj' = [obj EXCEPT ![x] = t]
        /\ \/ /\ t.wrote = s.wrote + 1 /\ t.closedAt = s.closedAt /\ t.closer = s.closer
           \/ /\ s.closer = "no" /\ t.closer # "no"
              /\ t.closedAt = s.wrote /\ t.wrote = s.wrote
  <2>1. CASE WritePut(x)
    <3> DEFINE t == [s EXCEPT !.writing = FALSE, !.wrote = @ + 1]
    <3>1. obj' = [obj EXCEPT ![x] = t] BY <2>1, <1>1, Zenon DEF WritePut, Stream
    <3>2. t.wrote = s.wrote + 1 /\ t.closedAt = s.closedAt /\ t.closer = s.closer
      BY <1>1 DEF Stream
    <3> HIDE DEF t
    <3> QED BY <3>1, <3>2, Zenon
  <2>2. CASE CloseLocal(x)
    <3> DEFINE st == IF s.state = "Open" THEN "HalfClosedLocal" ELSE "Closed"
               t == [s EXCEPT !.state = st, !.closer = "notify", !.closedAt = s.wrote]
    <3>1. obj' = [obj EXCEPT ![x] = t] BY <2>2, <1>1, Zenon DEF CloseLocal, Stream
    <3>2. s.closer = "no" BY <2>2, <1>1 DEF CloseLocal, LifeCycle
    <3> HIDE DEF st
    <3>3. t.closer # "no" /\ t.closedAt = s.wrote /\ t.wrote = s.wrote
      BY <1>1, Zenon DEF Stream
    <3> HIDE DEF t
    <3> QED BY <3>1, <3>2, <3>3, Zenon
  <2> QED BY <2>1, <2>2, Zenon
<1>3. \A y \in Obj : obj'[y] = IF y = x THEN t ELSE obj[y]
  BY <1>1, <1>2, Zenon
<1>4. CASE x = p
  <2>1. obj'[o] = obj[o] /\ obj'[p] = t
    BY <1>3, <1>4, Zenon
  <2>2. Chunks(o)' = Chunks(o) /\ EndOf(o)' = EndOf(o)
    BY <2>1, Zenon DEF Chunks, EndOf
  <2> QED BY <1>2, <1>4, <2>1, <2>2, Zenon DEF Moves
<1>5. CASE x # p
  <2>1. SameWriter(obj[p], obj'[p])
    BY <1>3, <1>5, Zenon DEF SameWriter
  <2> QED BY <2>1, ReaderMoves, Zenon DEF Moves
<1> QED BY <1>4, <1>5, Zenon

\* Every step of the two sessions is a step of the pipe, or none.
LEMMA PipeMoves ==
  ASSUME PipeInv, PipeInv', IDsUsedOnce', [Next]_vars,
         NEW o \in Obj, NEW p \in Obj, o # p, \A q \in Obj : Linked(o, q, obj') => q = p
  PROVE  Moves(o, p)
<1>0. IndInv /\ LinkInv
  BY Zenon DEF PipeInv
<1>1. CASE UNCHANGED vars
  <2>1. obj' = obj
    BY <1>1 DEF vars
  <2> QED BY <2>1 DEF Moves, Chunks, EndOf, SameWriter
<1>2. ASSUME NEW e \in Endpoint, RecvData(e) \/ RecvClose(e)
      PROVE  Moves(o, p)
  BY <1>2, ReceiveMoves, Zenon
<1>3. ASSUME Next, \A e \in Endpoint : ~RecvData(e) /\ ~RecvClose(e)
      PROVE  Moves(o, p)
  <2>1. SameReader(obj[o], obj'[o])
    BY <1>0, <1>3, QuietReader, Zenon
  <2>2. ASSUME NEW x \in Obj, WritePut(x) \/ CloseLocal(x)
        PROVE  Moves(o, p)
    BY <2>1, <2>2, WriterMoves, Zenon
  <2>3. ASSUME SameWriter(obj[p], obj'[p])
        PROVE  Moves(o, p)
    BY <2>1, <2>3, ReaderMoves, Zenon DEF Moves
  <2>4. CASE Break
    <3>1. obj' = obj
      BY <2>4, Zenon DEF Break
    <3> QED BY <2>3, <3>1, Zenon DEF SameWriter
  <2>5. ASSUME NEW e \in Endpoint,
               \/ AppCall(e) \/ OpenStep(e) \/ AcceptStream(e)
               \/ ReadStep(e) \/ WriteStep(e) \/ CloseStep(e)
        PROVE  Moves(o, p)
    BY <1>0, <2>3, <2>5, SessionWriter, Zenon
  <2>6. ASSUME NEW x \in Obj,
               \/ StreamCall(x) \/ OpenerStep(x) \/ WriterStep(x)
               \/ CloserStep(x) \/ ResetterStep(x) \/ DrainStep(x)
        PROVE  Moves(o, p)
    <3>1. CASE WritePut(x) \/ CloseLocal(x)
      BY <2>2, <3>1, Zenon
    <3>2. CASE \/ WriteCheck(x) \/ WriteAborted(x) \/ ResetLocal(x) \/ OpenCanceled(x)
               \/ OpenerStep(x) \/ CloserStep(x) \/ ResetterStep(x) \/ DrainStep(x)
      BY <1>0, <2>3, <3>2, StreamWriter, Zenon
    <3> QED BY <2>6, <3>1, <3>2, Zenon DEF StreamCall, WriterStep
  <2> QED BY <1>3, <2>4, <2>5, <2>6, Zenon DEF Next
<1> QED BY <1>1, <1>2, <1>3, Zenon

\* The pipe that p writes and o reads.
Pipe(o, p) == INSTANCE StreamPipe WITH
  written <- obj[p].wrote, closed <- obj[p].closer # "no", closedAt <- obj[p].closedAt,
  received <- Chunks(o), end <- EndOf(o)

\* Moves says what it should.
LEMMA MovesPipe ==
  ASSUME NEW o \in Obj, NEW p \in Obj, Moves(o, p)
  PROVE  [Pipe(o, p)!Next]_(Pipe(o, p)!pipe)
  BY Zenon DEF Moves, SameWriter, Pipe!Next, Pipe!Write, Pipe!Close, Pipe!Arrive, Pipe!Eof,
     Pipe!Abort, Pipe!pipe

\* However many streams there are: while no ID is used twice, each direction of
\* each stream that has been accepted does only what StreamPipe does: a chunk
\* that arrives is the next one, and the end of file comes after every chunk
\* whose Write returned before Close().
THEOREM EveryStreamIsAPipe ==
  Spec => [][\A o, p \in Obj :
               IDsUsedOnce' /\ Partners(o, p)' => [Pipe(o, p)!Next]_(Pipe(o, p)!pipe)]_vars
<1>1. ASSUME PipeInv, PipeInv', [Next]_vars
      PROVE  \A o, p \in Obj :
               IDsUsedOnce' /\ Partners(o, p)' => [Pipe(o, p)!Next]_(Pipe(o, p)!pipe)
  <2> SUFFICES ASSUME NEW o \in Obj, NEW p \in Obj, IDsUsedOnce', Partners(o, p)'
               PROVE  Moves(o, p)
    BY MovesPipe, Zenon
  <2>1. Linked(o, p, obj')
    <3>1. \A x \in Obj : obj'[x].origin # NoObj => Linked(x, obj'[x].origin, obj')
      BY <1>1, Zenon DEF PipeInv, LinkInv, Settled
    <3>2. obj'[o].origin = p \/ obj'[p].origin = o
      BY Zenon DEF Partners
    <3>3. Linked(o, p, obj') \/ Linked(p, o, obj')
      BY <3>1, <3>2, NoObjFacts, Zenon
    <3> QED BY <3>3, Zenon DEF Linked
  <2>2. o # p
    BY <2>1, Zenon DEF Linked
  <2>3. ASSUME NEW q \in Obj, Linked(o, q, obj')
        PROVE  q = p
    <3>1. o[1] \in Endpoint /\ p[1] \in Endpoint /\ q[1] \in Endpoint
      BY NoObjFacts, Zenon
    <3>2. p[1] = q[1] /\ obj'[p].id = obj'[q].id /\ obj'[p].id # 0
      BY <2>1, <2>3, <3>1, Zenon DEF Linked, Endpoint
    <3> QED BY <3>2 DEF IDsUsedOnce
  <2> QED BY <1>1, <2>2, <2>3, PipeMoves, Zenon
<1> QED BY <1>1, PipeInductive, PTL DEF Spec

\* Two sessions that carry one stream: each direction, from Write and Close() at
\* one end through drainStream, the queues, the loops and the transport to Read
\* at the other end, implements StreamPipe, whatever the sessions, the
\* applications and the network do.
THEOREM OneStreamImplementsPipe == MaxObj = 1 => (Spec => ImplementsPipe)
<1> SUFFICES ASSUME MaxObj = 1 PROVE Spec => ImplementsPipe
  OBVIOUS
<1> DEFINE r == <<"relay", 1>>
           a == <<"agent", 1>>
<1>1. r \in Obj /\ a \in Obj /\ r # a /\ Obj = {r, a} /\ r[1] = "relay" /\ a[1] = "agent"
  BY DEF Obj, Endpoint
<1>2. Init => ToAgent!Init /\ ToRelay!Init
  <2> SUFFICES ASSUME Init PROVE ToAgent!Init /\ ToRelay!Init
    BY Zenon
  <2>1. /\ obj[r].wrote = 0 /\ obj[r].closer = "no" /\ obj[r].closedAt = 0
        /\ obj[a].wrote = 0 /\ obj[a].closer = "no" /\ obj[a].closedAt = 0
        /\ obj[r].state = "Idle" /\ obj[a].state = "Idle"
        /\ obj[r].readBuf = <<>> /\ obj[a].readBuf = <<>>
    BY <1>1, Zenon DEF Init, NewStreamSession
  <2>2. Chunks(r) = <<>> /\ EndOf(r) = "open" /\ Chunks(a) = <<>> /\ EndOf(a) = "open"
    BY <2>1 DEF Chunks, EndOf
  <2> QED BY <2>1, <2>2, Zenon DEF ToAgent!Init, ToRelay!Init
<1>3. ASSUME PipeInv, PipeInv', [Next]_vars
      PROVE  Moves(a, r) /\ Moves(r, a)
  <2>1. IDsUsedOnce'
    BY <1>1 DEF IDsUsedOnce
  <2>2. /\ \A q \in Obj : Linked(a, q, obj') => q = r
        /\ \A q \in Obj : Linked(r, q, obj') => q = a
    BY <1>1, Zenon DEF Linked
  <2> HIDE DEF r, a
  <2> QED BY <1>1, <1>3, <2>1, <2>2, PipeMoves, Zenon
<1>4. Moves(a, r) => [ToAgent!Next]_(ToAgent!pipe)
  BY Zenon
     DEF Moves, SameWriter, ToAgent!Next, ToAgent!Write, ToAgent!Close, ToAgent!Arrive, ToAgent!Eof,
     ToAgent!Abort, ToAgent!pipe
<1>5. Moves(r, a) => [ToRelay!Next]_(ToRelay!pipe)
  BY Zenon
     DEF Moves, SameWriter, ToRelay!Next, ToRelay!Write, ToRelay!Close, ToRelay!Arrive, ToRelay!Eof,
     ToRelay!Abort, ToRelay!pipe
<1>6. PipeInv /\ PipeInv' /\ [Next]_vars
        => [ToAgent!Next]_(ToAgent!pipe) /\ [ToRelay!Next]_(ToRelay!pipe)
  BY <1>3, <1>4, <1>5
<1> QED BY <1>2, <1>6, PipeInductive, PTL DEF Spec, ImplementsPipe, ToAgent!Spec, ToRelay!Spec
=============================================================================
