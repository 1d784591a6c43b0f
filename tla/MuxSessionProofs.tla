-------------------------- MODULE MuxSessionProofs --------------------------
(***************************************************************************)
(* Theorems about MuxSession for every value of its constants: its type    *)
(* invariant, and that the two ends never use the same stream ID.          *)
(*                                                                         *)
(* IndInv is inductive: first come lemmas about the record operators of    *)
(* MuxSession, then one lemma per group of actions.                        *)
(***************************************************************************)
EXTENDS MuxInvariants, TLAPS

\* nextStreamID += 2 keeps the parity.
LEMMA ModTwo == \A n \in Nat : (n + 2) % 2 = n % 2
  OBVIOUS

\* A stream ID is never 0 (0 is the connection itself).
LEMMA IdMod == ASSUME NEW i \in Ids PROVE i \in Nat /\ i # 0 /\ i % 2 \in {0, 1}
  BY MuxAssumption DEF Ids

\* Queueing a good frame, and taking one from the head, keep a queue good.
LEMMA AppendFrame ==
  ASSUME NEW q, NEW e, GoodFrames(q, e), NEW f, GoodFrame(f, e)
  PROVE  GoodFrames(Append(q, f), e)
  BY DEF GoodFrames, GoodFrame

\* The head of a queue of good frames is good, and so is the rest.
LEMMA TailFrames ==
  ASSUME NEW q, NEW e, GoodFrames(q, e), q # <<>>
  PROVE  GoodFrames(Tail(q), e) /\ GoodFrame(Head(q), e)
  BY DEF GoodFrames, GoodFrame

\* WriteQueue.Enqueue at data priority keeps the session good.
LEMMA EnqueueDataGood ==
  ASSUME NEW m, NEW e, NEW U, GoodSession(m, e, U), NEW f, GoodFrame(f, e)
  PROVE  GoodSession(EnqueueData(m, f), e, U)
  BY AppendFrame, Zenon DEF GoodSession, EnqueueData, Session, GoodFrames

\* Appending an ID of parity k to IDs of parity k.
LEMMA AppendId ==
  ASSUME NEW q \in Seq(Ids), NEW id \in Ids, NEW k,
         \A i \in DOMAIN q : q[i] % 2 = k, id % 2 = k
  PROVE  /\ Append(q, id) \in Seq(Ids)
         /\ \A i \in DOMAIN Append(q, id) : Append(q, id)[i] % 2 = k
<1> DEFINE r == Append(q, id)
<1>1. r \in Seq(Ids) /\ Len(r) = Len(q) + 1
  OBVIOUS
<1>2. \A i \in DOMAIN r : r[i] = IF i = Len(q) + 1 THEN id ELSE q[i]
  OBVIOUS
<1> QED BY <1>1, <1>2

\* freeID puts only IDs of the local parity on the free list.
LEMMA FreeIDGood ==
  ASSUME NEW m, NEW e, NEW U, GoodSession(m, e, U), NEW id \in Ids
  PROVE  GoodSession(freeID(m, id), e, U)
<1>1. CASE ownsID(m, id)
  <2> DEFINE q == Append(m.freeIDs, id)
  <2>1. /\ q \in Seq(Ids)
        /\ \A i \in DOMAIN q : q[i] % 2 = Parity(e)
    BY <1>1, AppendId DEF GoodSession, ownsID, Session
  <2> HIDE DEF q
  <2>2. GoodSession([m EXCEPT !.freeIDs = q], e, U)
    BY <2>1, Zenon DEF GoodSession, Session
  <2> QED BY <1>1, <2>2 DEF freeID, q
<1>2. CASE ~ownsID(m, id)
  BY <1>2 DEF freeID
<1> QED BY <1>1, <1>2

\* WriteQueue.Enqueue at control priority keeps the session good.
LEMMA EnqueueControlGood ==
  ASSUME NEW m, NEW e, NEW U, GoodSession(m, e, U), NEW f, GoodFrame(f, e)
  PROVE  GoodSession(EnqueueControl(m, f), e, U)
  BY AppendFrame, Zenon DEF GoodSession, EnqueueControl, Session, GoodFrames

\* Deleting a map entry and recycling its ID keep the session good.
LEMMA RemoveGood ==
  ASSUME NEW m, NEW e, NEW U, GoodSession(m, e, U), NEW id \in Ids
  PROVE  GoodSession(Remove(m, id), e, U)
<1>1. GoodSession([m EXCEPT !.streams[id] = NoObj], e, U)
  BY Zenon DEF GoodSession, Session
<1> QED BY <1>1, FreeIDGood DEF Remove

\* maybeRemoveStream keeps the session good, whoever owns the entry by now.
LEMMA MaybeRemoveGood ==
  ASSUME NEW m, NEW e, NEW U, GoodSession(m, e, U), NEW id \in Ids, NEW s
  PROVE  GoodSession(maybeRemoveStream(m, id, s), e, U)
  BY RemoveGood DEF maybeRemoveStream

\* WriteQueue.Dequeue returns a good frame and keeps the session good.
LEMMA DequeueGood ==
  ASSUME NEW m, NEW e, NEW U, GoodSession(m, e, U), Queued(m)
  PROVE  GoodSession(Dequeue(m), e, U) /\ GoodFrame(NextFrame(m), e)
<1>1. CASE m.control # <<>>
  BY <1>1, TailFrames, Zenon DEF GoodSession, Session, Dequeue, NextFrame, GoodFrames
<1>2. CASE m.control = <<>>
  BY <1>2, TailFrames, Zenon DEF GoodSession, Session, Dequeue, NextFrame, GoodFrames, Queued
<1> QED BY <1>1, <1>2

\* The first part of Close() keeps the session good.
LEMMA StartCloseGood ==
  ASSUME NEW m, NEW e, NEW U, GoodSession(m, e, U)
  PROVE  GoodSession(StartClose(m), e, U)
  BY Zenon DEF GoodSession, Session, StartClose

\* Moving the read loop to a good position keeps the session good.
LEMMA ReaderGood ==
  ASSUME NEW m, NEW e, NEW U, GoodSession(m, e, U),
         NEW r \in [pc : ReadPC, id : Ids \cup {0}, obj : Obj \cup {NoObj}],
         GoodReader(r, U)
  PROVE  GoodSession([m EXCEPT !.rl = r], e, U)
  BY Zenon DEF GoodSession, Session

\* OpenStream picks an ID that is in range and has the local parity.
LEMMA AllocIDGood ==
  ASSUME NEW m, NEW e, NEW U, GoodSession(m, e, U), m.count < MaxObj
  PROVE  AllocID(m) \in Ids /\ AllocID(m) % 2 = Parity(e)
<1>1. CASE m.freeIDs # <<>>
  <2>1. /\ m.freeIDs \in Seq(Ids)
        /\ \A i \in DOMAIN m.freeIDs : m.freeIDs[i] % 2 = Parity(e)
    BY DEF GoodSession, Session
  <2>2. Len(m.freeIDs) \in DOMAIN m.freeIDs
    BY <1>1, <2>1
  <2> QED BY <1>1, <2>1, <2>2 DEF AllocID
<1>2. CASE m.freeIDs = <<>>
  <2>1. /\ m.nextStreamID \in Nat /\ m.count \in Nat
        /\ 0 < m.nextStreamID /\ m.nextStreamID <= 2 * m.count + 2
        /\ m.nextStreamID % 2 = Parity(e)
    BY DEF GoodSession, Session
  <2> QED BY <1>2, <2>1, MuxAssumption DEF AllocID, Ids
<1> QED BY <1>1, <1>2

\* Sessions and streams stay good when more streams come into use.
LEMMA GoodMonotone ==
  ASSUME NEW U, NEW V, U \subseteq V
  PROVE  /\ \A m, e : GoodSession(m, e, U) => GoodSession(m, e, V)
         /\ \A s, e : GoodStream(s, e, U) => GoodStream(s, e, V)
  BY DEF GoodSession, GoodStream, GoodReader

\* A change that leaves alone what GoodStream says of a stream in use.
SameCore(s, t) ==
  /\ t.id = s.id /\ t.origin = s.origin /\ t.writing = s.writing
  /\ t.wrote = s.wrote /\ t.sent = s.sent

\* Such a change keeps the stream good.
LEMMA SameCoreGood ==
  ASSUME NEW s, NEW e, NEW U, GoodStream(s, e, U), s.id # 0,
         NEW t \in Stream, SameCore(s, t), t.call = "removed" => t.victim \in U,
         t.call = "alloc" => s.call = "alloc"
  PROVE  GoodStream(t, e, U)
  BY DEF GoodStream, SameCore

\* RemoteClose keeps the stream good and its ID.
LEMMA RemoteCloseGood ==
  ASSUME NEW s, NEW e, NEW U, GoodStream(s, e, U)
  PROVE  GoodStream(RemoteClose(s), e, U) /\ RemoteClose(s).id = s.id
  BY DEF GoodStream, RemoteClose, Stream, StreamState

\* Reset keeps a stream in use good, and its ID.
LEMMA ResetStreamGood ==
  ASSUME NEW s, NEW e, NEW U, GoodStream(s, e, U), s.id # 0
  PROVE  GoodStream(ResetStream(s), e, U) /\ ResetStream(s).id = s.id
<1>1. CASE s.state \in Terminal
  BY <1>1 DEF ResetStream
<1>2. CASE s.state \notin Terminal
  <2> DEFINE b == <<>>
             t == [s EXCEPT !.state = "Reset", !.readBuf = b, !.resetter = "callback"]
  <2>1. s \in Stream /\ b \in Seq([src : Obj \cup {NoObj}, seq : 0 .. MaxWrites])
    BY DEF GoodStream
  <2>2. ResetStream(s) = t
    BY <1>2 DEF ResetStream
  <2> HIDE DEF b
  <2>3. t \in Stream
    BY <2>1, Zenon DEF Stream, StreamState
  <2>4. SameCore(s, t) /\ t.call = s.call /\ t.victim = s.victim
    BY <2>1 DEF Stream, SameCore
  <2>5. s.call = "removed" => s.victim \in U
    BY DEF GoodStream
  <2> HIDE DEF t
  <2>6. t.id = s.id
    BY <2>4 DEF SameCore
  <2> QED BY <2>2, <2>3, <2>4, <2>5, <2>6, SameCoreGood
<1> QED BY <1>1, <1>2

\* Replacing one session by a good one keeps all sessions good.
LEMMA MuxUpdate ==
  ASSUME IndInv, NEW e \in Endpoint, NEW m, GoodSession(m, e, Used),
         mux' = [mux EXCEPT ![e] = m]
  PROVE  /\ mux' \in [Endpoint -> Session]
         /\ \A d \in Endpoint : GoodSession(mux'[d], d, Used)
<1>1. m \in Session BY DEF GoodSession
<1> QED BY <1>1 DEF IndInv

\* Replacing one stream by a good one with the same ID keeps all streams good.
LEMMA ObjUpdate ==
  ASSUME IndInv, NEW o \in Obj, NEW t, GoodStream(t, o[1], Used),
         t.id = obj[o].id, obj' = [obj EXCEPT ![o] = t]
  PROVE  /\ obj' \in [Obj -> Stream]
         /\ Used' = Used
         /\ \A p \in Obj : GoodStream(obj'[p], p[1], Used)
<1>1. t \in Stream BY DEF GoodStream
<1>2. obj' \in [Obj -> Stream] /\ \A p \in Obj : obj'[p] = IF p = o THEN t ELSE obj[p]
  BY <1>1 DEF IndInv
<1>3. Used' = Used
  BY <1>2 DEF Used
<1>4. \A p \in Obj : GoodStream(obj'[p], p[1], Used)
  BY <1>2 DEF IndInv
<1> QED BY <1>2, <1>3, <1>4

\* Replacing one direction of the transport by good frames keeps both good.
LEMMA WireUpdate ==
  ASSUME IndInv, NEW e \in Endpoint, NEW q, GoodFrames(q, e),
         wire' = [wire EXCEPT ![e] = q]
  PROVE  /\ wire' \in [Endpoint -> Seq(Frame)]
         /\ \A d \in Endpoint : GoodFrames(wire'[d], d)
<1>1. q \in Seq(Frame) BY DEF GoodFrames
<1> QED BY <1>1 DEF IndInv

\* What a step on object o starts from.
LEMMA ObjFacts ==
  ASSUME IndInv, NEW o \in Obj
  PROVE  /\ o[1] \in Endpoint
         /\ GoodStream(obj[o], o[1], Used) /\ obj[o] \in Stream
         /\ GoodSession(mux[o[1]], o[1], Used) /\ mux[o[1]] \in Session
         /\ obj[o].id # 0 => obj[o].id \in Ids
<1>1. o[1] \in Endpoint BY DEF Obj
<1>2. obj[o] \in Stream BY DEF IndInv
<1>3. obj[o].id # 0 => obj[o].id \in Ids BY <1>2 DEF Stream
<1> QED BY <1>1, <1>2, <1>3 DEF IndInv

\* A step that changes one stream, outside its core, preserves the invariant.
LEMMA ObjStep ==
  ASSUME IndInv, NEW o \in Obj, NEW t \in Stream, SameCore(obj[o], t),
         obj[o].id # 0, obj' = [obj EXCEPT ![o] = t],
         \/ t.call \notin {"alloc", "removed"}
         \/ t.call = obj[o].call /\ t.victim = obj[o].victim,
         UNCHANGED <<mux, wire, up>>
  PROVE  IndInv'
<1>1. obj[o].call = "removed" => obj[o].victim \in Used
  BY DEF IndInv, GoodStream
<1>2. GoodStream(t, o[1], Used)
  BY <1>1, ObjFacts, SameCoreGood
<1>3. t.id = obj[o].id
  BY DEF SameCore
<1> QED BY <1>2, <1>3, ObjUpdate, Zenon DEF IndInv

\* The same when the session of the stream changes too.
LEMMA ObjMuxStep ==
  ASSUME IndInv, NEW o \in Obj, NEW t \in Stream, SameCore(obj[o], t),
         obj[o].id # 0, obj' = [obj EXCEPT ![o] = t],
         \/ t.call \notin {"alloc", "removed"}
         \/ t.call = obj[o].call /\ t.victim = obj[o].victim,
         NEW m, GoodSession(m, o[1], Used), mux' = [mux EXCEPT ![o[1]] = m],
         UNCHANGED <<wire, up>>
  PROVE  IndInv'
<1>1. obj[o].call = "removed" => obj[o].victim \in Used
  BY DEF IndInv, GoodStream
<1>2. GoodStream(t, o[1], Used)
  BY <1>1, ObjFacts, SameCoreGood
<1>3. t.id = obj[o].id
  BY DEF SameCore
<1>4. /\ mux' \in [Endpoint -> Session]
      /\ \A d \in Endpoint : GoodSession(mux'[d], d, Used)
  BY ObjFacts, MuxUpdate, Zenon
<1> QED BY <1>2, <1>3, <1>4, ObjUpdate, Zenon DEF IndInv

\* Write preserves the invariant.
LEMMA WriterPreserves ==
  ASSUME IndInv, NEW o \in Obj, WriteCheck(o) \/ WriterStep(o)
  PROVE  IndInv'
<1>a. GoodStream(obj[o], o[1], Used) /\ (obj[o].id # 0 => obj[o].id \in Ids)
  BY ObjFacts
<1>b. obj[o] \in Stream
  BY ObjFacts
<1>c. o[1] \in Endpoint /\ GoodSession(mux[o[1]], o[1], Used)
  BY ObjFacts
<1>1. CASE WriteCheck(o)
  <2> DEFINE t == [obj[o] EXCEPT !.writing = TRUE]
  <2>1. /\ obj[o].id # 0 /\ obj[o].wrote < MaxWrites
        /\ obj[o].wrote \in 0 .. MaxWrites /\ obj[o].sent \in 0 .. MaxWrites
        /\ obj[o].sent <= obj[o].wrote
    BY <1>1, <1>a, <1>b DEF WriteCheck, GoodStream, Stream
  <2>2. t \in Stream
    BY <1>b, Zenon DEF Stream
  <2>3. /\ t.id = obj[o].id /\ t.origin = obj[o].origin /\ t.call = obj[o].call
        /\ t.victim = obj[o].victim /\ t.writing = TRUE
        /\ t.wrote = obj[o].wrote /\ t.sent = obj[o].sent
    BY <1>b DEF Stream
  <2>4. obj' = [obj EXCEPT ![o] = t] /\ UNCHANGED <<mux, wire, up>>
    BY <1>1 DEF WriteCheck
  <2> HIDE DEF t
  <2>5. t.sent <= t.wrote /\ t.id # 0
    BY <2>1, <2>3, MuxAssumption
  <2>6. GoodStream(t, o[1], Used)
    BY <1>a, <2>1, <2>2, <2>3, <2>5 DEF GoodStream
  <2> QED BY <2>3, <2>4, <2>6, ObjUpdate, Zenon DEF IndInv
<1>2. CASE WritePut(o)
  <2> DEFINE t == [obj[o] EXCEPT !.writing = FALSE, !.wrote = @ + 1]
  <2>1. /\ obj[o].id # 0 /\ obj[o].wrote < MaxWrites /\ obj[o].wrote + 1 \in 0 .. MaxWrites
        /\ obj[o].wrote \in 0 .. MaxWrites /\ obj[o].sent \in 0 .. MaxWrites
        /\ obj[o].sent <= obj[o].wrote
    BY <1>2, <1>a, <1>b, MuxAssumption DEF WritePut, GoodStream, Stream
  <2>2. t \in Stream
    BY <1>b, <2>1, Zenon DEF Stream
  <2>3. /\ t.id = obj[o].id /\ t.origin = obj[o].origin /\ t.call = obj[o].call
        /\ t.victim = obj[o].victim /\ t.writing = FALSE
        /\ t.wrote = obj[o].wrote + 1 /\ t.sent = obj[o].sent
    BY <1>b DEF Stream
  <2>4. obj' = [obj EXCEPT ![o] = t] /\ UNCHANGED <<mux, wire, up>>
    BY <1>2, Zenon DEF WritePut
  <2> HIDE DEF t
  <2>5. t.sent <= t.wrote /\ t.id # 0
    BY <2>1, <2>3, MuxAssumption
  <2>6. GoodStream(t, o[1], Used)
    BY <1>a, <2>1, <2>2, <2>3, <2>5 DEF GoodStream
  <2> QED BY <2>3, <2>4, <2>6, ObjUpdate, Zenon DEF IndInv
<1>3. CASE WriteAborted(o)
  <2> DEFINE t == [obj[o] EXCEPT !.writing = FALSE]
  <2>1. /\ obj[o].id # 0 
        /\ obj[o].wrote \in 0 .. MaxWrites /\ obj[o].sent \in 0 .. MaxWrites
        /\ obj[o].sent <= obj[o].wrote
    BY <1>3, <1>a, <1>b DEF WriteAborted, GoodStream, Stream
  <2>2. t \in Stream
    BY <1>b, Zenon DEF Stream
  <2>3. /\ t.id = obj[o].id /\ t.origin = obj[o].origin /\ t.call = obj[o].call
        /\ t.victim = obj[o].victim /\ t.writing = FALSE
        /\ t.wrote = obj[o].wrote /\ t.sent = obj[o].sent
    BY <1>b DEF Stream
  <2>4. obj' = [obj EXCEPT ![o] = t] /\ UNCHANGED <<mux, wire, up>>
    BY <1>3 DEF WriteAborted
  <2> HIDE DEF t
  <2>5. t.sent <= t.wrote /\ t.id # 0
    BY <2>1, <2>3, MuxAssumption
  <2>6. GoodStream(t, o[1], Used)
    BY <1>a, <2>1, <2>2, <2>3, <2>5 DEF GoodStream
  <2> QED BY <2>3, <2>4, <2>6, ObjUpdate, Zenon DEF IndInv
<1> QED BY <1>1, <1>2, <1>3 DEF WriterStep

\* StreamSession.Close and its callback preserve the invariant.
LEMMA CloserPreserves ==
  ASSUME IndInv, NEW o \in Obj, CloseLocal(o) \/ CloserStep(o)
  PROVE  IndInv'
<1>a. GoodStream(obj[o], o[1], Used) /\ (obj[o].id # 0 => obj[o].id \in Ids)
  BY ObjFacts
<1>b. obj[o] \in Stream
  BY ObjFacts
<1>c. o[1] \in Endpoint /\ GoodSession(mux[o[1]], o[1], Used)
  BY ObjFacts
<1>1. CASE CloseLocal(o)
  <2> DEFINE t == [obj[o] EXCEPT !.state = IF @ = "Open" THEN "HalfClosedLocal" ELSE "Closed", 
                                 !.closer = "notify", !.closedAt = obj[o].wrote]
  <2>1. obj[o].id # 0 /\ obj[o].id \in Ids
    BY <1>1, <1>a DEF CloseLocal, GoodStream
  <2>2. t \in Stream
    BY <1>b, ZenonT(60) DEF Stream, StreamState
  <2>3. SameCore(obj[o], t) /\ t.call = obj[o].call /\ t.victim = obj[o].victim
    BY <1>b DEF Stream, SameCore
  <2>4. obj' = [obj EXCEPT ![o] = t] /\ UNCHANGED <<mux, wire, up>>
    BY <1>1, Zenon DEF CloseLocal
  <2> HIDE DEF t
  <2> QED BY <2>1, <2>2, <2>3, <2>4, ObjStep, Zenon
<1>2. CASE CloseNotify(o)
  <2> DEFINE t == [obj[o] EXCEPT !.closer = "remove", !.finCh = TRUE]
  <2>1. obj[o].id # 0 /\ obj[o].id \in Ids
    BY <1>2, <1>a DEF CloseNotify, GoodStream
  <2>2. t \in Stream
    BY <1>b, Zenon DEF Stream
  <2>3. SameCore(obj[o], t) /\ t.call = obj[o].call /\ t.victim = obj[o].victim
    BY <1>b DEF Stream, SameCore
  <2>4. obj' = [obj EXCEPT ![o] = t] /\ UNCHANGED <<mux, wire, up>>
    BY <1>2, Zenon DEF CloseNotify
  <2> HIDE DEF t
  <2> QED BY <2>1, <2>2, <2>3, <2>4, ObjStep, Zenon
<1>3. CASE CloseRemove(o)
  <2> DEFINE t == [obj[o] EXCEPT !.closer = "done"]
             m == maybeRemoveStream(mux[o[1]], obj[o].id, obj[o])
  <2>1. obj[o].id # 0 /\ obj[o].id \in Ids
    BY <1>3, <1>a DEF CloseRemove, GoodStream
  <2>2. t \in Stream
    BY <1>b, Zenon DEF Stream
  <2>3. SameCore(obj[o], t) /\ t.call = obj[o].call /\ t.victim = obj[o].victim
    BY <1>b DEF Stream, SameCore
  <2>4. /\ obj' = [obj EXCEPT ![o] = t] /\ mux' = [mux EXCEPT ![o[1]] = m]
        /\ UNCHANGED <<wire, up>>
    BY <1>3 DEF CloseRemove
  <2>5. GoodSession(m, o[1], Used)
    BY <2>1, <1>c, MaybeRemoveGood
  <2> HIDE DEF t, m
  <2> QED BY <2>1, <2>2, <2>3, <2>4, <2>5, ObjMuxStep, Zenon
<1> QED BY <1>1, <1>2, <1>3 DEF CloserStep

\* StreamSession.Reset and its callback preserve the invariant.
LEMMA ResetterPreserves ==
  ASSUME IndInv, NEW o \in Obj, ResetLocal(o) \/ ResetterStep(o)
  PROVE  IndInv'
<1>a. GoodStream(obj[o], o[1], Used) /\ (obj[o].id # 0 => obj[o].id \in Ids)
  BY ObjFacts
<1>b. obj[o] \in Stream
  BY ObjFacts
<1>c. o[1] \in Endpoint /\ GoodSession(mux[o[1]], o[1], Used)
  BY ObjFacts
<1>1. CASE ResetLocal(o)
  <2>1. obj[o].id # 0
    BY <1>1, <1>a DEF ResetLocal, GoodStream
  <2>2. GoodStream(ResetStream(obj[o]), o[1], Used) /\ ResetStream(obj[o]).id = obj[o].id
    BY <2>1, <1>a, ResetStreamGood
  <2> QED BY <1>1, <2>2, ObjUpdate, Zenon DEF ResetLocal, IndInv
<1>2. CASE OnReset(o)
  <2> DEFINE t == [obj[o] EXCEPT !.resetter =
                     IF mux[o[1]].closing = "no" THEN "delete" ELSE "done"]
  <2>1. obj[o].id # 0 /\ obj[o].id \in Ids
    BY <1>2, <1>a DEF OnReset, GoodStream
  <2>2. t \in Stream
    BY <1>b, Zenon DEF Stream
  <2>3. SameCore(obj[o], t) /\ t.call = obj[o].call /\ t.victim = obj[o].victim
    BY <1>b DEF Stream, SameCore
  <2>4. obj' = [obj EXCEPT ![o] = t] /\ UNCHANGED <<mux, wire, up>>
    BY <1>2 DEF OnReset
  <2> HIDE DEF t
  <2> QED BY <2>1, <2>2, <2>3, <2>4, ObjStep, Zenon
<1>3. CASE OnResetDelete(o)
  <2> DEFINE t == [obj[o] EXCEPT !.resetter =
                     IF mux[o[1]].streams[obj[o].id] # NoObj THEN "send" ELSE "done"]
             m == IF mux[o[1]].streams[obj[o].id] # NoObj
                  THEN Remove(mux[o[1]], obj[o].id) ELSE mux[o[1]]
  <2>1. obj[o].id # 0 /\ obj[o].id \in Ids
    BY <1>3, <1>a DEF OnResetDelete, GoodStream
  <2>2. t \in Stream
    BY <1>b DEF Stream
  <2>3. SameCore(obj[o], t) /\ t.call = obj[o].call /\ t.victim = obj[o].victim
    BY <1>b DEF Stream, SameCore
  <2>4. /\ obj' = [obj EXCEPT ![o] = t] /\ mux' = [mux EXCEPT ![o[1]] = m]
        /\ UNCHANGED <<wire, up>>
    BY <1>3 DEF OnResetDelete
  <2>5. GoodSession(m, o[1], Used)
    BY <2>1, <1>c, RemoveGood
  <2> HIDE DEF t, m
  <2> QED BY <2>1, <2>2, <2>3, <2>4, <2>5, ObjMuxStep, Zenon
<1>4. CASE SendReset(o)
  <2> DEFINE t == [obj[o] EXCEPT !.resetter = "done"]
             m == EnqueueControl(mux[o[1]], NewFrame("RESET", obj[o].id, o, 0))
  <2>1. obj[o].id # 0 /\ obj[o].id \in Ids
    BY <1>4, <1>a DEF SendReset, GoodStream
  <2>2. t \in Stream
    BY <1>b, Zenon DEF Stream
  <2>3. SameCore(obj[o], t) /\ t.call = obj[o].call /\ t.victim = obj[o].victim
    BY <1>b DEF Stream, SameCore
  <2>4. /\ obj' = [obj EXCEPT ![o] = t] /\ mux' = [mux EXCEPT ![o[1]] = m]
        /\ UNCHANGED <<wire, up>>
    BY <1>4 DEF SendReset
  <2>5. GoodSession(m, o[1], Used)
    <3>1. GoodFrame(NewFrame("RESET", obj[o].id, o, 0), o[1])
      BY <2>1, MuxAssumption DEF GoodFrame, NewFrame, Frame, Command
    <3> QED BY <3>1, <1>c, EnqueueControlGood
  <2> HIDE DEF t, m
  <2> QED BY <2>1, <2>2, <2>3, <2>4, <2>5, ObjMuxStep, Zenon
<1> QED BY <1>1, <1>2, <1>3, <1>4 DEF ResetterStep

\* drainStream, awaitFIN and flushAndFIN preserve the invariant.
LEMMA DrainPreserves ==
  ASSUME IndInv, NEW o \in Obj, DrainStep(o)
  PROVE  IndInv'
<1>a. GoodStream(obj[o], o[1], Used) /\ (obj[o].id # 0 => obj[o].id \in Ids)
  BY ObjFacts
<1>b. obj[o] \in Stream
  BY ObjFacts
<1>c. o[1] \in Endpoint /\ GoodSession(mux[o[1]], o[1], Used)
  BY ObjFacts
<1>1. CASE DrainData(o)
  <2> DEFINE t == [obj[o] EXCEPT !.sent = @ + 1]
             f == NewFrame("DATA", obj[o].id, o, obj[o].sent + 1)
             m == EnqueueData(mux[o[1]], f)
  <2>1. /\ obj[o].id # 0 /\ obj[o].sent < obj[o].wrote
        /\ obj[o].wrote \in 0 .. MaxWrites /\ obj[o].sent \in 0 .. MaxWrites
    BY <1>1, <1>a, <1>b DEF DrainData, GoodStream, Stream
  <2>2. obj[o].sent + 1 \in 0 .. MaxWrites /\ obj[o].sent + 1 <= obj[o].wrote
    BY <2>1, MuxAssumption
  <2>3. t \in Stream
    BY <1>b, <2>2, Zenon DEF Stream
  <2>4. /\ t.id = obj[o].id /\ t.origin = obj[o].origin /\ t.call = obj[o].call
        /\ t.victim = obj[o].victim /\ t.writing = obj[o].writing
        /\ t.wrote = obj[o].wrote /\ t.sent = obj[o].sent + 1
    BY <1>b DEF Stream
  <2>5. /\ obj' = [obj EXCEPT ![o] = t] /\ mux' = [mux EXCEPT ![o[1]] = m]
        /\ UNCHANGED <<wire, up>>
    BY <1>1 DEF DrainData
  <2>6. GoodFrame(f, o[1])
    BY <1>a, <2>1, <2>2 DEF GoodFrame, NewFrame, Frame, Command
  <2>7. GoodSession(m, o[1], Used)
    BY <1>c, <2>6, EnqueueDataGood
  <2> HIDE DEF t, m
  <2>8. GoodStream(t, o[1], Used)
    BY <1>a, <2>1, <2>2, <2>3, <2>4 DEF GoodStream
  <2> QED BY <1>c, <2>4, <2>5, <2>7, <2>8, ObjUpdate, MuxUpdate, Zenon DEF IndInv
<1>2. CASE DrainFin(o)
  <2> DEFINE t == [obj[o] EXCEPT !.finCh = FALSE, !.drain = "flush"]
  <2>1. obj[o].id # 0 /\ obj[o].id \in Ids
    BY <1>2, <1>a DEF DrainFin, GoodStream
  <2>2. t \in Stream
    BY <1>b, Zenon DEF Stream
  <2>3. SameCore(obj[o], t) /\ t.call = obj[o].call /\ t.victim = obj[o].victim
    BY <1>b DEF Stream, SameCore
  <2>4. obj' = [obj EXCEPT ![o] = t] /\ UNCHANGED <<mux, wire, up>>
    BY <1>2, Zenon DEF DrainFin
  <2> HIDE DEF t
  <2> QED BY <2>1, <2>2, <2>3, <2>4, ObjStep, Zenon
<1>3. CASE DrainClosed(o)
  <2> DEFINE t == [obj[o] EXCEPT !.drain =
                     IF obj[o].state = "Reset" THEN "done" ELSE "await"]
  <2>1. obj[o].id # 0 /\ obj[o].id \in Ids
    BY <1>3, <1>a DEF DrainClosed, GoodStream
  <2>2. t \in Stream
    BY <1>b, Zenon DEF Stream
  <2>3. SameCore(obj[o], t) /\ t.call = obj[o].call /\ t.victim = obj[o].victim
    BY <1>b DEF Stream, SameCore
  <2>4. obj' = [obj EXCEPT ![o] = t] /\ UNCHANGED <<mux, wire, up>>
    BY <1>3 DEF DrainClosed
  <2> HIDE DEF t
  <2> QED BY <2>1, <2>2, <2>3, <2>4, ObjStep, Zenon
<1>4. CASE DrainFlushed(o)
  <2> DEFINE t == [obj[o] EXCEPT !.drain = "done"]
             m == EnqueueData(mux[o[1]], NewFrame("CLOSE", obj[o].id, o, 0))
  <2>1. obj[o].id # 0 /\ obj[o].id \in Ids
    BY <1>4, <1>a DEF DrainFlushed, GoodStream
  <2>2. t \in Stream
    BY <1>b, Zenon DEF Stream
  <2>3. SameCore(obj[o], t) /\ t.call = obj[o].call /\ t.victim = obj[o].victim
    BY <1>b DEF Stream, SameCore
  <2>4. /\ obj' = [obj EXCEPT ![o] = t] /\ mux' = [mux EXCEPT ![o[1]] = m]
        /\ UNCHANGED <<wire, up>>
    BY <1>4 DEF DrainFlushed
  <2>5. GoodSession(m, o[1], Used)
    <3>1. GoodFrame(NewFrame("CLOSE", obj[o].id, o, 0), o[1])
      BY <2>1, MuxAssumption DEF GoodFrame, NewFrame, Frame, Command
    <3> QED BY <3>1, <1>c, EnqueueDataGood
  <2> HIDE DEF t, m
  <2> QED BY <2>1, <2>2, <2>3, <2>4, <2>5, ObjMuxStep, Zenon
<1>5. CASE DrainStop(o)
  <2> DEFINE t == [obj[o] EXCEPT !.drain = "done"]
  <2>1. obj[o].id # 0 /\ obj[o].id \in Ids
    BY <1>5, <1>a DEF DrainStop, GoodStream
  <2>2. t \in Stream
    BY <1>b, Zenon DEF Stream
  <2>3. SameCore(obj[o], t) /\ t.call = obj[o].call /\ t.victim = obj[o].victim
    BY <1>b DEF Stream, SameCore
  <2>4. obj' = [obj EXCEPT ![o] = t] /\ UNCHANGED <<mux, wire, up>>
    BY <1>5 DEF DrainStop
  <2> HIDE DEF t
  <2> QED BY <2>1, <2>2, <2>3, <2>4, ObjStep, Zenon
<1> QED BY <1>1, <1>2, <1>3, <1>4, <1>5 DEF DrainStep

\* Changing an entry of pendingOpen keeps the session good.
LEMMA PendingGood ==
  ASSUME NEW m, NEW e, NEW U, GoodSession(m, e, U), U \subseteq Obj,
         NEW id \in Ids, NEW x \in U \cup {NoObj}
  PROVE  GoodSession([m EXCEPT !.pendingOpen[id] = x], e, U)
  BY Zenon DEF GoodSession, Session

\* OpenStream after the allocation, canceled or not, preserves the invariant.
LEMMA OpenerPreserves ==
  ASSUME IndInv, NEW o \in Obj, OpenCanceled(o) \/ OpenerStep(o)
  PROVE  IndInv'
<1>a. GoodStream(obj[o], o[1], Used) /\ (obj[o].id # 0 => obj[o].id \in Ids)
  BY ObjFacts
<1>b. obj[o] \in Stream
  BY ObjFacts
<1>c. o[1] \in Endpoint /\ GoodSession(mux[o[1]], o[1], Used)
  BY ObjFacts
<1>d. Used \subseteq Obj
  BY DEF Used
<1>1. CASE OpenCanceled(o)
  <2> DEFINE t == [obj[o] EXCEPT !.call = "canceled"]
             m == [mux[o[1]] EXCEPT !.pendingOpen[obj[o].id] = NoObj]
  <2>1. obj[o].id # 0 /\ obj[o].id \in Ids
    BY <1>1, <1>a DEF OpenCanceled, GoodStream
  <2>2. t \in Stream
    BY <1>b, Zenon DEF Stream
  <2>3. SameCore(obj[o], t) /\ t.call = "canceled"
    BY <1>b DEF Stream, SameCore
  <2>4. /\ obj' = [obj EXCEPT ![o] = t] /\ mux' = [mux EXCEPT ![o[1]] = m]
        /\ UNCHANGED <<wire, up>>
    BY <1>1 DEF OpenCanceled
  <2>5. GoodSession(m, o[1], Used)
    BY <2>1, <1>c, <1>d, PendingGood
  <2> HIDE DEF t, m
  <2> QED BY <2>1, <2>2, <2>3, <2>4, <2>5, ObjMuxStep, Zenon
<1>2. CASE OpenSend(o)
  <2> DEFINE t == [obj[o] EXCEPT !.call = "wait", !.drain = "select"]
             m == EnqueueData([mux[o[1]] EXCEPT !.pendingOpen[obj[o].id] = o],
                              NewFrame("OPEN", obj[o].id, o, 0))
  <2>1. obj[o].id # 0 /\ obj[o].id \in Ids
    BY <1>2, <1>a DEF OpenSend, GoodStream
  <2>2. t \in Stream
    BY <1>b, Zenon DEF Stream
  <2>3. SameCore(obj[o], t) /\ t.call = "wait"
    BY <1>b DEF Stream, SameCore
  <2>4. /\ obj' = [obj EXCEPT ![o] = t] /\ mux' = [mux EXCEPT ![o[1]] = m]
        /\ UNCHANGED <<wire, up>>
    BY <1>2, Zenon DEF OpenSend
  <2>5. GoodSession(m, o[1], Used)
    <3>1. obj[o].id % 2 = Parity(o[1])
      BY <1>2, <1>a DEF OpenSend, GoodStream
    <3>2. GoodFrame(NewFrame("OPEN", obj[o].id, o, 0), o[1])
      BY <2>1, <3>1, MuxAssumption DEF GoodFrame, NewFrame, Frame, Command
    <3>3. o \in Used
      BY <2>1 DEF Used
    <3>4. GoodSession([mux[o[1]] EXCEPT !.pendingOpen[obj[o].id] = o], o[1], Used)
      BY <2>1, <3>3, <1>c, <1>d, PendingGood
    <3> QED BY <3>2, <3>4, EnqueueDataGood
  <2> HIDE DEF t, m
  <2> QED BY <2>1, <2>2, <2>3, <2>4, <2>5, ObjMuxStep, Zenon
<1>3. CASE OpenAcked(o)
  <2> DEFINE t == [obj[o] EXCEPT !.call = "ok", !.ackCh = FALSE]
  <2>1. obj[o].id # 0 /\ obj[o].id \in Ids
    BY <1>3, <1>a DEF OpenAcked, GoodStream
  <2>2. t \in Stream
    BY <1>b, Zenon DEF Stream
  <2>3. SameCore(obj[o], t) /\ t.call = "ok"
    BY <1>b DEF Stream, SameCore
  <2>4. obj' = [obj EXCEPT ![o] = t] /\ UNCHANGED <<mux, wire, up>>
    BY <1>3, Zenon DEF OpenAcked
  <2> HIDE DEF t
  <2> QED BY <2>1, <2>2, <2>3, <2>4, ObjStep, Zenon
<1>4. CASE OpenClosed(o)
  <2> DEFINE t == [obj[o] EXCEPT !.call = "failed"]
             m == [mux[o[1]] EXCEPT !.pendingOpen[obj[o].id] = NoObj]
  <2>1. obj[o].id # 0 /\ obj[o].id \in Ids
    BY <1>4, <1>a DEF OpenClosed, GoodStream
  <2>2. t \in Stream
    BY <1>b DEF Stream
  <2>3. SameCore(obj[o], t) /\ t.call = "failed"
    BY <1>b DEF Stream, SameCore
  <2>4. /\ obj' = [obj EXCEPT ![o] = t] /\ mux' = [mux EXCEPT ![o[1]] = m]
        /\ UNCHANGED <<wire, up>>
    BY <1>4 DEF OpenClosed
  <2>5. GoodSession(m, o[1], Used)
    BY <2>1, <1>c, <1>d, PendingGood
  <2> HIDE DEF t, m
  <2> QED BY <2>1, <2>2, <2>3, <2>4, <2>5, ObjMuxStep, Zenon
<1>5. CASE removeStream(o)
  <2> DEFINE p == mux[o[1]].streams[obj[o].id]
             t == [obj[o] EXCEPT !.call = IF p # NoObj THEN "removed" ELSE "failed",
                                 !.victim = p]
             m == IF p # NoObj THEN Remove(mux[o[1]], obj[o].id) ELSE mux[o[1]]
  <2>1. obj[o].id # 0 /\ obj[o].id \in Ids
    BY <1>5, <1>a DEF removeStream, GoodStream
  <2>2. p \in Used \cup {NoObj}
    BY <2>1, <1>c DEF GoodSession
  <2>3. GoodSession(m, o[1], Used)
    BY <2>1, <1>c, RemoveGood
  <2>4. /\ obj' = [obj EXCEPT ![o] = t] /\ mux' = [mux EXCEPT ![o[1]] = m]
        /\ UNCHANGED <<wire, up>>
    BY <1>5, Zenon DEF removeStream
  <2> HIDE DEF p
  <2>5. t \in Stream
    BY <1>b, <1>d, <2>2, ZenonT(60) DEF Stream
  <2>6. /\ SameCore(obj[o], t) /\ t.id = obj[o].id /\ t.victim = p
        /\ t.call = IF p # NoObj THEN "removed" ELSE "failed"
    BY <1>b DEF Stream, SameCore
  <2> HIDE DEF t, m
  <2>7. GoodStream(t, o[1], Used)
    BY <1>a, <2>1, <2>2, <2>5, <2>6, SameCoreGood
  <2> QED BY <1>c, <2>3, <2>4, <2>6, <2>7, ObjUpdate, MuxUpdate, Zenon DEF IndInv
<1>6. CASE CancelReset(o)
  <2> DEFINE p == obj[o].victim
             t == [obj[o] EXCEPT !.call = "failed"]
             o1 == [obj EXCEPT ![o] = t]
  <2>1. obj[o].id # 0 /\ p \in Used
    BY <1>6, <1>a DEF CancelReset, GoodStream
  <2>2. t \in Stream
    BY <1>b DEF Stream
  <2>3. SameCore(obj[o], t) /\ t.call = "failed" /\ t.id = obj[o].id
    BY <1>b DEF Stream, SameCore
  <2>4. obj' = [o1 EXCEPT ![p] = ResetStream(@)] /\ UNCHANGED <<mux, wire, up>>
    BY <1>6 DEF CancelReset
  <2> HIDE DEF t, p
  <2>5. GoodStream(t, o[1], Used)
    BY <1>a, <2>1, <2>2, <2>3, SameCoreGood
  <2>6. /\ DOMAIN o1 = Obj
        /\ \A q \in Obj : GoodStream(o1[q], q[1], Used) /\ o1[q].id = obj[q].id
    BY <2>3, <2>5 DEF IndInv
  <2>7. p \in Obj /\ o1[p].id # 0
    BY <2>1, <2>6, Zenon DEF Used
  <2> HIDE DEF o1
  <2>8. /\ GoodStream(ResetStream(o1[p]), p[1], Used)
        /\ ResetStream(o1[p]).id = o1[p].id
    BY <2>6, <2>7, ResetStreamGood
  <2>9. /\ DOMAIN obj' = Obj /\ obj' = [q \in Obj |-> obj'[q]]
        /\ \A q \in Obj : obj'[q] = IF q = p THEN ResetStream(o1[p]) ELSE o1[q]
    BY <2>4, <2>6, <2>7, Zenon
  <2>10. \A q \in Obj : GoodStream(obj'[q], q[1], Used) /\ obj'[q].id = obj[q].id
    BY <2>6, <2>8, <2>9
  <2>11. obj' \in [Obj -> Stream]
    BY <2>9, <2>10 DEF GoodStream
  <2>12. Used' = Used
    BY <2>10, Zenon DEF Used
  <2> QED BY <2>4, <2>10, <2>11, <2>12 DEF IndInv
<1> QED BY <1>1, <1>2, <1>3, <1>4, <1>5, <1>6 DEF OpenerStep

\* Counting OpenStream calls keeps the session good.
LEMMA CountersGood ==
  ASSUME NEW m, NEW e, NEW U, GoodSession(m, e, U), NEW j \in Nat, NEW k \in Nat
  PROVE  /\ GoodSession([m EXCEPT !.opened = j, !.calls = k], e, U)
         /\ GoodSession([m EXCEPT !.calls = k], e, U)
  BY Zenon DEF GoodSession, Session

\* A step that changes one session only preserves the invariant.
LEMMA MuxStep ==
  ASSUME IndInv, NEW e \in Endpoint, NEW m, GoodSession(m, e, Used),
         mux' = [mux EXCEPT ![e] = m], UNCHANGED <<obj, wire, up>>
  PROVE  IndInv'
<1>1. Used' = Used
  BY DEF Used
<1> QED BY <1>1, MuxUpdate, Zenon DEF IndInv

\* What a step of session e starts from.
LEMMA MuxFacts ==
  ASSUME IndInv, NEW e \in Endpoint
  PROVE  /\ GoodSession(mux[e], e, Used) /\ mux[e] \in Session
         /\ Used \subseteq Obj
  BY DEF IndInv, Used

\* The steps that touch nothing but their session preserve the invariant.
LEMMA SessionPreserves ==
  ASSUME IndInv, NEW e \in Endpoint,
         \/ OpenCheck(e) \/ OpenRefused(e) \/ Close(e) \/ CloseTransport(e)
         \/ GoAway(e) \/ WriteError(e) \/ WriteLoopExit(e) \/ ReadError(e)
  PROVE  IndInv'
<1>a. GoodSession(mux[e], e, Used)
  BY MuxFacts
<1>1. CASE OpenCheck(e)
  <2> DEFINE j == mux[e].opened + 1
             k == IF mux[e].goingAway THEN mux[e].calls ELSE mux[e].calls + 1
             m == [mux[e] EXCEPT !.opened = j, !.calls = k]
  <2>1. j \in Nat /\ k \in Nat
    <3>1. mux[e].opened \in Nat /\ mux[e].calls \in Nat
      BY <1>a, Zenon DEF GoodSession, Session
    <3> QED BY <3>1
  <2>2. mux' = [mux EXCEPT ![e] = m] /\ UNCHANGED <<obj, wire, up>>
    BY <1>1, Zenon DEF OpenCheck
  <2> HIDE DEF j, k
  <2>3. GoodSession(m, e, Used)
    BY <1>a, <2>1, CountersGood, Zenon
  <2> QED BY <2>2, <2>3, MuxStep, Zenon
<1>2. CASE OpenRefused(e)
  <2> DEFINE k == mux[e].calls - 1
             m == [mux[e] EXCEPT !.calls = k]
  <2>1. k \in Nat
    BY <1>a, <1>2 DEF GoodSession, Session, OpenRefused
  <2>2. mux' = [mux EXCEPT ![e] = m] /\ UNCHANGED <<obj, wire, up>>
    BY <1>2 DEF OpenRefused
  <2> HIDE DEF k
  <2>3. GoodSession(m, e, Used)
    BY <1>a, <2>1, CountersGood, Zenon
  <2> QED BY <2>2, <2>3, MuxStep, Zenon
<1>3. CASE Close(e)
  BY <1>3, <1>a, StartCloseGood, MuxStep, Zenon DEF Close
<1>4. CASE CloseTransport(e)
  <2> DEFINE m == [mux[e] EXCEPT !.closing = "closed"]
  <2>1. GoodSession(m, e, Used)
    BY <1>a, Zenon DEF GoodSession, Session
  <2> QED BY <1>4, <2>1, MuxStep, Zenon DEF CloseTransport
<1>5. CASE GoAway(e)
  <2> DEFINE m == [mux[e] EXCEPT !.goingAway = TRUE, !.sentGoAway = TRUE]
             f == NewFrame("GOAWAY", 0, NoObj, 0)
  <2>1. GoodSession(m, e, Used)
    BY <1>a, Zenon DEF GoodSession, Session
  <2>2. GoodFrame(f, e)
    BY MuxAssumption DEF GoodFrame, NewFrame, Frame, Command
  <2> HIDE DEF m, f
  <2>3. GoodSession(EnqueueControl(m, f), e, Used)
    BY <2>1, <2>2, EnqueueControlGood
  <2>4. mux' = [mux EXCEPT ![e] = EnqueueControl(m, f)] /\ UNCHANGED <<obj, wire, up>>
    BY <1>5 DEF GoAway, m, f
  <2> QED BY <2>3, <2>4, MuxStep, Zenon
<1>6. CASE WriteError(e)
  <2> DEFINE m == [Dequeue(mux[e]) EXCEPT !.wl = "done"]
  <2>1. GoodSession(Dequeue(mux[e]), e, Used)
    BY <1>6, <1>a, DequeueGood DEF WriteError
  <2>2. GoodSession(m, e, Used)
    BY <2>1, Zenon DEF GoodSession, Session
  <2>3. GoodSession(StartClose(m), e, Used)
    BY <2>2, StartCloseGood
  <2>4. mux' = [mux EXCEPT ![e] = StartClose(m)] /\ UNCHANGED <<obj, wire, up>>
    BY <1>6 DEF WriteError
  <2> QED BY <2>3, <2>4, MuxStep, Zenon
<1>7. CASE WriteLoopExit(e)
  <2> DEFINE m == [mux[e] EXCEPT !.wl = "done"]
  <2>1. GoodSession(m, e, Used)
    BY <1>a, Zenon DEF GoodSession, Session
  <2> QED BY <1>7, <2>1, MuxStep, Zenon DEF WriteLoopExit
<1>8. CASE ReadError(e)
  <2> DEFINE m == [mux[e] EXCEPT !.rl.pc = "done"]
  <2>1. GoodSession(m, e, Used)
    BY <1>a, Zenon DEF GoodSession, Session, GoodReader, ReadPC
  <2>2. GoodSession(StartClose(m), e, Used)
    BY <2>1, StartCloseGood
  <2>3. mux' = [mux EXCEPT ![e] = StartClose(m)] /\ UNCHANGED <<obj, wire, up>>
    BY <1>8 DEF ReadError
  <2> QED BY <2>2, <2>3, MuxStep, Zenon
<1> QED BY <1>1, <1>2, <1>3, <1>4, <1>5, <1>6, <1>7, <1>8

\* Writing a frame to the transport preserves the invariant.
LEMMA WriteLoopPreserves ==
  ASSUME IndInv, NEW e \in Endpoint, WriteLoop(e)
  PROVE  IndInv'
<1> DEFINE m == [Dequeue(mux[e]) EXCEPT !.wl = IF mux[e].closing = "no" THEN "run"
                                                                        ELSE "done"]
           q == Append(wire[e], NextFrame(mux[e]))
<1>1. GoodSession(Dequeue(mux[e]), e, Used) /\ GoodFrame(NextFrame(mux[e]), e)
  BY MuxFacts, DequeueGood DEF WriteLoop
<1>2. GoodSession(m, e, Used)
  BY <1>1, Zenon DEF GoodSession, Session
<1>3. GoodFrames(q, e)
  BY <1>1, AppendFrame DEF IndInv
<1>4. /\ mux' = [mux EXCEPT ![e] = m] /\ wire' = [wire EXCEPT ![e] = q]
      /\ UNCHANGED <<obj, up>>
  BY DEF WriteLoop
<1> HIDE DEF m, q
<1>5. Used' = Used
  BY <1>4 DEF Used
<1> QED BY <1>2, <1>3, <1>4, <1>5, MuxUpdate, WireUpdate, Zenon DEF IndInv

\* Losing the connection preserves the invariant.
LEMMA BreakPreserves ==
  ASSUME IndInv, Break
  PROVE  IndInv'
<1>1. \A e \in Endpoint : GoodFrames(<<>>, e)
  BY DEF GoodFrames
<1>2. Used' = Used
  BY DEF Used, Break
<1> QED BY <1>1, <1>2, Zenon DEF IndInv, Break, GoodFrames

\* AcceptStream preserves the invariant.
LEMMA AcceptPreserves ==
  ASSUME IndInv, NEW e \in Endpoint, AcceptStream(e)
  PROVE  IndInv'
<1> DEFINE q == mux[e].acceptCh
           o == Head(q)
           t == [obj[o] EXCEPT !.call = "ok"]
           m == [mux[e] EXCEPT !.acceptCh = Tail(q)]
<1>1. GoodSession(mux[e], e, Used) /\ mux[e] \in Session
  BY MuxFacts
<1>2. /\ q \in Seq(Obj) /\ q # <<>>
      /\ \A i \in DOMAIN q : q[i] \in Used
  BY <1>1 DEF GoodSession, Session, AcceptStream
<1>3. /\ o \in Used /\ Tail(q) \in Seq(Obj)
      /\ \A i \in DOMAIN Tail(q) : Tail(q)[i] \in Used
  BY <1>2
<1>4. o \in Obj /\ obj[o].id # 0
  BY <1>3 DEF Used
<1>5. /\ mux' = [mux EXCEPT ![e] = m] /\ obj' = [obj EXCEPT ![o] = t]
      /\ UNCHANGED <<wire, up>>
  BY DEF AcceptStream
<1> HIDE DEF q, o
<1>6. GoodSession(m, e, Used)
  BY <1>1, <1>3, Zenon DEF GoodSession, Session
<1>7. obj[o] \in Stream /\ GoodStream(obj[o], o[1], Used)
  BY <1>4, ObjFacts
<1>8. t \in Stream
  BY <1>7, Zenon DEF Stream
<1>9. SameCore(obj[o], t) /\ t.call = "ok" /\ t.id = obj[o].id
  BY <1>7 DEF Stream, SameCore
<1> HIDE DEF t, m
<1>10. GoodStream(t, o[1], Used)
  BY <1>4, <1>7, <1>8, <1>9, SameCoreGood
<1> QED BY <1>4, <1>5, <1>6, <1>9, <1>10, ObjUpdate, MuxUpdate, Zenon DEF IndInv

\* What handling a frame starts from: the frame is good, and so is the rest.
\* What handling a frame starts from: the frame is good, and so is the rest.
LEMMA ReadFacts ==
  ASSUME IndInv, NEW e \in Endpoint, NEW cmd, HasFrame(e, cmd), ReadFrame(e)
  PROVE  /\ GoodFrame(Head(wire[Peer(e)]), Peer(e)) /\ Head(wire[Peer(e)]).cmd = cmd
         /\ cmd # "GOAWAY" => Head(wire[Peer(e)]).id \in Ids
         /\ wire' \in [Endpoint -> Seq(Frame)]
         /\ \A d \in Endpoint : GoodFrames(wire'[d], d)
<1>1. Peer(e) \in Endpoint
  BY DEF Peer, Endpoint
<1>2. GoodFrames(wire[Peer(e)], Peer(e)) /\ wire[Peer(e)] # <<>>
  BY <1>1 DEF IndInv, HasFrame
<1>3. /\ GoodFrames(Tail(wire[Peer(e)]), Peer(e))
      /\ GoodFrame(Head(wire[Peer(e)]), Peer(e))
  BY <1>2, TailFrames
<1>4. Head(wire[Peer(e)]).cmd = cmd
  BY DEF HasFrame
<1>5. cmd # "GOAWAY" => Head(wire[Peer(e)]).id \in Ids
  BY <1>3, <1>4 DEF GoodFrame, Frame
<1> QED BY <1>1, <1>3, <1>4, <1>5, WireUpdate, Zenon DEF ReadFrame

\* handleFrame for a session change m and, perhaps, a change t of stream o.
LEMMA ReadStepGood ==
  ASSUME IndInv, NEW e \in Endpoint, NEW m, GoodSession(m, e, Used),
         mux' = [mux EXCEPT ![e] = m] \/ mux' = mux, up' = up,
         wire' \in [Endpoint -> Seq(Frame)],
         \A d \in Endpoint : GoodFrames(wire'[d], d),
         \/ obj' = obj
         \/ \E o \in Obj : \E t :
               /\ GoodStream(t, o[1], Used) /\ t.id = obj[o].id
               /\ obj' = [obj EXCEPT ![o] = t]
  PROVE  IndInv'
<1>1. /\ obj' \in [Obj -> Stream] /\ Used' = Used
      /\ \A p \in Obj : GoodStream(obj'[p], p[1], Used)
  <2>1. CASE obj' = obj
    BY <2>1, Zenon DEF IndInv, Used
  <2>2. CASE obj' # obj
    <3>1. PICK o \in Obj : \E t : /\ GoodStream(t, o[1], Used) /\ t.id = obj[o].id
                                  /\ obj' = [obj EXCEPT ![o] = t]
      BY <2>2
    <3>2. PICK t : /\ GoodStream(t, o[1], Used) /\ t.id = obj[o].id
                   /\ obj' = [obj EXCEPT ![o] = t]
      BY <3>1, Zenon
    <3> QED BY <3>2, ObjUpdate, Zenon
  <2> QED BY <2>1, <2>2
<1>2. /\ mux' \in [Endpoint -> Session]
      /\ \A d \in Endpoint : GoodSession(mux'[d], d, Used)
  <2>1. CASE mux' = mux
    BY <2>1 DEF IndInv
  <2>2. CASE mux' = [mux EXCEPT ![e] = m]
    BY <2>2, MuxUpdate, Zenon
  <2> QED BY <2>1, <2>2
<1>3. up' \in BOOLEAN
  BY DEF IndInv
<1> QED BY <1>1, <1>2, <1>3 DEF IndInv

\* handleFrame preserves the invariant, for frames that create no stream.
LEMMA ReadPreserves ==
  ASSUME IndInv, NEW e \in Endpoint,
         \/ RecvAck(e) \/ RejectOpen(e) \/ RecvData(e) \/ RecvClose(e)
         \/ RecvReset(e) \/ RecvGoAway(e)
  PROVE  IndInv'
<1> DEFINE f == Head(wire[Peer(e)])
<1>a. GoodSession(mux[e], e, Used) /\ mux[e] \in Session /\ Used \subseteq Obj
  BY MuxFacts
<1>b. \A i \in Ids : /\ mux[e].streams[i] \in Used \cup {NoObj}
                     /\ mux[e].pendingOpen[i] \in Used \cup {NoObj}
  BY <1>a DEF GoodSession
<1>c. ASSUME NEW o \in Used
      PROVE  /\ o \in Obj /\ obj[o].id # 0 /\ obj[o] \in Stream
             /\ GoodStream(obj[o], o[1], Used)
             /\ obj[o].call = "removed" => obj[o].victim \in Used
  BY ObjFacts, Zenon DEF Used, GoodStream
<1>d. ASSUME NEW o \in Used, NEW id \in Ids, NEW pc \in ReadPC
      PROVE  GoodSession([mux[e] EXCEPT !.rl = [pc |-> pc, id |-> id, obj |-> o]], e, Used)
  <2> DEFINE r == [pc |-> pc, id |-> id, obj |-> o]
  <2>1. r \in [pc : ReadPC, id : Ids \cup {0}, obj : Obj \cup {NoObj}]
    BY <1>a
  <2>2. GoodReader(r, Used)
    BY IdMod DEF GoodReader
  <2> HIDE DEF r
  <2>3. GoodSession([mux[e] EXCEPT !.rl = r], e, Used)
    BY <1>a, <2>1, <2>2, ReaderGood
  <2> QED BY <2>3 DEF r
<1>1. CASE RecvAck(e)
  <2> DEFINE o == mux[e].pendingOpen[f.id]
             m == [mux[e] EXCEPT !.pendingOpen[f.id] = NoObj]
             t == [obj[o] EXCEPT !.ackCh = TRUE]
  <2>1. /\ f.id \in Ids /\ wire' \in [Endpoint -> Seq(Frame)]
        /\ \A d \in Endpoint : GoodFrames(wire'[d], d)
    <3>1. HasFrame(e, "ACK") /\ ReadFrame(e)
      BY <1>1, Zenon DEF RecvAck
    <3> QED BY <3>1, ReadFacts, SMTT(60)
  <2>2. GoodSession(m, e, Used)
    BY <1>a, <2>1, PendingGood, Zenon
  <2>3. /\ mux' = [mux EXCEPT ![e] = m] /\ up' = up
        /\ obj' = IF o # NoObj THEN [obj EXCEPT ![o] = t] ELSE obj
    BY <1>1, Zenon DEF RecvAck
  <2>4. o \in Used \cup {NoObj}
    BY <1>b, <2>1
  <2> HIDE DEF f, o, m
  <2>5. o # NoObj => /\ o \in Obj /\ GoodStream(t, o[1], Used) /\ t.id = obj[o].id
    <3> SUFFICES ASSUME o # NoObj
                 PROVE  o \in Obj /\ GoodStream(t, o[1], Used) /\ t.id = obj[o].id
      OBVIOUS
    <3>1. /\ o \in Obj /\ obj[o].id # 0 /\ obj[o] \in Stream
          /\ GoodStream(obj[o], o[1], Used)
          /\ obj[o].call = "removed" => obj[o].victim \in Used
      BY <1>c, <2>4
    <3>2. t \in Stream
      BY <3>1, Zenon DEF Stream
    <3>3. /\ SameCore(obj[o], t) /\ t.id = obj[o].id
          /\ t.call = obj[o].call /\ t.victim = obj[o].victim
      BY <3>1 DEF Stream, SameCore
    <3> HIDE DEF t
    <3> QED BY <3>1, <3>2, <3>3, SameCoreGood
  <2> HIDE DEF t
  <2> QED BY <2>1, <2>2, <2>3, <2>5, ReadStepGood, Zenon
<1>2. CASE RejectOpen(e)
  <2> DEFINE g == NewFrame("RESET", f.id, NoObj, 0)
             m == EnqueueControl(mux[e], g)
  <2>1. /\ f.id \in Ids /\ wire' \in [Endpoint -> Seq(Frame)]
        /\ \A d \in Endpoint : GoodFrames(wire'[d], d)
    <3>1. HasFrame(e, "OPEN") /\ ReadFrame(e)
      BY <1>2, Zenon DEF RejectOpen
    <3> QED BY <3>1, ReadFacts
  <2>2. (mux' = mux \/ mux' = [mux EXCEPT ![e] = m]) /\ obj' = obj /\ up' = up
    BY <1>2 DEF RejectOpen
  <2>3. f.id # 0
    BY <2>1, IdMod
  <2> HIDE DEF f
  <2>4. GoodFrame(g, e)
    BY <2>1, <2>3, MuxAssumption DEF GoodFrame, NewFrame, Frame, Command
  <2>5. GoodSession(m, e, Used)
    BY <1>a, <2>4, EnqueueControlGood
  <2> HIDE DEF m
  <2> QED BY <2>1, <2>2, <2>5, ReadStepGood
<1>3. CASE RecvData(e)
  <2> DEFINE o == mux[e].streams[f.id]
             b == Append(obj[o].readBuf, [src |-> f.src, seq |-> f.seq])
             t == [obj[o] EXCEPT !.readBuf = b]
  <2>1. /\ f.id \in Ids /\ wire' \in [Endpoint -> Seq(Frame)] /\ f \in Frame
        /\ \A d \in Endpoint : GoodFrames(wire'[d], d)
    <3>1. HasFrame(e, "DATA") /\ ReadFrame(e)
      BY <1>3, Zenon DEF RecvData
    <3>2. /\ GoodFrame(f, Peer(e)) /\ f.id \in Ids /\ wire' \in [Endpoint -> Seq(Frame)]
          /\ \A d \in Endpoint : GoodFrames(wire'[d], d)
      BY <3>1, ReadFacts, SMTT(60)
    <3> QED BY <3>2 DEF GoodFrame
  <2>2. mux' = mux /\ up' = up /\ obj' = IF o = NoObj THEN obj ELSE [obj EXCEPT ![o] = t]
    BY <1>3, Zenon DEF RecvData
  <2>3. o \in Used \cup {NoObj}
    BY <1>b, <2>1
  <2>4. [src |-> f.src, seq |-> f.seq] \in [src : Obj \cup {NoObj}, seq : 0 .. MaxWrites]
    BY <2>1 DEF Frame
  <2> HIDE DEF f, o
  <2>5. o # NoObj => /\ o \in Obj /\ GoodStream(t, o[1], Used) /\ t.id = obj[o].id
    <3> SUFFICES ASSUME o # NoObj
                 PROVE  o \in Obj /\ GoodStream(t, o[1], Used) /\ t.id = obj[o].id
      OBVIOUS
    <3>1. /\ o \in Obj /\ obj[o].id # 0 /\ obj[o] \in Stream
          /\ GoodStream(obj[o], o[1], Used)
          /\ obj[o].call = "removed" => obj[o].victim \in Used
      BY <1>c, <2>3
    <3>2. obj[o].readBuf \in Seq([src : Obj \cup {NoObj}, seq : 0 .. MaxWrites])
      BY <3>1 DEF Stream
    <3>3. b \in Seq([src : Obj \cup {NoObj}, seq : 0 .. MaxWrites])
      BY <2>4, <3>2
    <3> HIDE DEF b
    <3>4. t \in Stream
      BY <3>1, <3>3, Zenon DEF Stream
    <3>5. /\ SameCore(obj[o], t) /\ t.id = obj[o].id
          /\ t.call = obj[o].call /\ t.victim = obj[o].victim
      BY <3>1 DEF Stream, SameCore
    <3> HIDE DEF t
    <3> QED BY <3>1, <3>4, <3>5, SameCoreGood
  <2> HIDE DEF t
  <2> QED BY <1>a, <2>1, <2>2, <2>5, ReadStepGood, Zenon
<1>4. CASE RecvClose(e)
  <2> DEFINE o == mux[e].streams[f.id]
             m == [mux[e] EXCEPT !.rl = [pc |-> "remove", id |-> f.id, obj |-> o]]
             t == RemoteClose(obj[o])
  <2>1. /\ f.id \in Ids /\ wire' \in [Endpoint -> Seq(Frame)]
        /\ \A d \in Endpoint : GoodFrames(wire'[d], d)
    <3>1. HasFrame(e, "CLOSE") /\ ReadFrame(e)
      BY <1>4, Zenon DEF RecvClose
    <3> QED BY <3>1, ReadFacts, SMTT(60)
  <2>2. /\ up' = up
        /\ IF o = NoObj THEN mux' = mux /\ obj' = obj
           ELSE mux' = [mux EXCEPT ![e] = m] /\ obj' = [obj EXCEPT ![o] = t]
    BY <1>4, Zenon DEF RecvClose
  <2>3. o \in Used \cup {NoObj}
    BY <1>b, <2>1
  <2>4. o # NoObj => GoodSession(m, e, Used)
    BY <1>d, <2>1, <2>3, Zenon DEF ReadPC
  <2>5. o # NoObj => o \in Obj /\ GoodStream(t, o[1], Used) /\ t.id = obj[o].id
    BY <1>c, <2>3, RemoteCloseGood, Zenon
  <2> HIDE DEF f, o, m, t
  <2> QED BY <1>a, <2>1, <2>2, <2>4, <2>5, ReadStepGood
<1>5. CASE RecvReset(e)
  <2> DEFINE o == mux[e].streams[f.id]
             pc == IF obj[o].state \in Terminal THEN "tail" ELSE "inReset"
             m == [mux[e] EXCEPT !.rl = [pc |-> pc, id |-> f.id, obj |-> o]]
             t == ResetStream(obj[o])
  <2>1. /\ f.id \in Ids /\ wire' \in [Endpoint -> Seq(Frame)]
        /\ \A d \in Endpoint : GoodFrames(wire'[d], d)
    <3>1. HasFrame(e, "RESET") /\ ReadFrame(e)
      BY <1>5, Zenon DEF RecvReset
    <3> QED BY <3>1, ReadFacts
  <2>2. /\ up' = up
        /\ IF o = NoObj THEN mux' = mux /\ obj' = obj
           ELSE mux' = [mux EXCEPT ![e] = m] /\ obj' = [obj EXCEPT ![o] = t]
    BY <1>5, Zenon DEF RecvReset
  <2>3. o \in Used \cup {NoObj} /\ pc \in ReadPC
    BY <1>b, <2>1 DEF ReadPC
  <2> HIDE DEF f, o, pc
  <2>4. o # NoObj => GoodSession(m, e, Used)
    BY <1>d, <2>1, <2>3
  <2>5. o # NoObj => o \in Obj /\ GoodStream(t, o[1], Used) /\ t.id = obj[o].id
    BY <1>c, <2>3, ResetStreamGood
  <2> HIDE DEF m, t
  <2> QED BY <1>a, <2>1, <2>2, <2>4, <2>5, ReadStepGood
<1>6. CASE RecvGoAway(e)
  <2> DEFINE m == [mux[e] EXCEPT !.goingAway = TRUE]
  <2>1. /\ wire' \in [Endpoint -> Seq(Frame)]
        /\ \A d \in Endpoint : GoodFrames(wire'[d], d)
    BY <1>6, ReadFacts DEF RecvGoAway
  <2>2. mux' = [mux EXCEPT ![e] = m] /\ obj' = obj /\ up' = up
    BY <1>6 DEF RecvGoAway
  <2>3. GoodSession(m, e, Used)
    BY <1>a, Zenon DEF GoodSession, Session
  <2> HIDE DEF m
  <2> QED BY <2>1, <2>2, <2>3, ReadStepGood, Zenon
<1> QED BY <1>1, <1>2, <1>3, <1>4, <1>5, <1>6

\* The second halves of the handlers preserve the invariant.
LEMMA ReadTailPreserves ==
  ASSUME IndInv, NEW e \in Endpoint, Deliver(e) \/ RemoveClosed(e) \/ ResetTail(e)
  PROVE  IndInv'
<1>a. GoodSession(mux[e], e, Used) /\ mux[e] \in Session /\ Used \subseteq Obj
  BY MuxFacts
<1>b. ASSUME NEW m, GoodSession(m, e, Used)
      PROVE  GoodSession([m EXCEPT !.rl = Reading], e, Used)
  <2>1. Reading \in [pc : ReadPC, id : Ids \cup {0}, obj : Obj \cup {NoObj}]
    BY DEF Reading, ReadPC
  <2>2. GoodReader(Reading, Used)
    BY DEF Reading, GoodReader
  <2> QED BY <1>b, <2>1, <2>2, ReaderGood
<1>c. mux[e].rl.pc \in {"accept", "remove", "tail", "inReset"} =>
        mux[e].rl.id \in Ids /\ mux[e].rl.obj \in Used
  BY <1>a, Zenon DEF GoodSession, Session, GoodReader
<1>1. CASE Deliver(e)
  <2> DEFINE o == mux[e].rl.obj
             m == [mux[e] EXCEPT !.acceptCh = Append(@, o)]
  <2>1. o \in Used
    BY <1>1, <1>c DEF Deliver
  <2>2. GoodSession(m, e, Used)
    <3> DEFINE q == Append(mux[e].acceptCh, o)
    <3>1. /\ mux[e].acceptCh \in Seq(Obj)
          /\ \A i \in DOMAIN mux[e].acceptCh : mux[e].acceptCh[i] \in Used
      BY <1>a DEF GoodSession, Session
    <3> HIDE DEF o
    <3>2. q \in Seq(Obj) /\ \A i \in DOMAIN q : q[i] \in Used
      BY <1>a, <2>1, <3>1
    <3> HIDE DEF q
    <3>3. GoodSession([mux[e] EXCEPT !.acceptCh = q], e, Used)
      BY <1>a, <3>2, Zenon DEF GoodSession, Session
    <3> QED BY <3>3 DEF q
  <2>3. /\ \/ mux' = [mux EXCEPT ![e] = [m EXCEPT !.rl = Reading]]
           \/ mux' = [mux EXCEPT ![e] = [mux[e] EXCEPT !.rl = Reading]]
        /\ UNCHANGED <<obj, wire, up>>
    BY <1>1, Zenon DEF Deliver
  <2> HIDE DEF m
  <2> QED BY <1>a, <1>b, <2>2, <2>3, MuxStep
<1>2. CASE RemoveClosed(e)
  <2> DEFINE r == mux[e].rl
             m == maybeRemoveStream(mux[e], r.id, obj[r.obj])
  <2>1. GoodSession(m, e, Used)
    BY <1>2, <1>a, <1>c, MaybeRemoveGood DEF RemoveClosed
  <2>2. /\ mux' = [mux EXCEPT ![e] = [m EXCEPT !.rl = Reading]]
        /\ UNCHANGED <<obj, wire, up>>
    BY <1>2, Zenon DEF RemoveClosed
  <2> HIDE DEF m
  <2> QED BY <1>b, <2>1, <2>2, MuxStep, Zenon
<1>3. CASE ResetTail(e)
  <2> DEFINE id == mux[e].rl.id
             m == IF mux[e].streams[id] # NoObj THEN Remove(mux[e], id) ELSE mux[e]
  <2>1. id \in Ids
    BY <1>3, <1>c DEF ResetTail
  <2>2. GoodSession(m, e, Used)
    BY <1>a, <2>1, RemoveGood
  <2>3. /\ mux' = [mux EXCEPT ![e] = [m EXCEPT !.rl = Reading]]
        /\ UNCHANGED <<obj, wire, up>>
    BY <1>3 DEF ResetTail
  <2> HIDE DEF m
  <2> QED BY <1>b, <2>2, <2>3, MuxStep, Zenon
<1> QED BY <1>1, <1>2, <1>3

\* The bulk reset of MuxSession.Close preserves the invariant.
LEMMA CloseStreamsPreserves ==
  ASSUME IndInv, NEW e \in Endpoint, CloseStreams(e)
  PROVE  IndInv'
<1> DEFINE Live(o) == \E i \in Ids : mux[e].streams[i] = o
           TornDown(s) == IF s.state \in Terminal THEN s
                          ELSE [ResetStream(s) EXCEPT !.resetter = "done"]
           none == [i \in Ids |-> NoObj]
           m == [mux[e] EXCEPT !.closing = "torn", !.streams = none]
<1>a. GoodSession(mux[e], e, Used) /\ mux[e] \in Session /\ Used \subseteq Obj
  BY MuxFacts
<1>1. /\ obj' = [o \in Obj |-> IF Live(o) THEN TornDown(obj[o]) ELSE obj[o]]
      /\ mux' = [mux EXCEPT ![e] = m]
      /\ UNCHANGED <<wire, up>>
  BY Zenon DEF CloseStreams
<1>2. GoodSession(m, e, Used)
  <2>1. none \in [Ids -> Obj \cup {NoObj}] /\ \A i \in Ids : none[i] = NoObj
    OBVIOUS
  <2> HIDE DEF none
  <2> QED BY <1>a, <2>1, Zenon DEF GoodSession, Session
<1>3. ASSUME NEW o \in Obj, obj[o].id # 0
      PROVE  GoodStream(TornDown(obj[o]), o[1], Used) /\ TornDown(obj[o]).id = obj[o].id
  <2>1. CASE obj[o].state \in Terminal
    BY <2>1 DEF IndInv
  <2>2. CASE obj[o].state \notin Terminal
    <3> DEFINE s == ResetStream(obj[o])
               t == [s EXCEPT !.resetter = "done"]
    <3>1. GoodStream(s, o[1], Used) /\ s.id = obj[o].id
      BY <1>3, ObjFacts, ResetStreamGood
    <3> HIDE DEF s
    <3>2. s \in Stream /\ (s.call = "removed" => s.victim \in Used)
      BY <3>1 DEF GoodStream
    <3>3. t \in Stream
      BY <3>2 DEF Stream
    <3>4. /\ SameCore(s, t) /\ t.id = s.id /\ t.call = s.call /\ t.victim = s.victim
      BY <3>2 DEF Stream, SameCore
    <3> HIDE DEF t
    <3>5. GoodStream(t, o[1], Used)
      BY <1>3, <3>1, <3>2, <3>3, <3>4, SameCoreGood
    <3>6. TornDown(obj[o]) = t
      BY <2>2 DEF s, t
    <3> QED BY <3>1, <3>4, <3>5, <3>6, Zenon
  <2> QED BY <2>1, <2>2
<1>4. \A o \in Obj : Live(o) => obj[o].id # 0
  <2> SUFFICES ASSUME NEW o \in Obj, NEW i \in Ids, mux[e].streams[i] = o
               PROVE  obj[o].id # 0
    OBVIOUS
  <2>1. o # NoObj
    BY DEF Obj, NoObj, Endpoint
  <2>2. o \in Used
    BY <1>a, <2>1 DEF GoodSession
  <2> QED BY <2>2 DEF Used
<1>5. ASSUME NEW o \in Obj
      PROVE  GoodStream(obj'[o], o[1], Used) /\ obj'[o].id = obj[o].id
  <2>1. CASE Live(o)
    <3>1. obj'[o] = TornDown(obj[o])
      BY <1>1, <2>1
    <3> QED BY <1>3, <1>4, <2>1, <3>1, Zenon
  <2>2. CASE ~Live(o)
    <3>1. obj'[o] = obj[o]
      BY <1>1, <2>2
    <3> QED BY <3>1 DEF IndInv
  <2> QED BY <2>1, <2>2
<1>6. obj' \in [Obj -> Stream]
  <2>1. obj' = [o \in Obj |-> obj'[o]]
    BY <1>1, Zenon
  <2> QED BY <1>5, <2>1 DEF GoodStream
<1>7. Used' = Used
  BY <1>5, Zenon DEF Used
<1> HIDE DEF m
<1>8. /\ mux' \in [Endpoint -> Session]
      /\ \A d \in Endpoint : GoodSession(mux'[d], d, Used)
  BY <1>1, <1>2, MuxUpdate, Zenon
<1> QED BY <1>1, <1>5, <1>6, <1>7, <1>8, Zenon DEF IndInv

\* A new stream object o comes into use; the session may refer to it.
LEMMA NewObjStep ==
  ASSUME IndInv, NEW e \in Endpoint, NEW o \in Obj, o[1] = e,
         NEW t, GoodStream(t, e, Used), t.id # 0, obj' = [obj EXCEPT ![o] = t],
         NEW m, GoodSession(m, e, Used \cup {o}), mux' = [mux EXCEPT ![e] = m],
         wire' \in [Endpoint -> Seq(Frame)],
         \A d \in Endpoint : GoodFrames(wire'[d], d), up' = up
  PROVE  IndInv'
<1>1. t \in Stream /\ m \in Session
  BY DEF GoodStream, GoodSession
<1>2. /\ obj' \in [Obj -> Stream] /\ mux' \in [Endpoint -> Session]
      /\ \A p \in Obj : obj'[p] = IF p = o THEN t ELSE obj[p]
      /\ \A d \in Endpoint : mux'[d] = IF d = e THEN m ELSE mux[d]
  BY <1>1 DEF IndInv
<1>3. Used' = Used \cup {o}
  BY <1>2 DEF Used
<1>4. /\ Used \subseteq Used'
      /\ \A d \in Endpoint : GoodSession(mux[d], d, Used)
      /\ \A p \in Obj : GoodStream(obj[p], p[1], Used)
  BY <1>3 DEF IndInv
<1>5. ASSUME NEW d \in Endpoint PROVE GoodSession(mux'[d], d, Used')
  <2>1. CASE d = e
    BY <1>2, <1>3, <2>1
  <2>2. CASE d # e
    BY <1>2, <1>4, <2>2, GoodMonotone, Zenon
  <2> QED BY <2>1, <2>2
<1>6. ASSUME NEW p \in Obj PROVE GoodStream(obj'[p], p[1], Used')
  <2>1. CASE p = o
    BY <1>2, <1>4, <2>1, GoodMonotone, Zenon
  <2>2. CASE p # o
    BY <1>2, <1>4, <2>2, GoodMonotone, Zenon
  <2> QED BY <2>1, <2>2
<1>7. up' \in BOOLEAN
  BY DEF IndInv
<1> QED BY <1>2, <1>5, <1>6, <1>7 DEF IndInv

\* The session's part of OpenAlloc: take an ID, enter the stream, count it.
LEMMA OpenAllocSession ==
  ASSUME NEW m, NEW e, NEW U, GoodSession(m, e, U), m.count < MaxObj, m.calls > 0,
         NEW id \in Ids, NEW o \in Obj
  PROVE  GoodSession([TakeID(m) EXCEPT !.streams[id] = o, !.calls = @ - 1,
                                       !.count = @ + 1], e, U \cup {o})
<1>a. /\ m \in Session /\ m.count \in 0 .. MaxObj /\ m.calls \in Nat
      /\ m.nextStreamID \in Nat /\ m.nextStreamID % 2 = Parity(e)
      /\ 0 < m.nextStreamID /\ m.nextStreamID <= 2 * m.count + 2
      /\ m.freeIDs \in Seq(Ids)
      /\ \A i \in DOMAIN m.freeIDs : m.freeIDs[i] % 2 = Parity(e)
      /\ m.streams \in [Ids -> Obj \cup {NoObj}]
      /\ \A i \in Ids : m.streams[i] \in U \cup {NoObj}
  BY DEF GoodSession, Session
<1> DEFINE c == m.count + 1
           k == m.calls - 1
           st == [m.streams EXCEPT ![id] = o]
<1>b. /\ m.count \in Nat /\ m.calls \in Nat /\ m.nextStreamID \in Nat
      /\ m.nextStreamID <= 2 * m.count + 2 /\ MaxObj \in Nat
  BY <1>a, MuxAssumption
<1>1. c \in 0 .. MaxObj /\ k \in Nat
  BY <1>b
<1>2. st \in [Ids -> Obj \cup {NoObj}] /\ \A i \in Ids : st[i] \in U \cup {o} \cup {NoObj}
  BY <1>a
<1>3. GoodSession(m, e, U \cup {o})
  BY GoodMonotone
<1>4. ASSUME NEW n \in Nat, n % 2 = Parity(e), 0 < n, n <= 2 * c + 2,
             NEW fr \in Seq(Ids), \A i \in DOMAIN fr : fr[i] % 2 = Parity(e)
      PROVE  GoodSession([m EXCEPT !.nextStreamID = n, !.freeIDs = fr, !.streams = st,
                                   !.calls = k, !.count = c], e, U \cup {o})
  <2> DEFINE r == [m EXCEPT !.nextStreamID = n, !.freeIDs = fr, !.streams = st,
                            !.calls = k, !.count = c]
  <2> HIDE DEF c, k, st
  <2>1. r \in Session
    BY <1>a, <1>1, <1>2, <1>4, Zenon DEF Session
  <2>2. /\ r.nextStreamID = n /\ r.freeIDs = fr /\ r.streams = st /\ r.count = c
        /\ r.pendingOpen = m.pendingOpen /\ r.acceptCh = m.acceptCh /\ r.rl = m.rl
        /\ r.control = m.control /\ r.data = m.data
    BY <1>a DEF Session
  <2> HIDE DEF r
  <2>3. GoodSession(r, e, U \cup {o})
    BY <1>2, <1>3, <1>4, <2>1, <2>2 DEF GoodSession
  <2> QED BY <2>3 DEF r
<1>5. CASE m.freeIDs # <<>>
  <2> DEFINE fr == SubSeq(m.freeIDs, 1, Len(m.freeIDs) - 1)
             r == [m EXCEPT !.nextStreamID = m.nextStreamID, !.freeIDs = fr,
                            !.streams = st, !.calls = k, !.count = c]
  <2>1. Len(m.freeIDs) \in Nat /\ Len(m.freeIDs) >= 1
    BY <1>a, <1>5
  <2>2. /\ fr \in Seq(Ids) /\ Len(fr) = Len(m.freeIDs) - 1
        /\ \A i \in 1 .. Len(fr) : fr[i] = m.freeIDs[i]
    BY <1>a, <2>1
  <2>3. \A i \in DOMAIN fr : fr[i] % 2 = Parity(e)
    BY <1>a, <2>1, <2>2
  <2>4. m.nextStreamID <= 2 * c + 2
    BY <1>a
  <2>5. [TakeID(m) EXCEPT !.streams[id] = o, !.calls = @ - 1, !.count = @ + 1] = r
    BY <1>a, <1>5, Zenon DEF TakeID, Session
  <2> HIDE DEF fr, c, k, st
  <2>6. GoodSession(r, e, U \cup {o})
    BY <1>4, <1>a, <2>2, <2>3, <2>4, Zenon
  <2> QED BY <2>5, <2>6
<1>6. CASE m.freeIDs = <<>>
  <2> DEFINE n == m.nextStreamID + 2
             r == [m EXCEPT !.nextStreamID = n, !.freeIDs = m.freeIDs,
                            !.streams = st, !.calls = k, !.count = c]
  <2>1. n \in Nat /\ n % 2 = Parity(e) /\ 0 < n /\ n <= 2 * c + 2
    <3>1. n % 2 = m.nextStreamID % 2
      BY <1>b, ModTwo
    <3>2. n \in Nat /\ 0 < n /\ n <= 2 * c + 2
      BY <1>b
    <3> QED BY <1>a, <3>1, <3>2
  <2>2. [TakeID(m) EXCEPT !.streams[id] = o, !.calls = @ - 1, !.count = @ + 1] = r
    BY <1>a, <1>6, Zenon DEF TakeID, Session
  <2> HIDE DEF n, c, k, st
  <2>3. GoodSession(r, e, U \cup {o})
    BY <1>4, <1>a, <2>1, Zenon
  <2> QED BY <2>2, <2>3
<1> QED BY <1>5, <1>6

\* Creating a stream, locally or for the peer, preserves the invariant.
LEMMA NewStreamPreserves ==
  ASSUME IndInv, NEW e \in Endpoint, OpenAlloc(e) \/ RecvOpen(e)
  PROVE  IndInv'
<1> DEFINE o == <<e, mux[e].count + 1>>
<1>a. GoodSession(mux[e], e, Used) /\ mux[e] \in Session /\ Used \subseteq Obj
  BY MuxFacts
<1>b. mux[e].count < MaxObj
  BY Zenon DEF OpenAlloc, RecvOpen
<1>c. o \in Obj /\ o[1] = e
  <2>1. mux[e].count \in 0 .. MaxObj
    BY <1>a DEF Session
  <2>2. mux[e].count + 1 \in 1 .. MaxObj
    BY <1>b, <2>1, MuxAssumption
  <2> QED BY <2>2 DEF Obj
<1> HIDE DEF o
<1>d. obj[o] \in Stream /\ GoodStream(obj[o], e, Used)
  BY <1>c, ObjFacts
<1>1. CASE OpenAlloc(e)
  <2> DEFINE id == AllocID(mux[e])
             t == [obj[o] EXCEPT !.id = id, !.state = "Open", !.call = "alloc"]
             m == [TakeID(mux[e]) EXCEPT !.streams[id] = o, !.calls = @ - 1,
                                         !.count = @ + 1]
  <2>1. id \in Ids /\ id % 2 = Parity(e)
    BY <1>a, <1>b, AllocIDGood
  <2>2. GoodSession(m, e, Used \cup {o})
    BY <1>1, <1>a, <1>b, <1>c, <2>1, OpenAllocSession, Zenon DEF OpenAlloc
  <2>3. /\ mux' = [mux EXCEPT ![e] = m] /\ obj' = [obj EXCEPT ![o] = t]
        /\ UNCHANGED <<wire, up>>
    BY <1>1, Zenon DEF OpenAlloc, o
  <2> HIDE DEF id
  <2>4. t \in Stream
    BY <1>d, <2>1, ZenonT(60) DEF Stream, StreamState
  <2>5. /\ t.id = id /\ t.call = "alloc" /\ t.writing = obj[o].writing
        /\ t.wrote = obj[o].wrote /\ t.sent = obj[o].sent
    BY <1>d DEF Stream
  <2>6. id # 0
    BY <2>1, IdMod
  <2> HIDE DEF t, m
  <2>7. GoodStream(t, e, Used) /\ t.id # 0
    BY <1>d, <2>1, <2>4, <2>5, <2>6 DEF GoodStream
  <2>8. /\ wire' \in [Endpoint -> Seq(Frame)]
        /\ \A d \in Endpoint : GoodFrames(wire'[d], d)
    BY <2>3 DEF IndInv
  <2> QED BY <1>c, <2>2, <2>3, <2>7, <2>8, NewObjStep, Zenon
<1>2. CASE RecvOpen(e)
  <2> DEFINE f == Head(wire[Peer(e)])
             t == [obj[o] EXCEPT !.id = f.id, !.state = "Open", !.call = "queued",
                                 !.drain = "select", !.origin = f.src]
             r == [pc |-> "accept", id |-> f.id, obj |-> o]
             n == [mux[e] EXCEPT !.streams[f.id] = o, !.count = @ + 1, !.rl = r]
             g == NewFrame("ACK", f.id, o, 0)
             m == EnqueueData(n, g)
  <2>1. /\ f.id \in Ids /\ GoodFrame(f, Peer(e)) /\ f.cmd = "OPEN"
        /\ wire' \in [Endpoint -> Seq(Frame)]
        /\ \A d \in Endpoint : GoodFrames(wire'[d], d)
    <3>1. HasFrame(e, "OPEN") /\ ReadFrame(e)
      BY <1>2, Zenon DEF RecvOpen
    <3> QED BY <3>1, ReadFacts
  <2>2. f.src \in Obj /\ f.src # NoObj /\ f.id # 0
    <3>1. NoObj \notin Obj
      BY DEF NoObj, Obj, Endpoint
    <3> QED BY <2>1, <3>1, IdMod DEF GoodFrame
  <2>3. /\ mux' = [mux EXCEPT ![e] = m] /\ obj' = [obj EXCEPT ![o] = t] /\ up' = up
    BY <1>2, Zenon DEF RecvOpen, o
  <2> HIDE DEF f
  <2>4. t \in Stream
    BY <1>d, <2>1, <2>2, ZenonT(60) DEF Stream, StreamState
  <2>5. /\ t.id = f.id /\ t.call = "queued" /\ t.writing = obj[o].writing
        /\ t.wrote = obj[o].wrote /\ t.sent = obj[o].sent /\ t.origin = f.src
    BY <1>d DEF Stream
  <2>6. GoodSession(n, e, Used \cup {o})
    <3> DEFINE c == mux[e].count + 1
               st == [mux[e].streams EXCEPT ![f.id] = o]
               n1 == [mux[e] EXCEPT !.streams = st, !.count = c, !.rl = r]
    <3>1. /\ mux[e].streams \in [Ids -> Obj \cup {NoObj}]
          /\ \A i \in Ids : mux[e].streams[i] \in Used \cup {NoObj}
          /\ mux[e].count \in Nat /\ MaxObj \in Nat
          /\ mux[e].nextStreamID \in Nat /\ mux[e].nextStreamID <= 2 * mux[e].count + 2
      <4>1. /\ mux[e] \in Session /\ mux[e].nextStreamID <= 2 * mux[e].count + 2
            /\ \A i \in Ids : mux[e].streams[i] \in Used \cup {NoObj}
        BY <1>a DEF GoodSession
      <4>2. MaxObj \in Nat
        BY MuxAssumption
      <4>3. /\ mux[e].streams \in [Ids -> Obj \cup {NoObj}]
            /\ mux[e].nextStreamID \in Nat /\ mux[e].count \in 0 .. MaxObj
        BY <4>1 DEF Session
      <4> QED BY <4>1, <4>2, <4>3
    <3>2. /\ st \in [Ids -> Obj \cup {NoObj}]
          /\ \A i \in Ids : st[i] \in Used \cup {o} \cup {NoObj}
      BY <1>c, <2>1, <3>1
    <3>3. c \in 0 .. MaxObj /\ mux[e].nextStreamID <= 2 * c + 2
      BY <1>b, <3>1
    <3>4. /\ r \in [pc : ReadPC, id : Ids \cup {0}, obj : Obj \cup {NoObj}]
          /\ GoodReader(r, Used \cup {o})
      BY <1>c, <2>1, <2>2 DEF ReadPC, GoodReader
    <3>5. n = n1
      BY DEF n1
    <3> HIDE DEF c, st, r
    <3>6. n1 \in Session
      BY <1>a, <3>2, <3>3, <3>4, Zenon DEF Session
    <3>7. /\ n1.nextStreamID = mux[e].nextStreamID /\ n1.freeIDs = mux[e].freeIDs
          /\ n1.streams = st /\ n1.count = c /\ n1.rl = r
          /\ n1.pendingOpen = mux[e].pendingOpen /\ n1.acceptCh = mux[e].acceptCh
          /\ n1.control = mux[e].control /\ n1.data = mux[e].data
      BY <1>a DEF Session
    <3>8. GoodSession(mux[e], e, Used \cup {o})
      BY <1>a, GoodMonotone, Zenon
    <3> HIDE DEF n, n1
    <3>9. GoodSession(n1, e, Used \cup {o})
      BY <3>2, <3>3, <3>4, <3>6, <3>7, <3>8 DEF GoodSession
    <3> QED BY <3>5, <3>9
  <2>7. GoodFrame(g, e)
    BY <1>c, <2>1, <2>2, MuxAssumption DEF GoodFrame, NewFrame, Frame, Command
  <2> HIDE DEF n, g, t
  <2>8. GoodSession(m, e, Used \cup {o})
    BY <2>6, <2>7, EnqueueDataGood
  <2>9. GoodStream(t, e, Used) /\ t.id # 0
    BY <1>d, <2>2, <2>4, <2>5 DEF GoodStream
  <2> HIDE DEF m
  <2> QED BY <1>c, <2>1, <2>3, <2>8, <2>9, NewObjStep, Zenon
<1> QED BY <1>1, <1>2

\* NewMuxSession establishes the invariant.
LEMMA InitGood == Init => IndInv
<1> SUFFICES ASSUME Init PROVE IndInv
  OBVIOUS
<1> DEFINE empty == <<>>
           none == [i \in Ids |-> NoObj]
<1>1. /\ empty \in Seq(Ids) /\ empty \in Seq(Obj) /\ empty \in Seq(Frame)
      /\ empty \in Seq([src : Obj \cup {NoObj}, seq : 0 .. MaxWrites])
      /\ DOMAIN empty = {}
  OBVIOUS
<1>2. none \in [Ids -> Obj \cup {NoObj}] /\ \A i \in Ids : none[i] = NoObj
  OBVIOUS
<1>3. NewStreamSession \in Stream
  <2>1. 0 \in Ids \cup {0} /\ NoObj \in Obj \cup {NoObj} /\ 0 \in 0 .. MaxWrites
    BY MuxAssumption
  <2> QED BY <1>1, <2>1, ZenonT(60) DEF NewStreamSession, Stream, StreamState
<1>4. \A e, U : GoodStream(NewStreamSession, e, U)
  <2>1. /\ NewStreamSession.id = 0 /\ NewStreamSession.call = "none"
        /\ NewStreamSession.drain = "none" /\ NewStreamSession.writing = FALSE
        /\ NewStreamSession.closer = "no" /\ NewStreamSession.resetter = "no"
        /\ NewStreamSession.sent = 0 /\ NewStreamSession.wrote = 0
    BY DEF NewStreamSession
  <2> QED BY <1>3, <2>1 DEF GoodStream
<1>5. \A e : GoodFrames(empty, e)
  BY <1>1 DEF GoodFrames
<1>6. ASSUME NEW e \in Endpoint, NEW U PROVE GoodSession(NewMuxSession(e), e, U)
  <2> DEFINE n == IF e = "relay" THEN 1 ELSE 2
             m == [streams |-> none, nextStreamID |-> n, freeIDs |-> empty,
                   pendingOpen |-> none, acceptCh |-> empty, goingAway |-> FALSE,
                   control |-> empty, data |-> empty, closing |-> "no",
                   rl |-> Reading, wl |-> "run", calls |-> 0, opened |-> 0,
                   count |-> 0, sentGoAway |-> FALSE]
  <2>1. NewMuxSession(e) = m
    BY DEF NewMuxSession
  <2>2. n \in Nat /\ n % 2 = Parity(e) /\ 0 < n /\ n <= 2
    BY DEF Parity
  <2>3. /\ Reading \in [pc : ReadPC, id : Ids \cup {0}, obj : Obj \cup {NoObj}]
        /\ GoodReader(Reading, U)
    BY DEF Reading, ReadPC, GoodReader
  <2>a. 0 \in 0 .. MaxObj
    BY MuxAssumption
  <2> HIDE DEF n, none, empty
  <2>4. m \in Session
    BY <1>1, <1>2, <2>2, <2>3, <2>a, Zenon DEF Session
  <2>5. GoodSession(m, e, U)
    <3>1. /\ m.nextStreamID = n /\ m.count = 0 /\ m.freeIDs = empty
          /\ m.streams = none /\ m.pendingOpen = none /\ m.acceptCh = empty
          /\ m.rl = Reading /\ m.control = empty /\ m.data = empty
      OBVIOUS
    <3> HIDE DEF m
    <3>2. /\ m.nextStreamID % 2 = Parity(e)
          /\ 0 < m.nextStreamID /\ m.nextStreamID <= 2 * m.count + 2
      BY <2>2, <3>1
    <3>3. DOMAIN m.freeIDs = {} /\ DOMAIN m.acceptCh = {}
      BY <1>1, <3>1
    <3>4. \A i \in Ids : m.streams[i] = NoObj /\ m.pendingOpen[i] = NoObj
      BY <1>2, <3>1
    <3>5. GoodReader(m.rl, U) /\ GoodFrames(m.control, e) /\ GoodFrames(m.data, e)
      BY <1>5, <2>3, <3>1
    <3> QED BY <2>4, <3>2, <3>3, <3>4, <3>5, Zenon DEF GoodSession
  <2> QED BY <2>1, <2>5
<1>7. /\ mux \in [Endpoint -> Session]
      /\ \A e \in Endpoint : GoodSession(mux[e], e, Used)
  <2>1. \A e \in Endpoint : mux[e] = NewMuxSession(e)
    BY DEF Init
  <2>2. \A e \in Endpoint : GoodSession(mux[e], e, Used)
    BY <1>6, <2>1
  <2>3. mux = [e \in Endpoint |-> mux[e]]
    BY DEF Init
  <2> QED BY <2>2, <2>3 DEF GoodSession
<1>8. /\ obj \in [Obj -> Stream]
      /\ \A o \in Obj : GoodStream(obj[o], o[1], Used)
  BY <1>3, <1>4 DEF Init
<1>9. /\ wire \in [Endpoint -> Seq(Frame)]
      /\ \A e \in Endpoint : GoodFrames(wire[e], e)
  BY <1>1, <1>5 DEF Init
<1> QED BY <1>7, <1>8, <1>9 DEF IndInv, Init

\* Every step preserves the invariant.
LEMMA StepGood == IndInv /\ [Next]_vars => IndInv'
<1> SUFFICES ASSUME IndInv, [Next]_vars PROVE IndInv'
  OBVIOUS
<1>1. ASSUME NEW e \in Endpoint, AppCall(e) \/ OpenStep(e) \/ AcceptStream(e)
      PROVE  IndInv'
  BY <1>1, SessionPreserves, NewStreamPreserves, AcceptPreserves
     DEF AppCall, OpenStep
<1>2. ASSUME NEW e \in Endpoint, ReadStep(e) PROVE IndInv'
  BY <1>2, SessionPreserves, NewStreamPreserves, ReadPreserves, ReadTailPreserves
     DEF ReadStep
<1>3. ASSUME NEW e \in Endpoint, WriteStep(e) \/ CloseStep(e) PROVE IndInv'
  BY <1>3, SessionPreserves, WriteLoopPreserves, CloseStreamsPreserves
     DEF WriteStep, CloseStep
<1>4. ASSUME NEW o \in Obj, StreamCall(o) \/ OpenerStep(o) PROVE IndInv'
  BY <1>4, OpenerPreserves, WriterPreserves, CloserPreserves, ResetterPreserves
     DEF StreamCall
<1>5. ASSUME NEW o \in Obj, WriterStep(o) \/ CloserStep(o) PROVE IndInv'
  BY <1>5, WriterPreserves, CloserPreserves
<1>6. ASSUME NEW o \in Obj, ResetterStep(o) \/ DrainStep(o) PROVE IndInv'
  BY <1>6, ResetterPreserves, DrainPreserves
<1>7. CASE UNCHANGED vars
  BY <1>7, Zenon DEF vars, IndInv, Used
<1> QED BY <1>1, <1>2, <1>3, <1>4, <1>5, <1>6, <1>7, BreakPreserves DEF Next

\* The invariant holds in every behaviour.
THEOREM Inductive == Spec => []IndInv
  BY InitGood, StepGood, PTL DEF Spec

\* Every field of the sessions, streams and frames keeps its type: no handler
\* indexes the stream map with ID 0, recycles ID 0 or runs past its bounds.
THEOREM TypeCorrect == Spec => []TypeOK
<1>1. IndInv => TypeOK
  BY DEF IndInv, TypeOK
<1> QED BY <1>1, Inductive, PTL

\* However OpenStream, cancellation, Close, Reset and teardown interleave and
\* recycle IDs, the two ends never open streams with the same ID, and no OPEN
\* in flight lies in its receiver's ID space.
THEOREM IdsDisjoint == Spec => []IdSpacesDisjoint
<1>1. IndInv => IdSpacesDisjoint
  <2> SUFFICES ASSUME IndInv PROVE IdSpacesDisjoint
    OBVIOUS
  <2>1. ASSUME NEW o \in Obj, NEW p \in Obj, LocallyOpened(o), LocallyOpened(p),
               o[1] # p[1]
        PROVE  obj[o].id # obj[p].id
    <3>1. o[1] \in Endpoint /\ p[1] \in Endpoint
      BY DEF Obj
    <3>2. obj[o].id % 2 = Parity(o[1]) /\ obj[p].id % 2 = Parity(p[1])
      BY <2>1 DEF IndInv, GoodStream, LocallyOpened
    <3> QED BY <2>1, <3>1, <3>2 DEF Parity, Endpoint
  <2>2. ASSUME NEW e \in Endpoint, NEW i \in DOMAIN wire[Peer(e)],
               wire[Peer(e)][i].cmd = "OPEN"
        PROVE  ~ownsID(mux[e], wire[Peer(e)][i].id)
    <3>1. Peer(e) \in Endpoint /\ Parity(Peer(e)) # Parity(e)
      BY DEF Peer, Endpoint, Parity
    <3>2. wire[Peer(e)][i].id % 2 = Parity(Peer(e))
      BY <2>2, <3>1, Zenon DEF IndInv, GoodFrames, GoodFrame
    <3>3. mux[e].nextStreamID % 2 = Parity(e)
      BY DEF IndInv, GoodSession
    <3> QED BY <3>1, <3>2, <3>3 DEF ownsID
  <2> QED BY <2>1, <2>2 DEF IdSpacesDisjoint
<1> QED BY <1>1, Inductive, PTL
=============================================================================
