--------------------------- MODULE ServiceProofs ----------------------------
(***************************************************************************)
(* Theorems about four components that work on their own, for every value  *)
(* of their constants.                                                     *)
(*                                                                         *)
(* AuditEmitter, for any callers, closers and buffer size: the log is      *)
(* written in the order of the Emits, and when a Close returns it holds    *)
(* every event that an Emit accepted.  Neither is inductive.  AuditInv     *)
(* says where the accepted events are, in order (log, drainLoop's hand,    *)
(* channel), and which steps of Close must lie behind a closed channel or  *)
(* a finished drainLoop.                                                   *)
(*                                                                         *)
(* FlowWindow, for any number of consumers and any width of the integers,  *)
(* the code's 32 bits included: the window neither overflows nor loses     *)
(* credit, and nobody sleeps on credit that is there.  NoSleepWithCredit   *)
(* is not inductive: between its test of the window and Wait a consumer is *)
(* not asleep yet, and an update in between would be lost.  FlowInv says   *)
(* that such a consumer holds the mutex.                                   *)
(*                                                                         *)
(* IPRateLimiter, for any sources, callers, burst and stale timeout such   *)
(* that a bucket fills up before its entry is stale: the sweep gives no    *)
(* source a connection more.  SweepGrantsNothing is not inductive: it      *)
(* needs that an entry's bucket is its own (so a bucket must be left for a *)
(* new entry), that an Allow between its two steps still has its entry,    *)
(* and that the tokens were last taken while the entry was fresh.          *)
(*                                                                         *)
(* Forwarder, for any number of chunks either way: Forward leaves nothing  *)
(* behind, and truncates neither direction without an error or a reset.    *)
(* That nothing is left rests on counting the results the copies have      *)
(* posted against those Forward has received (Balance); that nothing is    *)
(* truncated on counting the chunks on their way (Accounted) and on what a *)
(* copy has seen when it ends (Ended).                                     *)
(***************************************************************************)
EXTENDS AuditEmitter, FlowWindow, Forwarder, IPRateLimiter, FiniteSetTheorems,
        TLAPS

\* The audit emitter

AuditTypes ==
  /\ accepted \in Seq(Caller) /\ logged \in Seq(Caller)
  /\ holding \in Seq(Caller) /\ eventCh \in Seq(Caller)
  /\ closing \in [Closer -> {"idle", "once", "closeCh", "eventCh", "wait", "returned"}]

\* Every accepted event is in the log, in drainLoop's hand or in the channel.
Located == accepted = (logged \o holding) \o eventCh

\* drainLoop ends behind the closed and empty channel, and Close behind that.
Drained ==
  /\ drain = "done" => "eventCh" \in closed /\ holding = <<>> /\ eventCh = <<>>
  /\ \A c \in Closer : closing[c] = "returned" => drain = "done"

AuditInv == AuditTypes /\ Located /\ Drained

\* NewEmitter: nothing accepted, nothing logged.
LEMMA AuditInitHolds == ASSUME AuditInit PROVE AuditInv
<1>1. AuditTypes
  BY DEF AuditInit, AuditTypes
<1>2. <<>> = (<<>> \o <<>>) \o <<>>
  OBVIOUS
<1> QED BY <1>1, <1>2 DEF AuditInit, AuditInv, Located, Drained

\* A step of the callers and the closers alone.
LEMMA QuietGood ==
  ASSUME AuditInv, UNCHANGED <<closing, closed, eventCh, drain, holding, accepted, logged>>
  PROVE  AuditInv'
BY DEF AuditInv, AuditTypes, Located, Drained

\* Emit's send: the event is accepted and in the channel in one step, and the
\* channel is open, so drainLoop has not ended.
LEMMA SendGood ==
  ASSUME AuditInv, NEW c \in Caller, Send(c),
         UNCHANGED <<closing, closed, drain, holding, logged>>
  PROVE  AuditInv'
<1> DEFINE s == logged \o holding
<1>1. s \in Seq(Caller) /\ eventCh \in Seq(Caller) /\ accepted \in Seq(Caller)
  BY DEF AuditInv, AuditTypes
<1>2. accepted = s \o eventCh /\ (logged \o holding)' = s
  BY DEF AuditInv, Located
<1> HIDE DEF s
<1>3. /\ eventCh' = Append(eventCh, c) /\ eventCh' \in Seq(Caller)
      /\ accepted' = Append(accepted, c) /\ accepted' \in Seq(Caller)
  BY <1>1 DEF Send
<1>4. Append(s \o eventCh, c) = s \o Append(eventCh, c)
  BY <1>1, SMTT(60)
<1>5. Located'
  BY <1>2, <1>3, <1>4 DEF Located
<1>6. AuditTypes'
  BY <1>3 DEF AuditInv, AuditTypes
<1>7. drain # "done"
  BY DEF Send, AuditInv, Drained
<1> QED BY <1>5, <1>6, <1>7 DEF AuditInv, Drained

\* The select of Emit and a blocked Emit send, fail or change nothing here.
LEMMA EmitGood == ASSUME AuditInv, NEW c \in Caller, Emit(c) PROVE AuditInv'
BY SendGood, QuietGood DEF Emit, EmitSelect, EmitBlocked, Refused

\* Close: a caller returns behind a finished drainLoop, or behind a caller that did.
LEMMA CloseGood ==
  ASSUME AuditInv, NEW c \in Closer, CloseStart(c) \/ Close(c)
  PROVE  AuditInv'
<1>1. Located' /\ UNCHANGED <<accepted, logged, holding, eventCh, drain>>
  BY Zenon DEF CloseStart, Close, CloseChannel, CloseReturns, AuditInv, Located
<1>2. closed \subseteq closed'
  BY DEF CloseStart, Close, CloseChannel, CloseReturns
<1>3. AuditTypes'
  BY <1>1 DEF CloseStart, Close, CloseChannel, CloseReturns, AuditInv, AuditTypes
<1>4. \A d \in Closer : closing'[d] = "returned" => drain = "done"
  BY DEF CloseStart, Close, CloseChannel, CloseReturns, AuditInv, AuditTypes, Drained
<1> QED BY <1>1, <1>2, <1>3, <1>4 DEF AuditInv, Drained

\* drainLoop takes the oldest event of the channel, ...
LEMMA ReceiveGood == ASSUME AuditInv, DrainReceive PROVE AuditInv'
<1>1. /\ eventCh \in Seq(Caller) /\ eventCh # <<>> /\ logged \in Seq(Caller)
      /\ accepted = (logged \o <<>>) \o eventCh
  BY DEF DrainReceive, AuditInv, AuditTypes, Located
<1> DEFINE e == Head(eventCh)
           t == Tail(eventCh)
<1>2. e \in Caller /\ t \in Seq(Caller) /\ eventCh = <<e>> \o t
  BY <1>1
<1>3. holding' = <<e>> /\ eventCh' = t /\ UNCHANGED <<closing, closed, drain, accepted, logged>>
  BY DEF DrainReceive
<1> HIDE DEF e, t
<1>4. (logged \o <<>>) \o (<<e>> \o t) = (logged \o <<e>>) \o t
  BY <1>1, <1>2
<1>5. Located'
  BY <1>1, <1>2, <1>3, <1>4, Zenon DEF Located
<1>6. AuditTypes'
  BY <1>2, <1>3 DEF AuditInv, AuditTypes
<1>7. drain # "done"
  BY DEF DrainReceive
<1> QED BY <1>3, <1>5, <1>6, <1>7 DEF AuditInv, Drained

\* ... logs it, ...
LEMMA LogGood == ASSUME AuditInv, DrainLog PROVE AuditInv'
<1> DEFINE s == logged \o holding
<1>1. s \in Seq(Caller) /\ accepted = s \o eventCh
  BY DEF AuditInv, AuditTypes, Located
<1>2. logged' = s /\ holding' = <<>> /\ UNCHANGED <<closing, closed, drain, accepted, eventCh>>
  BY DEF DrainLog
<1> HIDE DEF s
<1>3. s \o <<>> = s
  BY <1>1
<1> QED BY <1>1, <1>2, <1>3 DEF AuditInv, AuditTypes, Located, Drained

\* ... and ends when the channel is closed and empty.
LEMMA DoneGood == ASSUME AuditInv, DrainDone PROVE AuditInv'
BY DEF DrainDone, AuditInv, AuditTypes, Located, Drained

\* Every step of the callers, the closers and drainLoop keeps the invariant.
LEMMA AuditStepHolds == ASSUME AuditInv, [AuditNext]_auditVars PROVE AuditInv'
<1>1. CASE UNCHANGED auditVars
  BY <1>1, QuietGood DEF auditVars
<1>2. ASSUME NEW c \in Caller, EmitCheck(c) PROVE AuditInv'
  BY <1>2, QuietGood DEF EmitCheck
<1> QED
  BY <1>1, <1>2, EmitGood, CloseGood, ReceiveGood, LogGood, DoneGood DEF AuditNext, drainLoop

\* Whatever the callers, the closers and the size of the buffer, the log is a
\* prefix of the events in the order in which Emit accepted them.
THEOREM InOrder == AuditSpec => []LoggedInOrder
<1>1. AuditInit => AuditInv
  BY AuditInitHolds
<1>2. AuditInv /\ [AuditNext]_auditVars => AuditInv'
  BY AuditStepHolds
<1>3. AuditInv => LoggedInOrder
  <2> SUFFICES ASSUME AuditInv PROVE LoggedInOrder
    OBVIOUS
  <2> DEFINE r == holding \o eventCh
  <2>1. logged \in Seq(Caller) /\ r \in Seq(Caller)
    BY DEF AuditInv, AuditTypes
  <2>2. accepted = logged \o r
    BY DEF AuditInv, AuditTypes, Located
  <2> HIDE DEF r
  <2>3. Len(logged) <= Len(logged \o r)
    BY <2>1
  <2>4. logged = SubSeq(logged \o r, 1, Len(logged))
    BY <2>1
  <2> QED BY <2>2, <2>3, <2>4 DEF LoggedInOrder
<1> QED BY <1>1, <1>2, <1>3, PTL DEF AuditSpec

\* When Close returns, to whichever of its callers, every event that an Emit
\* accepted is in the log, the ones accepted while Close ran included.
THEOREM ClosedIsFlushed == AuditSpec => []AcceptedIsLogged
<1>1. AuditInit => AuditInv
  BY AuditInitHolds
<1>2. AuditInv /\ [AuditNext]_auditVars => AuditInv'
  BY AuditStepHolds
<1>3. AuditInv => AcceptedIsLogged
  <2> SUFFICES ASSUME AuditInv, drain = "done" PROVE logged = accepted
    BY DEF AuditInv, Drained, AcceptedIsLogged
  <2>1. logged \in Seq(Caller) /\ accepted = (logged \o <<>>) \o <<>>
    BY DEF AuditInv, AuditTypes, Located, Drained
  <2> QED BY <2>1
<1> QED BY <1>1, <1>2, <1>3, PTL DEF AuditSpec

-----------------------------------------------------------------------------
\* The flow control window

ConsumerRecord ==
  [pc : {"idle", "lock", "checked", "waiting", "ok", "error"},
   n : 0 .. maxWindowSize, ctxDone : BOOLEAN, helper : BOOLEAN]

FlowTypes ==
  /\ consumer \in [Consumer -> ConsumerRecord]
  /\ granted \in Int /\ taken \in Int

\* A consumer that found the window too small holds the mutex until it sleeps,
\* and the window stays too small until it is woken.
SleepInv ==
  \A c \in Consumer :
    /\ consumer[c].pc \in {"checked", "waiting"} => available < consumer[c].n
    /\ consumer[c].pc = "checked" => mu = c

FlowInv == FlowTypes /\ WindowConserved /\ SleepInv

\* The bounds of the integer type are integers.
LEMMA Bounds ==
  /\ maxWindowSize \in Int /\ InitialSize \in 0 .. maxWindowSize
  /\ \A x \in 0 .. 2 ^ Width - 1 : ToSigned(x) \in Int
BY FlowAssumption DEF maxWindowSize, ToSigned

\* A broadcast leaves no consumer asleep and moves only the sleepers.
LEMMA WokenFacts ==
  ASSUME consumer \in [Consumer -> ConsumerRecord]
  PROVE  /\ Woken \in [Consumer -> ConsumerRecord]
         /\ \A c \in Consumer :
              /\ Woken[c].n = consumer[c].n
              /\ Woken[c].pc # "waiting"
              /\ Woken[c].pc = "checked" => consumer[c].pc = "checked"
<1> SUFFICES ASSUME NEW c \in Consumer
             PROVE  /\ Woken[c] \in ConsumerRecord
                    /\ Woken[c].n = consumer[c].n
                    /\ Woken[c].pc # "waiting"
                    /\ Woken[c].pc = "checked" => consumer[c].pc = "checked"
  BY DEF Woken
<1>1. consumer[c] \in ConsumerRecord
  OBVIOUS
<1>2. Woken[c] = IF consumer[c].pc = "waiting"
                 THEN [consumer[c] EXCEPT !.pc = "lock"] ELSE consumer[c]
  BY DEF Woken
<1> QED BY <1>1, <1>2 DEF ConsumerRecord

\* NewFlowWindow: the initial size, nobody waiting.
LEMMA FlowInitHolds == ASSUME FlowInit PROVE FlowInv
BY Bounds DEF FlowInit, FlowInv, FlowTypes, WindowConserved, SleepInv, ConsumerRecord

\* A step of one consumer that leaves the window as it is and takes c to a
\* record r that neither sleeps nor is about to.
LEMMA Moves ==
  ASSUME FlowInv, NEW c \in Consumer, NEW r \in ConsumerRecord,
         consumer' = [consumer EXCEPT ![c] = r],
         r.pc \notin {"checked", "waiting"},
         UNCHANGED <<available, mu, granted, taken>>
  PROVE  FlowInv'
BY DEF FlowInv, FlowTypes, WindowConserved, SleepInv

\* Starting Consume.
LEMMA StartGood ==
  ASSUME FlowInv, NEW c \in Consumer, NEW n \in 1 .. maxWindowSize,
         ConsumeStart(c, n)
  PROVE  FlowInv'
<1> DEFINE r == [consumer[c] EXCEPT !.pc = "lock", !.n = n, !.helper = TRUE]
<1>1. consumer[c] \in ConsumerRecord
  BY DEF FlowInv, FlowTypes
<1>2. n \in 0 .. maxWindowSize
  BY Bounds
<1>3. r \in ConsumerRecord /\ r.pc = "lock"
  BY <1>1, <1>2, Zenon DEF ConsumerRecord
<1>4. consumer' = [consumer EXCEPT ![c] = r]
  BY Zenon DEF ConsumeStart, FlowInv, FlowTypes
<1> QED BY <1>3, <1>4, Moves, Zenon DEF ConsumeStart

\* The loop of Consume: it takes what it asked for, gives up, or goes to sleep
\* with the mutex in its hands.
LEMMA ConsumeGood ==
  ASSUME FlowInv, NEW c \in Consumer, Consume(c)
  PROVE  FlowInv'
<1>1. consumer[c] \in ConsumerRecord /\ consumer \in [Consumer -> ConsumerRecord]
  BY DEF FlowInv, FlowTypes
<1>2. consumer[c].n \in 0 .. maxWindowSize
  BY <1>1 DEF ConsumerRecord
<1>3. \A x \in Consumer : consumer[x].pc # "checked"
  BY FlowAssumption DEF FlowInv, SleepInv, Consume
<1>4. /\ available \in Int /\ consumer[c].n \in Int
      /\ (available >= consumer[c].n) = ~ (available < consumer[c].n)
  BY <1>2, Bounds DEF FlowInv, WindowConserved
<1>5. CASE available >= consumer[c].n
  <2> DEFINE r == [consumer[c] EXCEPT !.pc = "ok", !.helper = FALSE]
  <2>1. r \in ConsumerRecord /\ r.pc = "ok"
    BY <1>1, Zenon DEF ConsumerRecord
  <2>2. consumer' = [consumer EXCEPT ![c].pc = "ok", ![c].helper = FALSE]
    BY <1>5, <1>4 DEF Consume
  <2>3. consumer' = [consumer EXCEPT ![c] = r]
    BY <1>1, <2>2, Zenon
  <2> HIDE DEF r
  <2>4. /\ available' = available - consumer[c].n /\ taken' = taken + consumer[c].n
        /\ granted' = granted
    BY <1>2, <1>5, Bounds DEF Consume, FlowInv, WindowConserved
  <2>5. FlowTypes'
    BY <1>1, <1>2, <2>1, <2>3, <2>4, Bounds DEF FlowInv, FlowTypes
  <2>6. WindowConserved'
    BY <1>2, <1>5, <2>4, Bounds DEF FlowInv, FlowTypes, WindowConserved
  <2>7. available' <= available /\ available \in Int /\ available' \in Int
    BY <1>2, <2>4, Bounds DEF FlowInv, WindowConserved
  <2>8. ASSUME NEW x \in Consumer
        PROVE  /\ consumer'[x].pc \in {"checked", "waiting"} =>
                    available' < consumer'[x].n
               /\ consumer'[x].pc # "checked"
    <3>1. CASE x = c
      BY <1>1, <2>1, <2>3, <3>1
    <3>2. CASE x # c
      <4>1. consumer'[x] = consumer[x] /\ consumer[x].n \in Int
        BY <1>1, <2>3, <3>2, Bounds DEF ConsumerRecord
      <4> QED BY <4>1, <1>3, <2>7 DEF FlowInv, SleepInv
    <3> QED BY <3>1, <3>2
  <2> QED BY <2>5, <2>6, <2>8 DEF FlowInv, SleepInv
<1>6. CASE available < consumer[c].n /\ consumer[c].ctxDone
  <2> DEFINE r == [consumer[c] EXCEPT !.pc = "error", !.helper = FALSE]
  <2>1. r \in ConsumerRecord /\ r.pc = "error"
    BY <1>1, Zenon DEF ConsumerRecord
  <2>2. /\ consumer' = [consumer EXCEPT ![c].pc = "error", ![c].helper = FALSE]
        /\ UNCHANGED <<available, mu, granted, taken>>
    BY <1>6, <1>4 DEF Consume
  <2>3. consumer' = [consumer EXCEPT ![c] = r]
    BY <1>1, <2>2, Zenon
  <2> QED BY <2>1, <2>3, <2>2, Moves, Zenon
<1>7. CASE available < consumer[c].n /\ ~ consumer[c].ctxDone
  <2> DEFINE r == [consumer[c] EXCEPT !.pc = "checked"]
  <2>1. r \in ConsumerRecord /\ r.pc = "checked" /\ r.n = consumer[c].n
    BY <1>1 DEF ConsumerRecord
  <2>2. /\ consumer' = [consumer EXCEPT ![c] = r]
        /\ mu' = c
        /\ UNCHANGED <<available, granted, taken>>
    BY <1>1, <1>2, <1>7, Bounds DEF Consume, FlowInv, WindowConserved
  <2> HIDE DEF r
  <2> QED BY <1>1, <1>3, <1>7, <2>1, <2>2 DEF FlowInv, FlowTypes, WindowConserved, SleepInv
<1> QED BY <1>5, <1>6, <1>7, <1>4

\* Going to sleep: the window is still what the test saw.
LEMMA WaitGood ==
  ASSUME FlowInv, NEW c \in Consumer, Wait(c)
  PROVE  FlowInv'
<1> DEFINE r == [consumer[c] EXCEPT !.pc = "waiting"]
<1>1. consumer[c] \in ConsumerRecord /\ consumer \in [Consumer -> ConsumerRecord]
  BY DEF FlowInv, FlowTypes
<1>2. r \in ConsumerRecord /\ r.pc = "waiting" /\ r.n = consumer[c].n
  BY <1>1 DEF ConsumerRecord
<1>3. consumer' = [consumer EXCEPT ![c] = r]
  BY DEF Wait
<1> HIDE DEF r
<1>4. \A x \in Consumer : x # c => consumer[x].pc # "checked"
  BY DEF Wait, FlowInv, SleepInv
<1> QED BY <1>1, <1>2, <1>3, <1>4 DEF Wait, FlowInv, FlowTypes, WindowConserved, SleepInv

\* The end of a context changes no consumer's place.
LEMMA CancelGood ==
  ASSUME FlowInv, NEW c \in Consumer, CancelConsume(c)
  PROVE  FlowInv'
<1> DEFINE r == [consumer[c] EXCEPT !.ctxDone = TRUE]
<1>1. consumer[c] \in ConsumerRecord /\ consumer \in [Consumer -> ConsumerRecord]
  BY DEF FlowInv, FlowTypes
<1>2. r \in ConsumerRecord /\ r.pc = consumer[c].pc /\ r.n = consumer[c].n
  BY <1>1, Zenon DEF ConsumerRecord
<1>3. consumer' = [consumer EXCEPT ![c] = r]
  BY DEF CancelConsume
<1> HIDE DEF r
<1> QED BY <1>1, <1>2, <1>3, Zenon
           DEF CancelConsume, FlowInv, FlowTypes, WindowConserved, SleepInv

\* The helper's broadcast: it may come while another consumer holds the mutex.
LEMMA HelperGood ==
  ASSUME FlowInv, NEW c \in Consumer, Helper(c)
  PROVE  FlowInv'
<1> DEFINE r == [Woken[c] EXCEPT !.helper = FALSE]
<1>1. consumer \in [Consumer -> ConsumerRecord]
  BY DEF FlowInv, FlowTypes
<1>2. Woken \in [Consumer -> ConsumerRecord] /\ Woken[c] \in ConsumerRecord
  BY <1>1, WokenFacts
<1>3. r \in ConsumerRecord /\ r.pc = Woken[c].pc /\ r.n = Woken[c].n
  BY <1>2, Zenon DEF ConsumerRecord
<1>4. consumer' = [Woken EXCEPT ![c] = r]
  BY DEF Helper
<1> HIDE DEF r
<1>5. /\ consumer' \in [Consumer -> ConsumerRecord]
      /\ \A x \in Consumer : /\ consumer'[x].pc = Woken[x].pc
                             /\ consumer'[x].n = Woken[x].n
  BY <1>2, <1>3, <1>4
<1>6. SleepInv'
  BY <1>1, <1>5, WokenFacts DEF Helper, FlowInv, SleepInv
<1> QED BY <1>5, <1>6 DEF Helper, FlowInv, FlowTypes, WindowConserved

\* A broadcast under the mutex leaves no consumer asleep or about to sleep.
LEMMA BroadcastGood ==
  ASSUME FlowInv, mu = "free", consumer' = Woken
  PROVE  consumer' \in [Consumer -> ConsumerRecord] /\ SleepInv'
<1>1. consumer \in [Consumer -> ConsumerRecord]
  BY DEF FlowInv, FlowTypes
<1>2. \A x \in Consumer : consumer[x].pc # "checked"
  BY FlowAssumption DEF FlowInv, SleepInv
<1> QED BY <1>1, <1>2, WokenFacts DEF SleepInv

\* WINDOW_UPDATE: the guard of Update keeps the sum inside the integer type.
LEMMA UpdateGood ==
  ASSUME FlowInv, NEW x \in 0 .. 2 ^ Width - 1, Update(x)
  PROVE  FlowInv'
<1> DEFINE i == ToSigned(x)
<1>1. i \in Int
  BY Bounds
<1>2. CASE i > 0 /\ available + i <= maxWindowSize
  <2>1. /\ available' = available + i /\ granted' = granted + i /\ taken' = taken
        /\ consumer' = Woken /\ mu = "free"
    BY <1>2 DEF Update
  <2>2. WindowConserved'
    BY <1>1, <1>2, <2>1, Bounds DEF FlowInv, FlowTypes, WindowConserved
  <2>3. granted' \in Int /\ taken' \in Int
    BY <1>1, <2>1 DEF FlowInv, FlowTypes
  <2> QED BY <2>1, <2>2, <2>3, BroadcastGood DEF FlowInv, FlowTypes
<1>3. CASE ~ (i > 0 /\ available + i <= maxWindowSize)
  <2>1. UNCHANGED <<available, granted, consumer, mu, taken>>
    BY <1>3 DEF Update
  <2> QED BY <2>1 DEF FlowInv, FlowTypes, WindowConserved, SleepInv
<1> QED BY <1>2, <1>3

\* Reset: the initial size again, and a broadcast.
LEMMA ResetGood ==
  ASSUME FlowInv, Reset
  PROVE  FlowInv'
<1>1. WindowConserved'
  BY Bounds DEF Reset, WindowConserved
<1> QED BY <1>1, BroadcastGood DEF Reset, FlowInv, FlowTypes

\* Every step keeps the invariant.
LEMMA FlowStepHolds == ASSUME FlowInv, [FlowNext]_flowVars PROVE FlowInv'
<1>1. CASE UNCHANGED flowVars
  BY <1>1 DEF flowVars, FlowInv, FlowTypes, WindowConserved, SleepInv
<1>2. CASE FlowNext
  BY <1>2, StartGood, ConsumeGood, WaitGood, CancelGood, HelperGood, UpdateGood,
     ResetGood DEF FlowNext
<1> QED BY <1>1, <1>2

\* Whatever the width of the integers and however many callers of Consume,
\* updates and cancellations there are, the window stays within its bounds and
\* equals what was granted less what was taken.
THEOREM Conserved == FlowSpec => []WindowConserved
<1>1. FlowInit => FlowInv
  BY FlowInitHolds
<1>2. FlowInv /\ [FlowNext]_flowVars => FlowInv'
  BY FlowStepHolds
<1>3. FlowInv => WindowConserved
  BY DEF FlowInv
<1> QED BY <1>1, <1>2, <1>3, PTL DEF FlowSpec

\* Nobody sleeps in Consume on a window that is large enough: the test and Wait
\* are one critical section, and Update and Reset broadcast inside theirs.
THEOREM NobodySleepsOnCredit == FlowSpec => []NoSleepWithCredit
<1>1. FlowInit => FlowInv
  BY FlowInitHolds
<1>2. FlowInv /\ [FlowNext]_flowVars => FlowInv'
  BY FlowStepHolds
<1>3. FlowInv => NoSleepWithCredit
  BY DEF FlowInv, SleepInv, NoSleepWithCredit
<1> QED BY <1>1, <1>2, <1>3, PTL DEF FlowSpec

-----------------------------------------------------------------------------
\* The rate limiter

\* What a bucket that was counted at x.at holds at time t.
Held(x, t) == IF Burst <= x.tokens + t - x.at THEN Burst ELSE x.tokens + t - x.at

Bucket == [tokens : 0 .. Burst, at : Nat]

RateTypes ==
  /\ now \in Nat
  /\ bucket \in [Objects -> Bucket] /\ \A b \in Objects : bucket[b].at <= now
  /\ ideal \in [IP -> Bucket] /\ \A ip \in IP : ideal[ip].at <= now
  /\ entries \in [IP -> [bucket : Objects \cup {0}, lastSeen : Nat]]
  /\ \A ip \in IP : entries[ip].lastSeen <= now
  /\ call \in [Call -> [pc : {"idle", "take", "allowed", "refused"},
                        bucket : Objects \cup {0}, at : Nat]]

\* No two IPs share a bucket.
OwnBuckets ==
  \A ip, jp \in IP :
    entries[ip].bucket = entries[jp].bucket /\ entries[ip].bucket # 0 => ip = jp

\* An Allow between its two steps has the bucket of its IP's entry: it has not
\* been away for long enough to be swept.
PendingHolds ==
  \A c \in Call :
    IF call[c].pc = "take"
    THEN /\ call[c].bucket = entries[Source(c)].bucket /\ call[c].bucket # 0
         /\ call[c].at <= entries[Source(c)].lastSeen
         /\ now - call[c].at <= MaxPause
    ELSE call[c].bucket = 0

\* There are no more buckets in the map than Allows that have begun.
InUse == {entries[ip].bucket : ip \in IP} \ {0}
Begun == {c \in Call : call[c].pc # "idle"}
Supply == Cardinality(InUse) <= Cardinality(Begun)

\* The unswept limiter's tokens were last taken while the entry was fresh.
TakenFresh == \A ip \in IP : ideal[ip].at <= entries[ip].lastSeen + MaxPause

\* SweepGrantsNothing, with the tokens of both buckets counted at now.
NoMore ==
  \A ip \in IP :
    (IF entries[ip].bucket = 0 THEN Burst ELSE Held(bucket[entries[ip].bucket], now))
      <= Held(ideal[ip], now)

RateInv == RateTypes /\ OwnBuckets /\ PendingHolds /\ Supply /\ TakenFresh /\ NoMore

\* A bucket fills up again, and an Allow comes back, before its entry is stale.
RefillsInTime == MaxPause <= StaleTimeout /\ Burst + MaxPause <= StaleTimeout + 1

\* golang.org/x/time/rate: the refill is capped at the burst, and a refused
\* caller takes nothing.
LEMMA TakeIs ==
  ASSUME RateTypes, NEW x \in Bucket, x.at <= now
  PROVE  /\ Tokens(x) = Held(x, now) /\ Held(x, now) \in 0 .. Burst
         /\ Take(x) = [tokens |-> IF Held(x, now) > 0 THEN Held(x, now) - 1 ELSE 0,
                       at |-> now]
<1>1. now \in Nat
  BY DEF RateTypes
<1>2. Tokens(x) = Held(x, now)
  BY DEF Tokens, Held
<1>3. Held(x, now) \in 0 .. Burst
  BY <1>1, RateAssumption DEF Held, Bucket
<1> QED BY <1>2, <1>3 DEF Take

\* The finite sets of the counting argument.
LEMMA SupplyFinite ==
  ASSUME RateTypes
  PROVE  /\ IsFiniteSet(Objects) /\ Cardinality(Objects) = Cardinality(Call)
         /\ InUse \in SUBSET Objects /\ IsFiniteSet(InUse) /\ Cardinality(InUse) \in Nat
         /\ IsFiniteSet(Begun) /\ Cardinality(Begun) \in Nat /\ Cardinality(Call) \in Nat
<1>1. Cardinality(Call) \in Nat
  BY RateAssumption, FS_CardinalityType
<1>2. IsFiniteSet(Objects) /\ Cardinality(Objects) = Cardinality(Call)
  BY <1>1, FS_Interval DEF Objects
<1>3. InUse \in SUBSET Objects
  BY DEF InUse, RateTypes
<1>4. IsFiniteSet(InUse) /\ IsFiniteSet(Begun)
  BY <1>2, <1>3, FS_Subset, RateAssumption DEF Begun
<1> QED BY <1>1, <1>2, <1>3, <1>4, FS_CardinalityType

\* While an Allow has not begun there is a bucket nobody has.
LEMMA FreshBucket ==
  ASSUME RateInv, NEW c \in Call, call[c].pc = "idle",
         NEW new, new = CHOOSE b \in Objects : b \notin Used
  PROVE  new \in Objects /\ new \notin Used
<1>1. RateTypes /\ Supply /\ PendingHolds
  BY DEF RateInv
<1>2. Cardinality(Begun) < Cardinality(Call)
  <2>1. Begun \in SUBSET (Call \ {c})
    BY DEF Begun
  <2>2. IsFiniteSet(Call \ {c}) /\ Cardinality(Call \ {c}) = Cardinality(Call) - 1
    BY RateAssumption, FS_RemoveElement
  <2>3. Cardinality(Begun) <= Cardinality(Call \ {c})
    BY <2>1, <2>2, FS_Subset
  <2> QED BY <2>2, <2>3, <1>1, SupplyFinite
<1>3. Used \in SUBSET (InUse \cup {0})
  <2>1. ASSUME NEW d \in Call PROVE call[d].bucket \in InUse \cup {0}
    <3>1. CASE call[d].pc = "take"
      BY <1>1, <3>1, RateAssumption DEF PendingHolds, InUse
    <3>2. CASE call[d].pc # "take"
      BY <1>1, <3>2 DEF PendingHolds
    <3> QED BY <3>1, <3>2
  <2> QED BY <2>1 DEF Used, InUse
<1>4. \E b \in Objects : b \notin Used
  <2> SUFFICES ASSUME Objects \in SUBSET Used PROVE FALSE
    OBVIOUS
  <2>1. 0 \notin Objects
    BY <1>1, SupplyFinite DEF Objects
  <2>2. Objects \in SUBSET InUse
    BY <1>3, <2>1
  <2>3. Cardinality(Objects) <= Cardinality(InUse)
    BY <2>2, <1>1, SupplyFinite, FS_Subset
  <2> QED BY <2>3, <1>1, <1>2, SupplyFinite DEF Supply
<1> QED BY <1>4

\* newIPRateLimiter: the map is empty, and both limiters are full.
LEMMA RateInitHolds == ASSUME RateInit PROVE RateInv
<1>1. Full \in Bucket
  BY RateAssumption DEF Full, Bucket
<1>2. RateTypes
  BY <1>1 DEF RateInit, RateTypes, Full
<1>3. InUse = {} /\ Begun = {}
  BY DEF InUse, Begun, RateInit
<1>4. Supply
  BY <1>3, FS_EmptySet DEF Supply
<1>5. OwnBuckets /\ PendingHolds
  BY DEF RateInit, OwnBuckets, PendingHolds
<1>6. TakenFresh
  BY RateAssumption DEF RateInit, TakenFresh, Full
<1>7. NoMore
  BY RateAssumption DEF RateInit, NoMore, Full, Held
<1> QED BY <1>2, <1>4, <1>5, <1>6, <1>7 DEF RateInv

\* Allow's first step: an entry of its own is made from a bucket nobody has,
\* and it is full, which is what the unswept limiter holds at least.
LEMMA LookupGood == ASSUME RateInv, NEW c \in Call, AllowLookup(c) PROVE RateInv'
<1> DEFINE ip == Source(c)
           new == CHOOSE b \in Objects : b \notin Used
           b == IF entries[ip].bucket = 0 THEN new ELSE entries[ip].bucket
<1>0. RateTypes /\ OwnBuckets /\ PendingHolds /\ Supply /\ TakenFresh /\ NoMore
  BY DEF RateInv
<1>1. /\ call[c].pc = "idle" /\ ip \in IP
      /\ entries' = [entries EXCEPT ![ip] = [bucket |-> b, lastSeen |-> now]]
      /\ call' = [call EXCEPT ![c] = [pc |-> "take", bucket |-> b, at |-> now]]
      /\ bucket' = IF entries[ip].bucket = 0
                   THEN [bucket EXCEPT ![new] = [tokens |-> Burst, at |-> now]]
                   ELSE bucket
      /\ now' = now /\ ideal' = ideal
  BY RateAssumption DEF AllowLookup
<1>2. new \in Objects /\ new \notin Used
  BY <1>1, FreshBucket
<1>3. 0 \notin Objects
  BY <1>0, SupplyFinite DEF Objects
<1> HIDE DEF ip, new
<1>4. b \in Objects /\ b # 0
  BY <1>0, <1>1, <1>2, <1>3, Zenon DEF RateTypes
<1>5. \A jp \in IP : jp # ip => entries[jp].bucket # b
  <2> SUFFICES ASSUME NEW jp \in IP, jp # ip PROVE entries[jp].bucket # b
    OBVIOUS
  <2>1. entries[jp].bucket # new
    BY <1>2 DEF Used
  <2> QED BY <2>1, <1>0, <1>1 DEF OwnBuckets
<1>6. \A o \in Objects : bucket'[o] = IF o = new /\ entries[ip].bucket = 0
                          THEN [tokens |-> Burst, at |-> now] ELSE bucket[o]
  BY <1>0, <1>1, <1>2 DEF RateTypes
<1>7. bucket' \in [Objects -> Bucket]
  BY <1>0, <1>1, <1>2, RateAssumption DEF RateTypes, Bucket
<1> HIDE DEF b
<1>8. \A jp \in IP : entries'[jp] = IF jp = ip THEN [bucket |-> b, lastSeen |-> now]
                                    ELSE entries[jp]
  BY <1>0, <1>1 DEF RateTypes
<1>9. \A d \in Call : call'[d] = IF d = c THEN [pc |-> "take", bucket |-> b, at |-> now]
                                 ELSE call[d]
  BY <1>0, <1>1, Zenon DEF RateTypes
<1>10. RateTypes'
  <2>1. entries' \in [IP -> [bucket : Objects \cup {0}, lastSeen : Nat]]
    BY <1>0, <1>1, <1>4 DEF RateTypes
  <2>2. call' \in [Call -> [pc : {"idle", "take", "allowed", "refused"},
                            bucket : Objects \cup {0}, at : Nat]]
    BY <1>0, <1>1, <1>4, Zenon DEF RateTypes
  <2>3. \A o \in Objects : bucket'[o].at <= now
    BY <1>0, <1>6 DEF RateTypes
  <2>4. \A jp \in IP : entries'[jp].lastSeen <= now
    BY <1>0, <1>8 DEF RateTypes
  <2> QED BY <1>0, <1>1, <1>7, <2>1, <2>2, <2>3, <2>4 DEF RateTypes
<1>11. OwnBuckets'
  BY <1>0, <1>5, <1>8 DEF OwnBuckets
<1>12. PendingHolds'
  <2> SUFFICES ASSUME NEW d \in Call
               PROVE  IF call'[d].pc = "take"
                      THEN /\ call'[d].bucket = entries'[Source(d)].bucket
                           /\ call'[d].bucket # 0
                           /\ call'[d].at <= entries'[Source(d)].lastSeen
                           /\ now - call'[d].at <= MaxPause
                      ELSE call'[d].bucket = 0
    BY <1>1 DEF PendingHolds
  <2>1. CASE d = c
    BY <2>1, <1>0, <1>1, <1>4, <1>8, <1>9, RateAssumption DEF RateTypes, ip
  <2>2. CASE d # c /\ Source(d) = ip
    <3>1. call'[d] = call[d] /\ call[d] \in [pc : {"idle", "take", "allowed", "refused"},
                                 bucket : Objects \cup {0}, at : Nat]
      BY <2>2, <1>0, <1>9 DEF RateTypes
    <3>2. CASE call[d].pc = "take"
      <4>1. /\ call[d].bucket = entries[ip].bucket /\ call[d].bucket # 0
            /\ now - call[d].at <= MaxPause /\ call[d].at <= now
        <5>1. call[d].at <= entries[ip].lastSeen
          BY <2>2, <3>2, <1>0, Zenon DEF PendingHolds
        <5>2. call[d].at <= now
          BY <5>1, <3>1, <1>0, <1>1 DEF RateTypes
        <5> QED BY <2>2, <3>2, <1>0, <5>2 DEF PendingHolds
      <4>2. entries'[ip] = [bucket |-> entries[ip].bucket, lastSeen |-> now]
        BY <4>1, <1>1, <1>8 DEF b
      <4> QED BY <2>2, <3>1, <3>2, <4>1, <4>2
    <3>3. CASE call[d].pc # "take"
      BY <3>1, <3>3, <1>0, Zenon DEF PendingHolds
    <3> QED BY <3>2, <3>3
  <2>3. CASE d # c /\ Source(d) # ip
    BY <2>3, <1>0, <1>8, <1>9, RateAssumption DEF PendingHolds
  <2> QED BY <2>1, <2>2, <2>3
<1>13. Supply'
  <2>1. InUse' \in SUBSET (InUse \cup {b})
    BY <1>8 DEF InUse
  <2>2. Begun' = Begun \cup {c} /\ c \notin Begun
    <3>1. call[c].pc = "idle" /\ call'[c].pc = "take"
      BY <1>1, <1>9
    <3>2. \A d \in Call : d # c => call'[d] = call[d]
      BY <1>9
    <3> QED BY <3>1, <3>2, Zenon DEF Begun
  <2>3. Cardinality(Begun') = Cardinality(Begun) + 1
    BY <2>2, <1>0, SupplyFinite, FS_AddElement, Zenon
  <2>4. IsFiniteSet(InUse \cup {b}) /\ Cardinality(InUse \cup {b}) <= Cardinality(InUse) + 1
    BY <1>0, SupplyFinite, FS_AddElement
  <2>5. Cardinality(InUse') <= Cardinality(InUse \cup {b})
    BY <2>1, <2>4, FS_Subset
  <2>6. Cardinality(InUse') \in Nat /\ Cardinality(InUse \cup {b}) \in Nat
    BY <2>1, <2>4, FS_Subset, FS_CardinalityType
  <2> QED BY <2>3, <2>4, <2>5, <2>6, <1>0, SupplyFinite DEF Supply
<1>14. TakenFresh'
  <2> SUFFICES ASSUME NEW jp \in IP PROVE ideal[jp].at <= entries'[jp].lastSeen + MaxPause
    BY <1>1, Zenon DEF TakenFresh
  <2>1. CASE jp = ip
    BY <2>1, <1>0, <1>8, RateAssumption DEF RateTypes, Bucket
  <2>2. CASE jp # ip
    BY <2>2, <1>0, <1>8, Zenon DEF TakenFresh
  <2> QED BY <2>1, <2>2
<1>15. NoMore'
  <2> SUFFICES ASSUME NEW jp \in IP
               PROVE  (IF entries'[jp].bucket = 0 THEN Burst
                       ELSE Held(bucket'[entries'[jp].bucket], now)) <= Held(ideal[jp], now)
    BY <1>1 DEF NoMore, Held
  <2>1. CASE jp = ip /\ entries[ip].bucket = 0
    <3>1. bucket'[b] = [tokens |-> Burst, at |-> now]
      BY <2>1, <1>4, <1>6, Zenon DEF b
    <3>2. Held(bucket'[b], now) = Burst
      BY <3>1, <1>0, RateAssumption DEF Held, RateTypes
    <3>3. Burst <= Held(ideal[ip], now)
      BY <2>1, <1>0, Zenon DEF NoMore
    <3> QED BY <2>1, <1>4, <1>8, <3>2, <3>3
  <2>2. CASE jp = ip /\ entries[ip].bucket # 0
    BY <2>2, <1>0, <1>1, <1>8 DEF NoMore, b
  <2>3. CASE jp # ip
    <3>1. entries'[jp] = entries[jp] /\ entries[jp].bucket # new
      BY <2>3, <1>2, <1>8 DEF Used
    <3>2. entries[jp].bucket # 0 => bucket'[entries[jp].bucket] = bucket[entries[jp].bucket]
      BY <3>1, <1>0, <1>6 DEF RateTypes
    <3> QED BY <3>1, <3>2, <1>0 DEF NoMore
  <2> QED BY <2>1, <2>2, <2>3, Zenon
<1> QED BY <1>10, <1>11, <1>12, <1>13, <1>14, <1>15 DEF RateInv

\* Allow's second step: both limiters lose the token, or the unswept one keeps it.
LEMMA TakeGood == ASSUME RateInv, NEW c \in Call, AllowTake(c) PROVE RateInv'
<1> DEFINE ip == Source(c)
           b == call[c].bucket
<1>0. RateTypes /\ OwnBuckets /\ PendingHolds /\ Supply /\ TakenFresh /\ NoMore
  BY DEF RateInv
<1>1. /\ call[c].pc = "take" /\ ip \in IP
      /\ b = entries[ip].bucket /\ b \in Objects /\ b # 0
      /\ call[c].at <= entries[ip].lastSeen /\ now - call[c].at <= MaxPause
  <2>1. call[c].pc = "take" /\ ip \in IP
    BY RateAssumption DEF AllowTake
  <2> QED BY <2>1, <1>0 DEF PendingHolds, RateTypes
<1>2. PICK w \in {"allowed", "refused"} :
        call' = [call EXCEPT ![c] = [pc |-> w, bucket |-> 0, at |-> call[c].at]]
  BY Zenon DEF AllowTake
<1>3. /\ bucket' = [bucket EXCEPT ![b] = Take(bucket[b])]
      /\ ideal' = IF Tokens(bucket[b]) > 0 THEN [ideal EXCEPT ![ip] = Take(ideal[ip])] ELSE ideal
      /\ entries' = entries /\ now' = now
  BY DEF AllowTake
<1> HIDE DEF ip, b
<1>4. /\ bucket[b] \in Bucket /\ bucket[b].at <= now
      /\ ideal[ip] \in Bucket /\ ideal[ip].at <= now
  BY <1>0, <1>1 DEF RateTypes
<1> DEFINE hb == Held(bucket[b], now)
           hi == Held(ideal[ip], now)
<1>5. /\ Tokens(bucket[b]) = hb /\ hb \in 0 .. Burst /\ hi \in 0 .. Burst
      /\ Take(bucket[b]) = [tokens |-> IF hb > 0 THEN hb - 1 ELSE 0, at |-> now]
      /\ Take(ideal[ip]) = [tokens |-> IF hi > 0 THEN hi - 1 ELSE 0, at |-> now]
  BY <1>0, <1>4, TakeIs
<1>6. hb <= hi
  BY <1>0, <1>1 DEF NoMore
<1> HIDE DEF hb, hi
<1>7. /\ \A o \in Objects : bucket'[o] = IF o = b THEN [tokens |-> IF hb > 0 THEN hb - 1 ELSE 0,
                                                     at |-> now] ELSE bucket[o]
      /\ bucket' \in [Objects -> Bucket]
  <2>1. [tokens |-> IF hb > 0 THEN hb - 1 ELSE 0, at |-> now] \in Bucket
    BY <1>0, <1>5, RateAssumption DEF Bucket, RateTypes
  <2> QED BY <2>1, <1>0, <1>1, <1>3, <1>5 DEF RateTypes
<1>8. /\ \A jp \in IP : ideal'[jp] = IF jp = ip /\ hb > 0 THEN [tokens |-> hi - 1, at |-> now]
                                     ELSE ideal[jp]
      /\ ideal' \in [IP -> Bucket]
  <2>1. CASE hb > 0
    <3>1. hi > 0 /\ [tokens |-> hi - 1, at |-> now] \in Bucket
      BY <2>1, <1>0, <1>5, <1>6, RateAssumption DEF Bucket, RateTypes
    <3>2. ideal' = [ideal EXCEPT ![ip] = [tokens |-> hi - 1, at |-> now]]
      BY <2>1, <3>1, <1>3, <1>5
    <3> QED BY <2>1, <3>1, <3>2, <1>0, <1>1 DEF RateTypes
  <2>2. CASE ~(hb > 0)
    BY <2>2, <1>0, <1>3, <1>5 DEF RateTypes
  <2> QED BY <2>1, <2>2
<1>9. \A d \in Call : call'[d] = IF d = c THEN [pc |-> w, bucket |-> 0, at |-> call[c].at]
                                 ELSE call[d]
  BY <1>0, <1>2 DEF RateTypes
<1>10. RateTypes'
  <2>1. call' \in [Call -> [pc : {"idle", "take", "allowed", "refused"},
                            bucket : Objects \cup {0}, at : Nat]]
    BY <1>0, <1>2 DEF RateTypes
  <2>2. \A o \in Objects : bucket'[o].at <= now
    BY <1>0, <1>7 DEF RateTypes
  <2>3. \A jp \in IP : ideal'[jp].at <= now
    BY <1>0, <1>8 DEF RateTypes
  <2> QED BY <1>0, <1>3, <1>7, <1>8, <2>1, <2>2, <2>3 DEF RateTypes
<1>11. OwnBuckets'
  BY <1>0, <1>3, Zenon DEF OwnBuckets
<1>12. PendingHolds'
  <2>1. call'[c].pc # "take" /\ call'[c].bucket = 0
    <3>1. call'[c] = [pc |-> w, bucket |-> 0, at |-> call[c].at] /\ w # "take"
      BY <1>9
    <3> QED BY <3>1
  <2> QED BY <2>1, <1>0, <1>3, <1>9 DEF PendingHolds
<1>13. Supply'
  <2>1. \A d \in Call : call'[d].pc = "idle" <=> call[d].pc = "idle"
    <3>1. call'[c] = [pc |-> w, bucket |-> 0, at |-> call[c].at] /\ w # "idle"
      BY <1>9
    <3>2. call'[c].pc # "idle" /\ call[c].pc # "idle"
      BY <3>1, <1>1
    <3> QED BY <3>2, <1>9
  <2>2. Begun' = Begun
    BY <2>1 DEF Begun
  <2>3. InUse' = InUse
    BY <1>3 DEF InUse
  <2> QED BY <2>2, <2>3, <1>0 DEF Supply
<1>14. TakenFresh'
  <2> SUFFICES ASSUME NEW jp \in IP PROVE ideal'[jp].at <= entries[jp].lastSeen + MaxPause
    BY <1>3 DEF TakenFresh
  <2>1. CASE jp = ip /\ hb > 0
    <3>1. now \in Nat /\ call[c].at \in Nat /\ entries[ip].lastSeen \in Nat
      BY <1>0, <1>1 DEF RateTypes
    <3> QED BY <2>1, <3>1, <1>1, <1>8, RateAssumption
  <2>2. CASE ~(jp = ip /\ hb > 0)
    BY <2>2, <1>0, <1>8, Zenon DEF TakenFresh
  <2> QED BY <2>1, <2>2
<1>15. NoMore'
  <2> SUFFICES ASSUME NEW jp \in IP
               PROVE  (IF entries[jp].bucket = 0 THEN Burst
                       ELSE Held(bucket'[entries[jp].bucket], now)) <= Held(ideal'[jp], now)
    BY <1>3 DEF NoMore, Held
  <2>1. CASE jp = ip /\ hb > 0
    <3>1. Held(bucket'[b], now) = hb - 1
      BY <2>1, <1>0, <1>1, <1>5, <1>7, RateAssumption DEF Held, RateTypes
    <3>2. Held(ideal'[ip], now) = hi - 1
      BY <2>1, <1>0, <1>5, <1>6, <1>8, RateAssumption DEF Held, RateTypes
    <3> QED BY <2>1, <3>1, <3>2, <1>1, <1>5, <1>6, RateAssumption
  <2>2. CASE jp = ip /\ ~(hb > 0)
    <3>1. Held(bucket'[b], now) = 0
      BY <2>2, <1>0, <1>1, <1>5, <1>7, RateAssumption DEF Held, RateTypes
    <3>2. Held(ideal'[ip], now) = hi
      BY <2>2, <1>8 DEF hi
    <3> QED BY <2>2, <3>1, <3>2, <1>1, <1>5, RateAssumption
  <2>3. CASE jp # ip
    <3>1. ideal'[jp] = ideal[jp] /\ entries[jp].bucket # b
      BY <2>3, <1>0, <1>1, <1>8, Zenon DEF OwnBuckets
    <3>2. entries[jp].bucket # 0 => bucket'[entries[jp].bucket] = bucket[entries[jp].bucket]
      BY <3>1, <1>0, <1>7 DEF RateTypes
    <3> QED BY <3>1, <3>2, <1>0 DEF NoMore
  <2> QED BY <2>1, <2>2, <2>3, Zenon
<1> QED BY <1>10, <1>11, <1>12, <1>13, <1>14, <1>15 DEF RateInv

\* sweep: by the time an entry is dropped no Allow holds its bucket, and the
\* unswept limiter is full again.
LEMMA SweepGood == ASSUME RateInv, RefillsInTime, Sweep PROVE RateInv'
<1> DEFINE stale(ip) == entries[ip].lastSeen < now - StaleTimeout
<1>0. RateTypes /\ OwnBuckets /\ PendingHolds /\ Supply /\ TakenFresh /\ NoMore
  BY DEF RateInv
<1>1. /\ now' = now /\ bucket' = bucket /\ call' = call /\ ideal' = ideal
      /\ entries' = [ip \in IP |-> IF stale(ip) THEN [entries[ip] EXCEPT !.bucket = 0]
                                   ELSE entries[ip]]
  BY DEF Sweep
<1>2. \A ip \in IP : /\ entries'[ip].lastSeen = entries[ip].lastSeen
                     /\ entries'[ip].bucket = IF stale(ip) THEN 0 ELSE entries[ip].bucket
  BY <1>0, <1>1 DEF RateTypes
<1>3. RateTypes'
  <2>1. entries' \in [IP -> [bucket : Objects \cup {0}, lastSeen : Nat]]
    BY <1>0, <1>1, Zenon DEF RateTypes
  <2> QED BY <2>1, <1>0, <1>1, <1>2 DEF RateTypes
<1> HIDE DEF stale
<1>4. OwnBuckets'
  BY <1>0, <1>2 DEF OwnBuckets
<1>5. PendingHolds'
  <2>1. ASSUME NEW c \in Call, call[c].pc = "take" PROVE ~stale(Source(c))
    <3>1. /\ now \in Nat /\ call[c].at \in Nat /\ Source(c) \in IP
          /\ entries[Source(c)].lastSeen \in Nat
      BY <1>0, RateAssumption DEF RateTypes
    <3>2. call[c].at <= entries[Source(c)].lastSeen /\ now - call[c].at <= MaxPause
      BY <2>1, <1>0 DEF PendingHolds
    <3> QED BY <3>1, <3>2, RateAssumption DEF RefillsInTime, stale
  <2> QED BY <2>1, <1>0, <1>1, <1>2, RateAssumption DEF PendingHolds
<1>6. Supply'
  <2>1. InUse' \in SUBSET InUse
    BY <1>2 DEF InUse
  <2>2. Begun' = Begun
    BY <1>1 DEF Begun
  <2>3. Cardinality(InUse') <= Cardinality(InUse) /\ Cardinality(InUse') \in Nat
    BY <2>1, <1>0, SupplyFinite, FS_Subset, FS_CardinalityType
  <2> QED BY <2>2, <2>3, <1>0, SupplyFinite DEF Supply
<1>7. TakenFresh'
  BY <1>0, <1>1, <1>2 DEF TakenFresh
<1>8. NoMore'
  <2> SUFFICES ASSUME NEW ip \in IP
               PROVE  (IF entries'[ip].bucket = 0 THEN Burst
                       ELSE Held(bucket[entries'[ip].bucket], now)) <= Held(ideal[ip], now)
    BY <1>1 DEF NoMore, Held
  <2>1. CASE stale(ip)
    <3>1. /\ now \in Nat /\ entries[ip].lastSeen \in Nat
          /\ ideal[ip].at \in Nat /\ ideal[ip].tokens \in 0 .. Burst
      BY <1>0 DEF RateTypes, Bucket
    <3>2. ideal[ip].at <= entries[ip].lastSeen + MaxPause
      BY <1>0 DEF TakenFresh
    <3>3. Burst <= ideal[ip].tokens + now - ideal[ip].at
      BY <2>1, <3>1, <3>2, RateAssumption DEF RefillsInTime, stale
    <3> QED BY <2>1, <3>3, <1>2, RateAssumption DEF Held
  <2>2. CASE ~stale(ip)
    BY <2>2, <1>0, <1>2 DEF NoMore
  <2> QED BY <2>1, <2>2
<1> QED BY <1>3, <1>4, <1>5, <1>6, <1>7, <1>8 DEF RateInv

\* Time passes: both limiters gain the same token, unless they are full.
LEMMA TimeGood == ASSUME RateInv, TimePasses PROVE RateInv'
<1>0. RateTypes /\ OwnBuckets /\ PendingHolds /\ Supply /\ TakenFresh /\ NoMore
  BY DEF RateInv
<1>1. /\ now' = now + 1 /\ bucket' = bucket /\ call' = call /\ ideal' = ideal
      /\ entries' = entries
      /\ \A c \in Call : call[c].pc = "take" => now - call[c].at < MaxPause
  BY DEF TimePasses
<1>2. RateTypes'
  BY <1>0, <1>1 DEF RateTypes, Bucket
<1>3. OwnBuckets' /\ TakenFresh'
  BY <1>0, <1>1 DEF OwnBuckets, TakenFresh
<1>4. PendingHolds'
  <2>1. ASSUME NEW c \in Call, call[c].pc = "take" PROVE now' - call[c].at <= MaxPause
    <3>1. now \in Nat /\ call[c].at \in Nat
      BY <1>0 DEF RateTypes
    <3> QED BY <2>1, <3>1, <1>1, RateAssumption
  <2> QED BY <2>1, <1>0, <1>1 DEF PendingHolds
<1>5. Supply'
  BY <1>0, <1>1 DEF Supply, InUse, Begun
<1>6. NoMore'
  <2> SUFFICES ASSUME NEW ip \in IP
               PROVE  (IF entries[ip].bucket = 0 THEN Burst
                       ELSE Held(bucket[entries[ip].bucket], now + 1)) <= Held(ideal[ip], now + 1)
    BY <1>1 DEF NoMore, Held
  <2>1. ideal[ip] \in Bucket /\ now \in Nat
    BY <1>0, Zenon DEF RateTypes
  <2>2. CASE entries[ip].bucket = 0
    <3>1. Burst <= Held(ideal[ip], now)
      BY <2>2, <1>0, Zenon DEF NoMore
    <3> QED BY <2>1, <2>2, <3>1, RateAssumption DEF Held, Bucket
  <2>3. CASE entries[ip].bucket # 0
    <3>1. bucket[entries[ip].bucket] \in Bucket
      BY <2>3, <1>0 DEF RateTypes
    <3>2. Held(bucket[entries[ip].bucket], now) <= Held(ideal[ip], now)
      BY <2>3, <1>0 DEF NoMore
    <3> QED BY <2>1, <2>3, <3>1, <3>2, RateAssumption DEF Held, Bucket
  <2> QED BY <2>2, <2>3, Zenon
<1> QED BY <1>2, <1>3, <1>4, <1>5, <1>6 DEF RateInv

\* Every step of the limiter preserves the invariant.
LEMMA RateStep == ASSUME RateInv, RefillsInTime, [RateNext]_rateVars PROVE RateInv'
<1>1. CASE Stop \/ UNCHANGED rateVars
  <2>1. UNCHANGED <<now, bucket, entries, call, ideal>>
    BY <1>1 DEF Stop, rateVars
  <2>2. RateTypes' /\ OwnBuckets' /\ TakenFresh'
    BY <2>1 DEF RateInv, RateTypes, OwnBuckets, TakenFresh
  <2>3. Supply'
    BY <2>1, Zenon DEF RateInv, Supply, InUse, Begun
  <2>4. PendingHolds'
    BY <2>1, Zenon DEF RateInv, PendingHolds
  <2>5. NoMore'
    BY <2>1 DEF RateInv, NoMore, Held
  <2> QED BY <2>2, <2>3, <2>4, <2>5 DEF RateInv
<1> QED BY <1>1, LookupGood, TakeGood, SweepGood, TimeGood DEF RateNext

\* What the counted buckets say is what the limiter's own Tokens say.
LEMMA NoMoreIsNothing == RateInv => SweepGrantsNothing
<1> SUFFICES ASSUME RateInv, NEW ip \in IP
             PROVE  (IF entries[ip].bucket = 0 THEN Burst
                     ELSE Tokens(bucket[entries[ip].bucket])) <= Tokens(ideal[ip])
  BY DEF SweepGrantsNothing
<1>1. RateTypes /\ NoMore
  BY DEF RateInv
<1>2. ideal[ip] \in Bucket /\ ideal[ip].at <= now
  BY <1>1 DEF RateTypes
<1>3. Tokens(ideal[ip]) = Held(ideal[ip], now)
  BY <1>1, <1>2, TakeIs
<1>4. ASSUME entries[ip].bucket # 0
      PROVE  Tokens(bucket[entries[ip].bucket]) = Held(bucket[entries[ip].bucket], now)
  <2>1. /\ bucket[entries[ip].bucket] \in Bucket
        /\ bucket[entries[ip].bucket].at <= now
    BY <1>1, <1>4 DEF RateTypes
  <2> QED BY <2>1, <1>1, TakeIs
<1> QED BY <1>1, <1>3, <1>4 DEF NoMore

\* ipRateLimiter.sweep, for any IPs, callers, burst and timeout such that a
\* bucket fills up within the stale timeout: dropping an idle entry gives no
\* source more connections than a limiter that never forgets would.
THEOREM SweepIsFree == RefillsInTime => (RateSpec => []SweepGrantsNothing)
<1> SUFFICES ASSUME RefillsInTime PROVE RateSpec => []SweepGrantsNothing
  OBVIOUS
<1>1. RateInit => RateInv
  BY RateInitHolds
<1>2. RateInv /\ [RateNext]_rateVars => RateInv'
  BY RateStep
<1>3. RateInv => SweepGrantsNothing
  BY NoMoreIsNothing
<1> QED BY <1>1, <1>2, <1>3, PTL DEF RateSpec

-----------------------------------------------------------------------------
\* The forwarder

CopyPC == {"off", "read", "write", "end", "done"}
StreamState == {"Open", "HalfClosedLocal", "HalfClosedRemote", "Closed", "Reset"}

StreamRecord == [state : StreamState, in : Nat, sent : Nat, got : Nat, stalled : BOOLEAN]
SocketRecord == [idle : BOOLEAN, open : BOOLEAN, wshut : BOOLEAN, eof : BOOLEAN,
                 broken : BOOLEAN, in : Nat, sent : Nat, got : Nat, stalled : BOOLEAN]

\* The types, with counters of any size and a channel of any length.
Shapes ==
  /\ pc \in PC
  /\ stream \in StreamRecord /\ sock \in SocketRecord
  /\ down \in Copy /\ up \in Copy
  /\ done \in Seq(BOOLEAN)
  /\ result \in BOOLEAN /\ ctxDone \in BOOLEAN /\ aborted \in BOOLEAN

\* The copies run from the dial on, and hold the socket until Forward returns.
Running ==
  /\ down.pc = "off" <=> up.pc = "off"
  /\ pc = "dial" => down.pc = "off"
  /\ down.pc = "off" => pc \in {"dial", "returned"}
  /\ pc \in {"dial", "returned"} => ~ sock.open

\* Results that Forward has received, and that a copy has posted.
Received ==
  IF pc \in {"second", "abort2", "reset2", "collect2", "last"} THEN 1
  ELSE IF pc = "returned" /\ down.pc # "off" THEN 2
  ELSE 0
Posted(c) == IF c.pc = "done" THEN 1 ELSE 0
Balance == Len(done) + Received = Posted(down) + Posted(up)

\* Chunks that a copy has read and not written.
Carried(c) == IF c.pc = "write" THEN 1 ELSE 0

\* Every chunk sent is delivered, carried or still to be read, unless a reset
\* discarded it or a copy failed with it.
Accounted ==
  /\ stream.sent <= MaxChunks /\ sock.sent <= MaxChunks
  /\ sock.got + Carried(down) + stream.in <= stream.sent
  /\ stream.got + Carried(up) + sock.in <= sock.sent
  /\ stream.state # "Reset" /\ ~ down.err
       => sock.got + Carried(down) + stream.in = stream.sent
  /\ ~ up.err => stream.got + Carried(up) + sock.in = sock.sent

\* A copy that ended without an error has read all that will ever come, and each
\* direction is shut by its copy.
Ended ==
  /\ down.pc \in {"end", "done"} /\ ~ down.err /\ stream.state # "Reset"
       => stream.in = 0 /\ ReadClosed
  /\ up.pc \in {"end", "done"} /\ ~ up.err => sock.in = 0 /\ sock.eof
  /\ sock.wshut => down.pc = "done"
  /\ up.pc = "done" => WriteClosed
  /\ WriteClosed /\ stream.state # "Reset" => up.pc = "done"

ForwardInv == Shapes /\ Running /\ Balance /\ Accounted /\ Ended

-----------------------------------------------------------------------------
\* Forward has not dialed.
LEMMA ForwardInitGood == Init => ForwardInv
<1> SUFFICES ASSUME Init PROVE ForwardInv
  OBVIOUS
<1>1. Shapes
  <2>1. stream \in StreamRecord
    BY DEF Init, StreamRecord, StreamState
  <2>2. sock \in SocketRecord
    BY DEF Init, SocketRecord
  <2>3. pc \in PC /\ down \in Copy /\ up \in Copy
    BY DEF Init, PC, Copy
  <2>4. done \in Seq(BOOLEAN)
    BY DEF Init
  <2> QED BY <2>1, <2>2, <2>3, <2>4, Zenon DEF Init, Shapes
<1>2. Running /\ Ended
  BY Zenon DEF Init, Running, Ended, WriteClosed
<1>3. Balance /\ Accounted
  BY ForwarderAssumption DEF Init, Balance, Received, Posted, Accounted, Carried
<1> QED BY <1>1, <1>2, <1>3 DEF ForwardInv

-----------------------------------------------------------------------------
\* Forward

\* The dial fails: nothing was started.
LEMMA DialFailsGood ==
  ASSUME ForwardInv, DialFails
  PROVE  ForwardInv'
<1>1. Shapes'
  BY DEF ForwardInv, Shapes, PC, Copy, DialFails
<1>2. Running'
  BY DEF ForwardInv, Shapes, SocketRecord, Copy, Running, DialFails
<1>3. Balance'
  BY DEF ForwardInv, Shapes, Copy, Running, Balance, Received, Posted, DialFails
<1>4. Accounted'
  BY DEF ForwardInv, Shapes, StreamRecord, SocketRecord, StreamState, Copy, Running,
     Accounted, Carried, Ended, ReadClosed, DialFails
<1>5. Ended'
  BY DEF ForwardInv, Shapes, StreamRecord, SocketRecord, StreamState, Copy, Running,
     Ended, ReadClosed, WriteClosed, DialFails
<1> QED BY <1>1, <1>2, <1>3, <1>4, <1>5 DEF ForwardInv

\* The dial succeeds and the two copies start.
LEMMA DialGood ==
  ASSUME ForwardInv, Dial
  PROVE  ForwardInv'
<1>1. Shapes'
  <2>1. sock' \in SocketRecord
    BY Zenon DEF ForwardInv, Shapes, SocketRecord, Dial
  <2> QED BY <2>1 DEF ForwardInv, Shapes, Copy, PC, Dial
<1>2. Running'
  BY DEF ForwardInv, Shapes, SocketRecord, Copy, Running, Dial
<1>3. Balance'
  BY DEF ForwardInv, Shapes, Copy, Running, Balance, Received, Posted, Dial
<1>4. Accounted'
  BY DEF ForwardInv, Shapes, StreamRecord, SocketRecord, StreamState, Copy, Running,
     Accounted, Carried, Ended, ReadClosed, Dial
<1>5. Ended'
  BY DEF ForwardInv, Shapes, StreamRecord, SocketRecord, StreamState, Copy, Running,
     Ended, ReadClosed, WriteClosed, Dial
<1> QED BY <1>1, <1>2, <1>3, <1>4, <1>5 DEF ForwardInv

\* waitDirection receives the first result.
LEMMA FirstDoneGood ==
  ASSUME ForwardInv, FirstDone
  PROVE  ForwardInv'
<1>1. Shapes'
  BY DEF ForwardInv, Shapes, PC, Copy, FirstDone
<1>2. Running'
  BY DEF ForwardInv, Shapes, SocketRecord, Copy, Running, FirstDone
<1>3. Balance'
  BY DEF ForwardInv, Shapes, Copy, Running, Balance, Received, Posted, FirstDone
<1>4. Accounted'
  BY DEF ForwardInv, Shapes, StreamRecord, SocketRecord, StreamState, Copy, Running,
     Accounted, Carried, Ended, ReadClosed, FirstDone
<1>5. Ended'
  BY DEF ForwardInv, Shapes, StreamRecord, SocketRecord, StreamState, Copy, Running,
     Ended, ReadClosed, WriteClosed, FirstDone
<1> QED BY <1>1, <1>2, <1>3, <1>4, <1>5 DEF ForwardInv

\* waitDirection receives the second, and Forward returns.
LEMMA SecondDoneGood ==
  ASSUME ForwardInv, SecondDone
  PROVE  ForwardInv'
<1>1. Shapes'
  <2>1. sock' \in SocketRecord
    BY Zenon DEF ForwardInv, Shapes, SocketRecord, SecondDone, Return
  <2>2. result' \in BOOLEAN
    BY Zenon DEF SecondDone, Return
  <2>3. done' \in Seq(BOOLEAN)
    <3>1. done \in Seq(BOOLEAN) /\ done # <<>> /\ done' = Tail(done)
      BY Zenon DEF ForwardInv, Shapes, SecondDone
    <3> QED BY <3>1
  <2>4. pc' = "returned" /\ UNCHANGED <<stream, down, up, ctxDone, aborted>>
    BY Zenon DEF SecondDone, Return
  <2> QED BY <2>1, <2>2, <2>3, <2>4 DEF ForwardInv, Shapes, PC
<1>2. Running'
  BY Zenon DEF ForwardInv, Shapes, SocketRecord, Copy, Running, SecondDone, Return
<1>3. Balance'
  <2>1. /\ pc = "second" /\ pc' = "returned" /\ UNCHANGED <<down, up>>
        /\ done # <<>> /\ done' = Tail(done)
    BY Zenon DEF SecondDone, Return
  <2> QED BY <2>1 DEF ForwardInv, Shapes, Copy, Running, Balance, Received, Posted
<1>4. Accounted'
  BY Zenon DEF ForwardInv, Shapes, StreamRecord, SocketRecord, StreamState, Copy, Running,
     Accounted, Carried, Ended, ReadClosed, SecondDone, Return
<1>5. Ended'
  BY Zenon DEF ForwardInv, Shapes, StreamRecord, SocketRecord, StreamState, Copy, Running,
     Ended, ReadClosed, WriteClosed, SecondDone, Return
<1> QED BY <1>1, <1>2, <1>3, <1>4, <1>5 DEF ForwardInv

\* The context ends the first wait.
LEMMA CanceledGood ==
  ASSUME ForwardInv, Canceled
  PROVE  ForwardInv'
<1>1. Shapes'
  BY DEF ForwardInv, Shapes, PC, Copy, Canceled
<1>2. Running'
  BY DEF ForwardInv, Shapes, SocketRecord, Copy, Running, Canceled
<1>3. Balance'
  BY DEF ForwardInv, Shapes, Copy, Running, Balance, Received, Posted, Canceled
<1>4. Accounted'
  BY DEF ForwardInv, Shapes, StreamRecord, SocketRecord, StreamState, Copy, Running,
     Accounted, Carried, Ended, ReadClosed, Canceled
<1>5. Ended'
  BY DEF ForwardInv, Shapes, StreamRecord, SocketRecord, StreamState, Copy, Running,
     Ended, ReadClosed, WriteClosed, Canceled
<1> QED BY <1>1, <1>2, <1>3, <1>4, <1>5 DEF ForwardInv

\* The linger timer ends the second.
LEMMA LingeredGood ==
  ASSUME ForwardInv, Lingered
  PROVE  ForwardInv'
<1>1. Shapes'
  BY DEF ForwardInv, Shapes, PC, Copy, Lingered
<1>2. Running'
  BY DEF ForwardInv, Shapes, SocketRecord, Copy, Running, Lingered
<1>3. Balance'
  BY DEF ForwardInv, Shapes, Copy, Running, Balance, Received, Posted, Lingered
<1>4. Accounted'
  BY DEF ForwardInv, Shapes, StreamRecord, SocketRecord, StreamState, Copy, Running,
     Accounted, Carried, Ended, ReadClosed, Lingered
<1>5. Ended'
  BY DEF ForwardInv, Shapes, StreamRecord, SocketRecord, StreamState, Copy, Running,
     Ended, ReadClosed, WriteClosed, Lingered
<1> QED BY <1>1, <1>2, <1>3, <1>4, <1>5 DEF ForwardInv

\* abort() closes the socket.
LEMMA AbortGood ==
  ASSUME ForwardInv, Abort
  PROVE  ForwardInv'
<1>1. Shapes'
  <2>1. sock' \in SocketRecord
    BY Zenon DEF ForwardInv, Shapes, SocketRecord, Abort
  <2> QED BY <2>1 DEF ForwardInv, Shapes, Copy, PC, Abort
<1>2. Running'
  BY DEF ForwardInv, Shapes, SocketRecord, Copy, Running, Abort
<1>3. Balance'
  BY DEF ForwardInv, Shapes, Copy, Running, Balance, Received, Posted, Abort
<1>4. Accounted'
  BY DEF ForwardInv, Shapes, StreamRecord, SocketRecord, StreamState, Copy, Running,
     Accounted, Carried, Ended, ReadClosed, Abort
<1>5. Ended'
  BY DEF ForwardInv, Shapes, StreamRecord, SocketRecord, StreamState, Copy, Running,
     Ended, ReadClosed, WriteClosed, Abort
<1> QED BY <1>1, <1>2, <1>3, <1>4, <1>5 DEF ForwardInv

\* abort() resets the stream.
LEMMA AbortStreamGood ==
  ASSUME ForwardInv, AbortStream
  PROVE  ForwardInv'
<1>1. Shapes'
  <2>1. stream' \in StreamRecord
    BY Zenon DEF ForwardInv, Shapes, StreamRecord, StreamState, AbortStream, ResetStream
  <2> QED BY <2>1 DEF ForwardInv, Shapes, Copy, PC, AbortStream, ResetStream
<1>2. Running'
  BY DEF ForwardInv, Shapes, SocketRecord, Copy, Running, AbortStream, ResetStream
<1>3. Balance'
  BY DEF ForwardInv, Shapes, Copy, Running, Balance, Received, Posted, AbortStream, ResetStream
<1>4. Accounted'
  BY DEF ForwardInv, Shapes, StreamRecord, SocketRecord, StreamState, Copy, Running,
     Accounted, Carried, Ended, ReadClosed, AbortStream, ResetStream
<1>5. Ended'
  BY DEF ForwardInv, Shapes, StreamRecord, SocketRecord, StreamState, Copy, Running,
     Ended, ReadClosed, WriteClosed, AbortStream, ResetStream
<1> QED BY <1>1, <1>2, <1>3, <1>4, <1>5 DEF ForwardInv

\* The first receive after abort().
LEMMA CollectGood ==
  ASSUME ForwardInv, Collect
  PROVE  ForwardInv'
<1>1. Shapes'
  BY DEF ForwardInv, Shapes, PC, Copy, Collect
<1>2. Running'
  BY DEF ForwardInv, Shapes, SocketRecord, Copy, Running, Collect
<1>3. Balance'
  BY DEF ForwardInv, Shapes, Copy, Running, Balance, Received, Posted, Collect
<1>4. Accounted'
  BY DEF ForwardInv, Shapes, StreamRecord, SocketRecord, StreamState, Copy, Running,
     Accounted, Carried, Ended, ReadClosed, Collect
<1>5. Ended'
  BY DEF ForwardInv, Shapes, StreamRecord, SocketRecord, StreamState, Copy, Running,
     Ended, ReadClosed, WriteClosed, Collect
<1> QED BY <1>1, <1>2, <1>3, <1>4, <1>5 DEF ForwardInv

\* The last receive, and Forward returns.
LEMMA CollectLastGood ==
  ASSUME ForwardInv, CollectLast
  PROVE  ForwardInv'
<1>1. Shapes'
  <2>1. sock' \in SocketRecord
    BY Zenon DEF ForwardInv, Shapes, SocketRecord, CollectLast, Return
  <2> QED BY <2>1 DEF ForwardInv, Shapes, Copy, PC, CollectLast, Return
<1>2. Running'
  BY DEF ForwardInv, Shapes, SocketRecord, Copy, Running, CollectLast, Return
<1>3. Balance'
  BY DEF ForwardInv, Shapes, Copy, Running, Balance, Received, Posted, CollectLast, Return
<1>4. Accounted'
  BY DEF ForwardInv, Shapes, StreamRecord, SocketRecord, StreamState, Copy, Running,
     Accounted, Carried, Ended, ReadClosed, CollectLast, Return
<1>5. Ended'
  BY DEF ForwardInv, Shapes, StreamRecord, SocketRecord, StreamState, Copy, Running,
     Ended, ReadClosed, WriteClosed, CollectLast, Return
<1> QED BY <1>1, <1>2, <1>3, <1>4, <1>5 DEF ForwardInv

-----------------------------------------------------------------------------
\* copyStreamToLocal

\* copyStreamToLocal takes a chunk from the stream.
LEMMA DownReadGood ==
  ASSUME ForwardInv, DownRead
  PROVE  ForwardInv'
<1>1. Shapes'
  <2>1. stream' \in StreamRecord
    BY DEF ForwardInv, Shapes, StreamRecord, StreamState, DownRead
  <2> QED BY <2>1 DEF ForwardInv, Shapes, Copy, PC, DownRead
<1>2. Running'
  BY DEF ForwardInv, Shapes, SocketRecord, Copy, Running, DownRead
<1>3. Balance'
  BY DEF ForwardInv, Shapes, Copy, Running, Balance, Received, Posted, DownRead
<1>4. Accounted'
  BY DEF ForwardInv, Shapes, StreamRecord, SocketRecord, StreamState, Copy, Running,
     Accounted, Carried, Ended, ReadClosed, DownRead
<1>5. Ended'
  BY DEF ForwardInv, Shapes, StreamRecord, SocketRecord, StreamState, Copy, Running,
     Ended, ReadClosed, WriteClosed, DownRead
<1> QED BY <1>1, <1>2, <1>3, <1>4, <1>5 DEF ForwardInv

\* It finds the end of the stream.
LEMMA DownEofGood ==
  ASSUME ForwardInv, DownEof
  PROVE  ForwardInv'
<1>1. Shapes'
  BY DEF ForwardInv, Shapes, PC, Copy, DownEof
<1>2. Running'
  BY DEF ForwardInv, Shapes, SocketRecord, Copy, Running, DownEof
<1>3. Balance'
  BY DEF ForwardInv, Shapes, Copy, Running, Balance, Received, Posted, DownEof
<1>4. Accounted'
  BY DEF ForwardInv, Shapes, StreamRecord, SocketRecord, StreamState, Copy, Running,
     Accounted, Carried, Ended, ReadClosed, DownEof
<1>5. Ended'
  BY DEF ForwardInv, Shapes, StreamRecord, SocketRecord, StreamState, Copy, Running,
     Ended, ReadClosed, WriteClosed, DownEof
<1> QED BY <1>1, <1>2, <1>3, <1>4, <1>5 DEF ForwardInv

\* It hands the chunk to the service.
LEMMA DownWriteGood ==
  ASSUME ForwardInv, DownWrite
  PROVE  ForwardInv'
<1>1. Shapes'
  <2>1. sock' \in SocketRecord
    BY DEF ForwardInv, Shapes, SocketRecord, DownWrite
  <2> QED BY <2>1 DEF ForwardInv, Shapes, Copy, PC, DownWrite
<1>2. Running'
  BY DEF ForwardInv, Shapes, SocketRecord, Copy, Running, DownWrite
<1>3. Balance'
  BY DEF ForwardInv, Shapes, Copy, Running, Balance, Received, Posted, DownWrite
<1>4. Accounted'
  BY DEF ForwardInv, Shapes, StreamRecord, SocketRecord, StreamState, Copy, Running,
     Accounted, Carried, Ended, ReadClosed, DownWrite
<1>5. Ended'
  BY Zenon DEF ForwardInv, Shapes, StreamRecord, SocketRecord, StreamState, Copy, Running,
     Ended, ReadClosed, WriteClosed, DownWrite
<1> QED BY <1>1, <1>2, <1>3, <1>4, <1>5 DEF ForwardInv

\* It cannot: the chunk is lost with an error.
LEMMA DownWriteFailsGood ==
  ASSUME ForwardInv, DownWriteFails
  PROVE  ForwardInv'
<1>1. Shapes'
  BY DEF ForwardInv, Shapes, PC, Copy, DownWriteFails
<1>2. Running'
  BY DEF ForwardInv, Shapes, SocketRecord, Copy, Running, DownWriteFails
<1>3. Balance'
  BY Zenon DEF ForwardInv, Shapes, Copy, Running, Balance, Received, Posted, DownWriteFails
<1>4. Accounted'
  BY DEF ForwardInv, Shapes, StreamRecord, SocketRecord, StreamState, Copy, Running,
     Accounted, Carried, Ended, ReadClosed, DownWriteFails
<1>5. Ended'
  BY DEF ForwardInv, Shapes, StreamRecord, SocketRecord, StreamState, Copy, Running,
     Ended, ReadClosed, WriteClosed, DownWriteFails
<1> QED BY <1>1, <1>2, <1>3, <1>4, <1>5 DEF ForwardInv

\* It shuts the socket's write side and posts its result.
LEMMA DownEndsGood ==
  ASSUME ForwardInv, DownEnds
  PROVE  ForwardInv'
<1>1. Shapes'
  <2>1. sock' \in SocketRecord
    BY DEF ForwardInv, Shapes, SocketRecord, DownEnds
  <2> QED BY <2>1 DEF ForwardInv, Shapes, Copy, PC, DownEnds
<1>2. Running'
  BY DEF ForwardInv, Shapes, SocketRecord, Copy, Running, DownEnds
<1>3. Balance'
  BY DEF ForwardInv, Shapes, Copy, Running, Balance, Received, Posted, DownEnds
<1>4. Accounted'
  BY DEF ForwardInv, Shapes, StreamRecord, SocketRecord, StreamState, Copy, Running,
     Accounted, Carried, Ended, ReadClosed, DownEnds
<1>5. Ended'
  BY DEF ForwardInv, Shapes, StreamRecord, SocketRecord, StreamState, Copy, Running,
     Ended, ReadClosed, WriteClosed, DownEnds
<1> QED BY <1>1, <1>2, <1>3, <1>4, <1>5 DEF ForwardInv

-----------------------------------------------------------------------------
\* copyLocalToStream

\* copyLocalToStream takes a chunk from the service.
LEMMA UpReadGood ==
  ASSUME ForwardInv, UpRead
  PROVE  ForwardInv'
<1>1. Shapes'
  <2>1. sock' \in SocketRecord
    BY DEF ForwardInv, Shapes, SocketRecord, UpRead
  <2> QED BY <2>1 DEF ForwardInv, Shapes, Copy, PC, UpRead
<1>2. Running'
  BY DEF ForwardInv, Shapes, SocketRecord, Copy, Running, UpRead
<1>3. Balance'
  BY DEF ForwardInv, Shapes, Copy, Running, Balance, Received, Posted, UpRead
<1>4. Accounted'
  BY DEF ForwardInv, Shapes, StreamRecord, SocketRecord, StreamState, Copy, Running,
     Accounted, Carried, Ended, ReadClosed, UpRead
<1>5. Ended'
  BY DEF ForwardInv, Shapes, StreamRecord, SocketRecord, StreamState, Copy, Running,
     Ended, ReadClosed, WriteClosed, UpRead
<1> QED BY <1>1, <1>2, <1>3, <1>4, <1>5 DEF ForwardInv

\* It finds the end of the answer.
LEMMA UpEofGood ==
  ASSUME ForwardInv, UpEof
  PROVE  ForwardInv'
<1>1. Shapes'
  BY DEF ForwardInv, Shapes, PC, Copy, UpEof
<1>2. Running'
  BY DEF ForwardInv, Shapes, SocketRecord, Copy, Running, UpEof
<1>3. Balance'
  BY DEF ForwardInv, Shapes, Copy, Running, Balance, Received, Posted, UpEof
<1>4. Accounted'
  BY DEF ForwardInv, Shapes, StreamRecord, SocketRecord, StreamState, Copy, Running,
     Accounted, Carried, Ended, ReadClosed, UpEof
<1>5. Ended'
  BY DEF ForwardInv, Shapes, StreamRecord, SocketRecord, StreamState, Copy, Running,
     Ended, ReadClosed, WriteClosed, UpEof
<1> QED BY <1>1, <1>2, <1>3, <1>4, <1>5 DEF ForwardInv

\* The connection fails under it.
LEMMA UpReadFailsGood ==
  ASSUME ForwardInv, UpReadFails
  PROVE  ForwardInv'
<1>1. Shapes'
  BY DEF ForwardInv, Shapes, PC, Copy, UpReadFails
<1>2. Running'
  BY DEF ForwardInv, Shapes, SocketRecord, Copy, Running, UpReadFails
<1>3. Balance'
  BY Zenon DEF ForwardInv, Shapes, Copy, Running, Balance, Received, Posted, UpReadFails
<1>4. Accounted'
  BY DEF ForwardInv, Shapes, StreamRecord, SocketRecord, StreamState, Copy, Running,
     Accounted, Carried, Ended, ReadClosed, UpReadFails
<1>5. Ended'
  BY DEF ForwardInv, Shapes, StreamRecord, SocketRecord, StreamState, Copy, Running,
     Ended, ReadClosed, WriteClosed, UpReadFails
<1> QED BY <1>1, <1>2, <1>3, <1>4, <1>5 DEF ForwardInv

\* It hands the chunk to the stream.
LEMMA UpWriteGood ==
  ASSUME ForwardInv, UpWrite
  PROVE  ForwardInv'
<1>1. Shapes'
  <2>1. stream' \in StreamRecord
    BY DEF ForwardInv, Shapes, StreamRecord, StreamState, UpWrite
  <2> QED BY <2>1 DEF ForwardInv, Shapes, Copy, PC, UpWrite
<1>2. Running'
  BY DEF ForwardInv, Shapes, SocketRecord, Copy, Running, UpWrite
<1>3. Balance'
  BY DEF ForwardInv, Shapes, Copy, Running, Balance, Received, Posted, UpWrite
<1>4. Accounted'
  BY DEF ForwardInv, Shapes, StreamRecord, SocketRecord, StreamState, Copy, Running,
     Accounted, Carried, Ended, ReadClosed, UpWrite
<1>5. Ended'
  BY DEF ForwardInv, Shapes, StreamRecord, SocketRecord, StreamState, Copy, Running,
     Ended, ReadClosed, WriteClosed, UpWrite
<1> QED BY <1>1, <1>2, <1>3, <1>4, <1>5 DEF ForwardInv

\* It cannot: the stream was reset.
LEMMA UpWriteFailsGood ==
  ASSUME ForwardInv, UpWriteFails
  PROVE  ForwardInv'
<1>1. Shapes'
  BY DEF ForwardInv, Shapes, PC, Copy, UpWriteFails
<1>2. Running'
  BY DEF ForwardInv, Shapes, SocketRecord, Copy, Running, UpWriteFails
<1>3. Balance'
  BY Zenon DEF ForwardInv, Shapes, Copy, Running, Balance, Received, Posted, UpWriteFails
<1>4. Accounted'
  BY DEF ForwardInv, Shapes, StreamRecord, SocketRecord, StreamState, Copy, Running,
     Accounted, Carried, Ended, ReadClosed, UpWriteFails
<1>5. Ended'
  BY DEF ForwardInv, Shapes, StreamRecord, SocketRecord, StreamState, Copy, Running,
     Ended, ReadClosed, WriteClosed, UpWriteFails
<1> QED BY <1>1, <1>2, <1>3, <1>4, <1>5 DEF ForwardInv

\* It closes the stream's write side and posts its result.
LEMMA UpEndsGood ==
  ASSUME ForwardInv, UpEnds
  PROVE  ForwardInv'
<1>1. Shapes'
  <2>1. stream' \in StreamRecord
    BY DEF ForwardInv, Shapes, StreamRecord, StreamState, UpEnds
  <2> QED BY <2>1 DEF ForwardInv, Shapes, Copy, PC, UpEnds
<1>2. Running'
  BY DEF ForwardInv, Shapes, SocketRecord, Copy, Running, UpEnds
<1>3. Balance'
  BY DEF ForwardInv, Shapes, Copy, Running, Balance, Received, Posted, UpEnds
<1>4. Accounted'
  BY DEF ForwardInv, Shapes, StreamRecord, SocketRecord, StreamState, Copy, Running,
     Accounted, Carried, Ended, ReadClosed, UpEnds
<1>5. Ended'
  BY DEF ForwardInv, Shapes, StreamRecord, SocketRecord, StreamState, Copy, Running,
     Ended, ReadClosed, WriteClosed, UpEnds
<1> QED BY <1>1, <1>2, <1>3, <1>4, <1>5 DEF ForwardInv

-----------------------------------------------------------------------------
\* The surroundings

\* The accept loop ends.
LEMMA ForwardCancelGood ==
  ASSUME ForwardInv, Cancel
  PROVE  ForwardInv'
<1>1. Shapes'
  BY DEF ForwardInv, Shapes, PC, Copy, Cancel
<1>2. Running'
  BY DEF ForwardInv, Shapes, SocketRecord, Copy, Running, Cancel
<1>3. Balance'
  BY Zenon DEF ForwardInv, Shapes, Copy, Running, Balance, Received, Posted, Cancel
<1>4. Accounted'
  BY DEF ForwardInv, Shapes, StreamRecord, SocketRecord, StreamState, Copy, Running,
     Accounted, Carried, Ended, ReadClosed, Cancel
<1>5. Ended'
  BY DEF ForwardInv, Shapes, StreamRecord, SocketRecord, StreamState, Copy, Running,
     Ended, ReadClosed, WriteClosed, Cancel
<1> QED BY <1>1, <1>2, <1>3, <1>4, <1>5 DEF ForwardInv

\* The peer sends, ends, resets or stops reading.
LEMMA PeerStepGood ==
  ASSUME ForwardInv, PeerStep
  PROVE  ForwardInv'
<1> DEFINE i == stream.in + 1
           s == stream.sent + 1
           Sends == stream' = [stream EXCEPT !.in = i, !.sent = s]
<1>1. Shapes'
  <2>1. stream' \in StreamRecord
    <3>1. stream \in StreamRecord
      BY DEF ForwardInv, Shapes
    <3>2. ResetStream(stream) \in StreamRecord
      BY <3>1, Zenon DEF StreamRecord, StreamState, ResetStream
    <3>3. CASE Sends
      <4>1. i \in Nat /\ s \in Nat
        BY <3>1 DEF StreamRecord
      <4> HIDE DEF i, s
      <4> QED BY <3>1, <3>3, <4>1, Zenon DEF StreamRecord
    <3>4. CASE \E t \in StreamState : stream' = [stream EXCEPT !.state = t]
      BY <3>1, <3>4 DEF StreamRecord
    <3>5. CASE stream' = [stream EXCEPT !.stalled = TRUE]
      BY <3>1, <3>5, Zenon DEF StreamRecord
    <3> QED BY <3>2, <3>3, <3>4, <3>5 DEF PeerStep, StreamState
  <2> QED BY <2>1 DEF ForwardInv, Shapes, PeerStep
<1>2. Running'
  BY DEF ForwardInv, Shapes, SocketRecord, Copy, Running, PeerStep, ResetStream
<1>3. Balance'
  BY DEF ForwardInv, Shapes, Copy, Running, Balance, Received, Posted, PeerStep, ResetStream
<1>4. Accounted'
  <2>0. stream \in StreamRecord /\ UNCHANGED <<sock, down, up>>
    BY DEF ForwardInv, Shapes, PeerStep
  <2>1. CASE Sends /\ stream.sent < MaxChunks
    <3>1. /\ stream'.in = stream.in + 1 /\ stream'.sent = stream.sent + 1
          /\ stream'.got = stream.got /\ stream'.state = stream.state
      BY <2>0, <2>1 DEF StreamRecord
    <3>2. /\ Accounted /\ MaxChunks \in Nat /\ Carried(down) \in Nat
          /\ stream.in \in Nat /\ stream.sent \in Nat /\ sock.got \in Nat
          /\ Carried(down)' = Carried(down) /\ Carried(up)' = Carried(up)
      BY <2>0, ForwarderAssumption DEF ForwardInv, Shapes, StreamRecord, SocketRecord, Carried
    <3> QED BY <2>0, <2>1, <3>1, <3>2 DEF Accounted
  <2>2. CASE \E t \in StreamState : /\ stream' = [stream EXCEPT !.state = t]
                                   /\ stream.state # "Reset"
    <3>1. /\ stream'.in = stream.in /\ stream'.sent = stream.sent
          /\ stream'.got = stream.got /\ stream.state # "Reset"
      BY <2>0, <2>2, Zenon DEF StreamRecord
    <3> QED BY <2>0, <3>1 DEF ForwardInv, Accounted, Carried
  <2>3. CASE stream' = ResetStream(stream) /\ stream.state # ResetStream(stream).state
    <3>1. /\ stream'.in = 0 /\ stream'.sent = stream.sent
          /\ stream'.got = stream.got /\ stream'.state = "Reset"
      BY <2>0, <2>3 DEF StreamRecord, ResetStream
    <3> QED BY <2>0, <3>1 DEF ForwardInv, Shapes, StreamRecord, SocketRecord, Accounted, Carried
  <2>4. CASE stream' = [stream EXCEPT !.stalled = TRUE]
    <3>1. /\ stream'.in = stream.in /\ stream'.sent = stream.sent
          /\ stream'.got = stream.got /\ stream'.state = stream.state
      BY <2>0, <2>4 DEF StreamRecord
    <3> QED BY <2>0, <3>1 DEF ForwardInv, Accounted, Carried
  <2> QED BY <2>1, <2>2, <2>3, <2>4 DEF PeerStep, StreamState
<1>5. Ended'
  BY Zenon DEF ForwardInv, Shapes, StreamRecord, SocketRecord, StreamState, Copy, Running,
     Ended, ReadClosed, WriteClosed, PeerStep, ResetStream
<1> QED BY <1>1, <1>2, <1>3, <1>4, <1>5 DEF ForwardInv

\* The service sends, ends, fails or stops reading.
LEMMA ServiceStepGood ==
  ASSUME ForwardInv, ServiceStep
  PROVE  ForwardInv'
<1> DEFINE i == sock.in + 1
           s == sock.sent + 1
           Sends == sock' = [sock EXCEPT !.in = i, !.sent = s]
<1>1. Shapes'
  <2>1. sock' \in SocketRecord
    <3>1. sock \in SocketRecord
      BY DEF ForwardInv, Shapes
    <3>2. CASE Sends
      <4>1. i \in Nat /\ s \in Nat
        BY <3>1 DEF SocketRecord
      <4> HIDE DEF i, s
      <4> QED BY <3>1, <3>2, <4>1, Zenon DEF SocketRecord
    <3>3. CASE sock' = [sock EXCEPT !.eof = TRUE]
      BY <3>1, <3>3, Zenon DEF SocketRecord
    <3>4. CASE sock' = [sock EXCEPT !.broken = TRUE]
      BY <3>1, <3>4, Zenon DEF SocketRecord
    <3>5. CASE sock' = [sock EXCEPT !.stalled = TRUE]
      BY <3>1, <3>5, Zenon DEF SocketRecord
    <3> QED BY <3>2, <3>3, <3>4, <3>5 DEF ServiceStep
  <2> QED BY <2>1 DEF ForwardInv, Shapes, ServiceStep
<1>2. Running'
  BY DEF ForwardInv, Shapes, SocketRecord, Copy, Running, ServiceStep
<1>3. Balance'
  BY DEF ForwardInv, Shapes, Copy, Running, Balance, Received, Posted, ServiceStep
<1>4. Accounted'
  <2>0. sock \in SocketRecord /\ UNCHANGED <<stream, down, up>>
    BY DEF ForwardInv, Shapes, ServiceStep
  <2>1. CASE Sends /\ sock.sent < MaxChunks
    <3>1. /\ sock'.in = sock.in + 1 /\ sock'.sent = sock.sent + 1
          /\ sock'.got = sock.got
      BY <2>0, <2>1 DEF SocketRecord
    <3>2. /\ Accounted /\ MaxChunks \in Nat /\ Carried(up) \in Nat
          /\ sock.in \in Nat /\ sock.sent \in Nat /\ stream.got \in Nat
          /\ Carried(down)' = Carried(down) /\ Carried(up)' = Carried(up)
      BY <2>0, ForwarderAssumption DEF ForwardInv, Shapes, StreamRecord, SocketRecord, Carried
    <3> QED BY <2>0, <2>1, <3>1, <3>2 DEF Accounted
  <2>2. CASE \/ sock' = [sock EXCEPT !.eof = TRUE]
             \/ sock' = [sock EXCEPT !.broken = TRUE]
             \/ sock' = [sock EXCEPT !.stalled = TRUE]
    <3>1. sock'.in = sock.in /\ sock'.sent = sock.sent /\ sock'.got = sock.got
      BY <2>0, <2>2 DEF SocketRecord
    <3> QED BY <2>0, <3>1 DEF ForwardInv, Accounted, Carried
  <2> QED BY <2>1, <2>2 DEF ServiceStep
<1>5. Ended'
  <2>0. sock \in SocketRecord /\ Ended /\ UNCHANGED <<stream, down, up>>
    BY DEF ForwardInv, Shapes, ServiceStep
  <2>1. CASE Sends /\ ~ sock.eof
    <3>1. sock'.wshut = sock.wshut
      BY <2>0, <2>1, Zenon DEF SocketRecord
    <3> QED BY <2>0, <2>1, <3>1 DEF Ended, ReadClosed, WriteClosed
  <2>2. CASE sock' = [sock EXCEPT !.eof = TRUE]
    <3>1. sock'.wshut = sock.wshut /\ sock'.in = sock.in /\ sock'.eof
      BY <2>0, <2>2 DEF SocketRecord
    <3> QED BY <2>0, <3>1 DEF Ended, ReadClosed, WriteClosed
  <2>3. CASE sock' = [sock EXCEPT !.broken = TRUE] \/ sock' = [sock EXCEPT !.stalled = TRUE]
    <3>1. sock'.wshut = sock.wshut /\ sock'.in = sock.in /\ sock'.eof = sock.eof
      BY <2>0, <2>3 DEF SocketRecord
    <3> QED BY <2>0, <3>1 DEF Ended, ReadClosed, WriteClosed
  <2> QED BY <2>1, <2>2, <2>3 DEF ServiceStep
<1> QED BY <1>1, <1>2, <1>3, <1>4, <1>5 DEF ForwardInv

-----------------------------------------------------------------------------
\* Every step preserves the invariant.
LEMMA ForwardStepGood == ForwardInv /\ [Next]_fwdVars => ForwardInv'
<1> SUFFICES ASSUME ForwardInv, [Next]_fwdVars PROVE ForwardInv'
  OBVIOUS
<1>1. CASE Forward
  BY <1>1, DialFailsGood, DialGood, FirstDoneGood, SecondDoneGood, CanceledGood, LingeredGood,
     AbortGood, AbortStreamGood, CollectGood, CollectLastGood DEF Forward
<1>2. CASE CopyDown
  BY <1>2, DownReadGood, DownEofGood, DownWriteGood, DownWriteFailsGood, DownEndsGood
     DEF CopyDown
<1>3. CASE CopyUp
  BY <1>3, UpReadGood, UpEofGood, UpReadFailsGood, UpWriteGood, UpWriteFailsGood, UpEndsGood,
     Zenon
     DEF CopyUp
<1>4. CASE UNCHANGED fwdVars
  BY <1>4, ZenonT(30)
     DEF fwdVars, ForwardInv, Shapes, Running, Balance, Received, Posted, Accounted, Carried,
         Ended, ReadClosed, WriteClosed
<1> QED BY <1>1, <1>2, <1>3, <1>4, ForwardCancelGood, PeerStepGood, ServiceStepGood DEF Next

\* The invariant holds in every behaviour.
THEOREM ForwardInductive == Spec => []ForwardInv
  BY ForwardInitGood, ForwardStepGood, PTL DEF Spec

\* The counters stay within what was sent, and the done channel never holds more
\* than its two results: no copy blocks posting its own.
THEOREM TypesKept == Spec => []TypeOK
<1>1. ForwardInv => TypeOK
  <2> SUFFICES ASSUME ForwardInv PROVE TypeOK
    OBVIOUS
  <2>1. Shapes /\ Accounted /\ Balance
    BY DEF ForwardInv
  <2>2. stream \in StreamEnd
    <3>1. stream.in <= MaxChunks /\ stream.got <= MaxChunks /\ stream.sent <= MaxChunks
      BY <2>1, ForwarderAssumption DEF Shapes, StreamRecord, SocketRecord, Accounted, Carried
    <3> QED BY <2>1, <3>1 DEF Shapes, StreamRecord, StreamState, StreamEnd
  <2>3. sock \in Socket
    <3>1. sock.in <= MaxChunks /\ sock.got <= MaxChunks /\ sock.sent <= MaxChunks
      BY <2>1, ForwarderAssumption DEF Shapes, StreamRecord, SocketRecord, Accounted, Carried
    <3> QED BY <2>1, <3>1 DEF Shapes, SocketRecord, Socket
  <2>4. done \in {<<>>} \cup [1 .. 1 -> BOOLEAN] \cup [1 .. 2 -> BOOLEAN]
    <3> DEFINE n == Len(done)
    <3>0. Received \in 0 .. 2 /\ Posted(down) \in 0 .. 1 /\ Posted(up) \in 0 .. 1
      BY DEF Received, Posted
    <3>1. done \in Seq(BOOLEAN)
      BY <2>1 DEF Shapes
    <3>2. n \in Nat /\ done \in [1 .. n -> BOOLEAN] /\ (n = 0 => done = <<>>)
      BY <3>1
    <3>3. n + Received = Posted(down) + Posted(up)
      BY <2>1 DEF Balance
    <3> HIDE DEF n
    <3>4. n \in 0 .. 2
      BY <3>0, <3>2, <3>3
    <3>5. n = 0 \/ n = 1 \/ n = 2
      BY <3>4
    <3> QED BY <3>2, <3>5
  <2> QED BY <2>1, <2>2, <2>3, <2>4 DEF Shapes, TypeOK
<1> QED BY <1>1, ForwardInductive, PTL

\* Forward (forwarder_impl.go): when it has returned after a successful dial,
\* whichever of the results, the linger timer and the cancellation came first,
\* both copies have ended, their results were received, the socket is closed and
\* the stream is closed or reset.
THEOREM ForwardLeavesNothing == Spec => []NothingLeft
<1>1. ForwardInv => NothingLeft
  <2> SUFFICES ASSUME ForwardInv, pc = "returned", down.pc # "off"
               PROVE  /\ down.pc = "done" /\ up.pc = "done"
                      /\ done = <<>> /\ ~ sock.open /\ WriteClosed
    BY DEF NothingLeft
  <2>1. Received = 2 /\ Len(done) \in Nat /\ done \in Seq(BOOLEAN)
    BY DEF ForwardInv, Shapes, Received
  <2>2. down.pc = "done" /\ up.pc = "done" /\ Len(done) = 0
    BY <2>1 DEF ForwardInv, Balance, Posted
  <2>3. done = <<>>
    BY <2>1, <2>2
  <2> QED BY <2>2, <2>3 DEF ForwardInv, Running, Ended
<1> QED BY <1>1, ForwardInductive, PTL

\* copyStreamToLocal and copyLocalToStream: the service sees the end of the
\* request only with the whole request, and the peer the FIN only with the whole
\* answer, unless the stream was reset or the copy returned an error.
THEOREM TransferIsWhole == Spec => []WholeTransfer
<1>1. ForwardInv => WholeTransfer
  <2> SUFFICES ASSUME ForwardInv, stream.state # "Reset"
               PROVE  /\ (sock.wshut /\ ~ down.err) => sock.got = stream.sent
                      /\ (WriteClosed /\ ~ up.err) => stream.got = sock.sent
    BY DEF WholeTransfer
  <2>1. sock.got \in Nat /\ stream.got \in Nat
    BY DEF ForwardInv, Shapes, StreamRecord, SocketRecord
  <2>2. ASSUME sock.wshut, ~ down.err PROVE sock.got = stream.sent
    <3>1. down.pc = "done" /\ stream.in = 0
      BY <2>2 DEF ForwardInv, Ended
    <3>2. sock.got + Carried(down) + stream.in = stream.sent /\ Carried(down) = 0
      BY <2>2, <3>1 DEF ForwardInv, Accounted, Carried
    <3> QED BY <2>1, <3>1, <3>2
  <2>3. ASSUME WriteClosed, ~ up.err PROVE stream.got = sock.sent
    <3>1. up.pc = "done" /\ sock.in = 0
      BY <2>3 DEF ForwardInv, Ended
    <3>2. stream.got + Carried(up) + sock.in = sock.sent /\ Carried(up) = 0
      BY <2>3, <3>1 DEF ForwardInv, Accounted, Carried
    <3> QED BY <2>1, <3>1, <3>2
  <2> QED BY <2>2, <2>3
<1> QED BY <1>1, ForwardInductive, PTL
=============================================================================
