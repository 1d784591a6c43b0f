---------------------------- MODULE AuditEmitter ----------------------------
(***************************************************************************)
(* The asynchronous audit log (audit/emitter.go): callers of Emit put      *)
(* events on a buffered channel that drainLoop empties; Close, deferred by *)
(* the commands, runs while handlers may still emit.                       *)
(***************************************************************************)
EXTENDS Naturals, Sequences, FiniteSets

CONSTANTS
  Caller,    \* the goroutines that call Emit, each with one event: itself
  Closer,    \* the goroutines that call Close
  BufferSize \* the capacity of eventCh

VARIABLES
  emit,     \* each caller's progress
  closing,  \* each closer's progress
  closed,   \* the channels closed so far
  eventCh,  \* what it buffers
  drain,    \* drainLoop: "range" or "done"
  holding,  \* <<e>> while drainLoop logs event e, else <<>>
  accepted, \* history: the events whose Emit took effect, in order
  logged,   \* the events logged, in order
  panicked  \* a send on the closed channel ended the process

auditVars ==
  <<emit, closing, closed, eventCh, drain, holding, accepted, logged, panicked>>

AuditInit ==
  /\ emit = [c \in Caller |-> "idle"]
  /\ closing = [c \in Closer |-> "idle"]
  /\ closed = {}
  /\ eventCh = <<>>
  /\ drain = "range"
  /\ holding = <<>>
  /\ accepted = <<>>
  /\ logged = <<>>
  /\ panicked = FALSE

-----------------------------------------------------------------------------
\* Emit: the test of closeCh ...
EmitCheck(c) ==
  /\ emit[c] = "idle"
  /\ emit' = [emit EXCEPT ![c] = IF "closeCh" \in closed THEN "error" ELSE "select"]
  /\ UNCHANGED <<closing, closed, eventCh, drain, holding, accepted, logged, panicked>>

Send(c) ==
  /\ "eventCh" \notin closed
  /\ Len(eventCh) < BufferSize
  /\ eventCh' = Append(eventCh, c)
  /\ accepted' = Append(accepted, c)
  /\ emit' = [emit EXCEPT ![c] = "ok"]
  /\ UNCHANGED panicked

Refused(c) ==
  /\ "closeCh" \in closed
  /\ emit' = [emit EXCEPT ![c] = "error"]
  /\ UNCHANGED <<eventCh, accepted, panicked>>

\* ... then the select. When both channels are closed both cases are ready, and
\* the send, if it is picked, panics.
EmitSelect(c) ==
  /\ emit[c] = "select"
  /\ \/ Send(c)
     \/ Refused(c)
     \/ /\ "eventCh" \in closed
        /\ panicked' = TRUE
        /\ UNCHANGED <<emit, eventCh, accepted>>
     \/ /\ closed = {}
        /\ Len(eventCh) = BufferSize
        /\ emit' = [emit EXCEPT ![c] = "blocked"]
        /\ UNCHANGED <<eventCh, accepted, panicked>>
  /\ UNCHANGED <<closing, closed, drain, holding, logged>>

\* Mutant: a blocked Emit has no case for closeCh.
EmitBlocked_SendOnly(c) ==
  /\ emit[c] = "blocked"
  /\ Send(c)
  /\ UNCHANGED <<closing, closed, drain, holding, logged>>

\* A caller blocked on the full channel is released by a receive or by closeCh,
\* which is closed first.
EmitBlocked(c) ==
  /\ emit[c] = "blocked"
  /\ Send(c) \/ Refused(c)
  /\ UNCHANGED <<closing, closed, drain, holding, logged>>

\* Close: once.Do makes every other caller wait for the first.
CloseStart(c) ==
  /\ closing[c] = "idle"
  /\ closing' = [closing EXCEPT ![c] = IF \E d \in Closer : closing[d] # "idle"
                                       THEN "once" ELSE "closeCh"]
  /\ UNCHANGED <<emit, closed, eventCh, drain, holding, accepted, logged, panicked>>

\* close(closeCh), then close(eventCh)
CloseChannel(c) ==
  /\ closing[c] \in {"closeCh", "eventCh"}
  /\ closed' = closed \cup {closing[c]}
  /\ closing' = [closing EXCEPT ![c] = IF @ = "closeCh" THEN "eventCh" ELSE "wait"]
  /\ UNCHANGED <<emit, eventCh, drain, holding, accepted, logged, panicked>>

CloseReturns(c) ==
  /\ \/ closing[c] = "wait" /\ drain = "done"
     \/ closing[c] = "once" /\ \E d \in Closer : closing[d] = "returned"
  /\ closing' = [closing EXCEPT ![c] = "returned"]
  /\ UNCHANGED <<emit, closed, eventCh, drain, holding, accepted, logged, panicked>>

\* drainLoop: range over eventCh until it is closed and empty
DrainReceive ==
  /\ drain = "range"
  /\ holding = <<>>
  /\ eventCh # <<>>
  /\ holding' = <<Head(eventCh)>>
  /\ eventCh' = Tail(eventCh)
  /\ UNCHANGED <<emit, closing, closed, drain, accepted, logged, panicked>>

\* Mutant: events are written newest first.
DrainLog_Prepends ==
  /\ holding # <<>>
  /\ logged' = holding \o logged
  /\ holding' = <<>>
  /\ UNCHANGED <<emit, closing, closed, eventCh, drain, accepted, panicked>>

\* logEvent
DrainLog ==
  /\ holding # <<>>
  /\ logged' = logged \o holding
  /\ holding' = <<>>
  /\ UNCHANGED <<emit, closing, closed, eventCh, drain, accepted, panicked>>

\* Mutant: the loop stops as soon as the channel is closed.
DrainDone_Unflushed ==
  /\ drain = "range" /\ holding = <<>>
  /\ "eventCh" \in closed
  /\ drain' = "done"
  /\ UNCHANGED <<emit, closing, closed, eventCh, holding, accepted, logged, panicked>>

DrainDone ==
  /\ drain = "range" /\ holding = <<>>
  /\ eventCh = <<>> /\ "eventCh" \in closed
  /\ drain' = "done"
  /\ UNCHANGED <<emit, closing, closed, eventCh, holding, accepted, logged, panicked>>

Emit(c) == EmitSelect(c) \/ EmitBlocked(c)
Close(c) == CloseChannel(c) \/ CloseReturns(c)
drainLoop == DrainReceive \/ DrainLog \/ DrainDone

AuditNext ==
  /\ ~ panicked
  /\ \/ \E c \in Caller : EmitCheck(c) \/ Emit(c)
     \/ \E c \in Closer : CloseStart(c) \/ Close(c)
     \/ drainLoop

\* Every goroutine that can run does.
AuditFairness ==
  /\ \A c \in Caller : WF_auditVars(~ panicked /\ Emit(c))
  /\ \A c \in Closer : WF_auditVars(~ panicked /\ Close(c))
  /\ WF_auditVars(~ panicked /\ drainLoop)

AuditSpec == AuditInit /\ [][AuditNext]_auditVars /\ AuditFairness

-----------------------------------------------------------------------------
\* Events are logged in the order in which Emit took them, each once.
LoggedInOrder ==
  Len(logged) <= Len(accepted) /\ logged = SubSeq(accepted, 1, Len(logged))

\* An event whose Emit returned nil is in the log when Close returns to
\* any of its callers.
AcceptedIsLogged ==
  (\E c \in Closer : closing[c] = "returned") => logged = accepted

\* Once a Close has begun, every Close and every Emit under way, blocked on the
\* full channel or not, comes to its end, unless the process panics.
CloseFlushes ==
  (\E c \in Closer : closing[c] # "idle") ~>
    \/ panicked
    \/ /\ \A c \in Closer : closing[c] \in {"idle", "returned"}
       /\ \A c \in Caller : emit[c] \notin {"select", "blocked"}
=============================================================================
