----------------------------- MODULE FlowWindow -----------------------------
(***************************************************************************)
(* The connection's send window (protocol/window.go) and the WINDOW_UPDATE *)
(* handler that feeds it. Integers are signed and Width bits wide (32 in   *)
(* the code); the sum of Update is computed in twice that width.           *)
(***************************************************************************)
EXTENDS Integers, FiniteSets

CONSTANTS
  Consumer,    \* the callers of Consume
  Width,
  InitialSize,
  MaxUpdates   \* bound: updates and resets

VARIABLES
  available,
  mu,       \* the consumer that holds the mutex between its steps, or "free"
  consumer, \* each caller: its progress, its n, its ctx and its helper goroutine
  granted,  \* history, since the last Reset: what updates added
  taken,    \*   and what consumers took
  updates

flowVars == <<available, mu, consumer, granted, taken, updates>>

maxWindowSize == 2 ^ (Width - 1) - 1

\* NewFlowWindow gets a size that the integer type holds.  The provers know
\* nothing of exponents, so that the powers of two are numbers is said here.
ASSUME FlowAssumption ==
  /\ 2 ^ (Width - 1) \in Nat /\ 2 ^ Width \in Nat
  /\ InitialSize \in 0 .. maxWindowSize
  /\ "free" \notin Consumer

\* int32(x) of an unsigned field
ToSigned(x) == IF x > maxWindowSize THEN x - 2 ^ Width ELSE x

FlowInit ==
  /\ available = InitialSize
  /\ mu = "free"
  /\ consumer = [c \in Consumer |->
                   [pc |-> "idle", n |-> 0, ctxDone |-> FALSE, helper |-> FALSE]]
  /\ granted = 0
  /\ taken = 0
  /\ updates = 0

\* cond.Broadcast()
Woken == [c \in Consumer |->
  IF consumer[c].pc = "waiting" THEN [consumer[c] EXCEPT !.pc = "lock"]
                                ELSE consumer[c]]

-----------------------------------------------------------------------------
\* Consume(ctx, n): the helper goroutine that waits for the context starts.
ConsumeStart(c, n) ==
  /\ consumer[c].pc = "idle"
  /\ consumer' = [consumer EXCEPT ![c].pc = "lock", ![c].n = n, ![c].helper = TRUE]
  /\ UNCHANGED <<available, mu, granted, taken, updates>>

\* The loop, from the lock to Wait or to the return, which ends the helper.
Consume(c) ==
  /\ consumer[c].pc = "lock"
  /\ mu = "free"
  /\ \/ /\ available >= consumer[c].n
        /\ available' = available - consumer[c].n
        /\ taken' = taken + consumer[c].n
        /\ consumer' = [consumer EXCEPT ![c].pc = "ok", ![c].helper = FALSE]
        /\ UNCHANGED mu
     \/ /\ available < consumer[c].n
        /\ consumer[c].ctxDone
        /\ consumer' = [consumer EXCEPT ![c].pc = "error", ![c].helper = FALSE]
        /\ UNCHANGED <<available, taken, mu>>
     \/ /\ available < consumer[c].n
        /\ ~ consumer[c].ctxDone
        /\ consumer' = [consumer EXCEPT ![c].pc = "checked"]
        /\ mu' = c
        /\ UNCHANGED <<available, taken>>
  /\ UNCHANGED <<granted, updates>>

\* cond.Wait(): on the list, and the mutex released
Wait(c) ==
  /\ consumer[c].pc = "checked"
  /\ consumer' = [consumer EXCEPT ![c].pc = "waiting"]
  /\ mu' = "free"
  /\ UNCHANGED <<available, granted, taken, updates>>

CancelConsume(c) ==
  /\ ~ consumer[c].ctxDone
  /\ consumer' = [consumer EXCEPT ![c].ctxDone = TRUE]
  /\ UNCHANGED <<available, mu, granted, taken, updates>>

\* The helper broadcasts without the mutex.
Helper(c) ==
  /\ consumer[c].helper /\ consumer[c].ctxDone
  /\ consumer' = [Woken EXCEPT ![c].helper = FALSE]
  /\ UNCHANGED <<available, mu, granted, taken, updates>>

\* Mutants: the sum is not tested; the waiters are not woken.
Update_Unchecked(x) ==
  /\ mu = "free"
  /\ updates < MaxUpdates
  /\ updates' = updates + 1
  /\ LET increment == ToSigned(x) IN
       IF increment > 0
       THEN /\ available' = ToSigned((available + increment) % 2 ^ Width)
            /\ granted' = granted + increment
            /\ consumer' = Woken
       ELSE UNCHANGED <<available, granted, consumer>>
  /\ UNCHANGED <<mu, taken>>
Update_NoBroadcast(x) ==
  /\ mu = "free"
  /\ updates < MaxUpdates
  /\ updates' = updates + 1
  /\ LET increment == ToSigned(x) IN
       IF increment > 0 /\ available + increment <= maxWindowSize
       THEN available' = available + increment /\ granted' = granted + increment
       ELSE UNCHANGED <<available, granted>>
  /\ UNCHANGED <<mu, consumer, taken>>

\* handleWindowUpdate for stream 0, with the increment x of the frame, and
\* Update: it refuses increments that are not positive, and overflow.
Update(x) ==
  /\ mu = "free"
  /\ updates < MaxUpdates
  /\ updates' = updates + 1
  /\ LET increment == ToSigned(x) IN
       IF increment > 0 /\ available + increment <= maxWindowSize
       THEN /\ available' = available + increment
            /\ granted' = granted + increment
            /\ consumer' = Woken
       ELSE UNCHANGED <<available, granted, consumer>>
  /\ UNCHANGED <<mu, taken>>

Reset ==
  /\ mu = "free"
  /\ updates < MaxUpdates
  /\ updates' = updates + 1
  /\ available' = InitialSize
  /\ granted' = 0
  /\ taken' = 0
  /\ consumer' = Woken
  /\ UNCHANGED mu

FlowNext ==
  \/ \E c \in Consumer, n \in 1 .. maxWindowSize : ConsumeStart(c, n)
  \/ \E c \in Consumer : Consume(c) \/ Wait(c) \/ CancelConsume(c) \/ Helper(c)
  \/ \E x \in 0 .. 2 ^ Width - 1 : Update(x)
  \/ Reset

FlowSpec == FlowInit /\ [][FlowNext]_flowVars

-----------------------------------------------------------------------------
\* The window stays within its bounds, at the int32 limit too, and is what was
\* granted less what was taken: no update is lost and none is spent twice.
WindowConserved ==
  /\ available \in 0 .. maxWindowSize
  /\ available = InitialSize + granted - taken

\* A consumer sleeps only while the window is too small for it: every step
\* that enlarges the window wakes it.
NoSleepWithCredit ==
  \A c \in Consumer : consumer[c].pc = "waiting" => available < consumer[c].n
=============================================================================
