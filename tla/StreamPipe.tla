----------------------------- MODULE StreamPipe -----------------------------
(***************************************************************************)
(* What one direction of a multiplexed stream promises its two             *)
(* applications (the Stream interface of stream.go): a first-in first-out  *)
(* pipe of chunks that ends with end of file, or is reset.                 *)
(***************************************************************************)
EXTENDS Naturals, Sequences

VARIABLES
  written,  \* the number of chunks the writer's Writes took, numbered from 1
  closed,   \* the writer called Close()
  closedAt, \* the Writes that had returned by then
  received, \* the chunks the reader can read, or has read
  end       \* "open", "eof" or "reset", as the reader sees it

pipe == <<written, closed, closedAt, received, end>>

Init ==
  /\ written = 0
  /\ closed = FALSE
  /\ closedAt = 0
  /\ received = <<>>
  /\ end = "open"

\* A Write that raced with Close() may still take effect after it.
Write ==
  /\ written' = written + 1
  /\ UNCHANGED <<closed, closedAt, received, end>>

Close ==
  /\ ~ closed
  /\ closed' = TRUE
  /\ closedAt' = written
  /\ UNCHANGED <<written, received, end>>

\* The next chunk, and no other.
Arrive ==
  /\ end = "open"
  /\ Len(received) < written
  /\ received' = Append(received, Len(received) + 1)
  /\ UNCHANGED <<written, closed, closedAt, end>>

\* End of file: every chunk written before Close() is there.
Eof ==
  /\ end = "open"
  /\ closed
  /\ Len(received) >= closedAt
  /\ end' = "eof"
  /\ UNCHANGED <<written, closed, closedAt, received>>

\* Either application, or the loss of the session, ends the stream.
Abort ==
  /\ end' = "reset"
  /\ received' = <<>>
  /\ UNCHANGED <<written, closed, closedAt>>

Next == Write \/ Close \/ Arrive \/ Eof \/ Abort

Spec == Init /\ [][Next]_pipe
=============================================================================
