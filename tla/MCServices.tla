----------------------------- MODULE MCServices -----------------------------
(***************************************************************************)
(* The components that work on their own, side by side: a behaviour is one *)
(* of the component that focus names, and the others stay at their start.  *)
(***************************************************************************)
EXTENDS AuditEmitter, CertRotation, FlowWindow, Forwarder, IPRateLimiter

VARIABLE focus

\* The connections of the rate limiter: three of one IP, one of another.
SourceOf(c) == IF c = 4 THEN "ip2" ELSE "ip1"

ServicesInit ==
  /\ Init /\ AuditInit /\ CertInit /\ FlowInit /\ RateInit
  /\ focus \in {"forwarder", "audit", "certificate", "window", "limiter"}

Forwards ==
  /\ focus = "forwarder"
  /\ UNCHANGED <<auditVars, certVars, flowVars, rateVars, focus>>
Audits ==
  /\ focus = "audit"
  /\ UNCHANGED <<fwdVars, certVars, flowVars, rateVars, focus>>
Rotates ==
  /\ focus = "certificate"
  /\ UNCHANGED <<fwdVars, auditVars, flowVars, rateVars, focus>>
Windows ==
  /\ focus = "window"
  /\ UNCHANGED <<fwdVars, auditVars, certVars, rateVars, focus>>
Limits ==
  /\ focus = "limiter"
  /\ UNCHANGED <<fwdVars, auditVars, certVars, flowVars, focus>>

ServicesNext ==
  \/ Forwards /\ Next
  \/ Audits /\ AuditNext
  \/ Rotates /\ CertNext
  \/ Windows /\ FlowNext
  \/ Limits /\ RateNext

vars == <<fwdVars, auditVars, certVars, flowVars, rateVars, focus>>

\* The goroutines of the component in focus, one action each. Only one
\* component moves in a behaviour, so goroutines of several share an action,
\* and weak fairness of the action is weak fairness of each.
Goroutine1 == (Forwards /\ Forward) \/ (Audits /\ ~ panicked /\ drainLoop) \/ (Rotates /\ Watcher)
Goroutine2 == (Forwards /\ CopyDown) \/ (Audits /\ ~ panicked /\ Emit("e1"))
Goroutine3 == (Forwards /\ CopyUp) \/ (Audits /\ ~ panicked /\ Emit("e2"))
Goroutine4 == Audits /\ ~ panicked /\ Emit("e3")
Goroutine5 == Audits /\ ~ panicked /\ Close("c1")
Goroutine6 == Audits /\ ~ panicked /\ Close("c2")

ServicesFairness ==
  /\ WF_vars(Goroutine1) /\ WF_vars(Goroutine2) /\ WF_vars(Goroutine3)
  /\ WF_vars(Goroutine4) /\ WF_vars(Goroutine5) /\ WF_vars(Goroutine6)

ServicesSpec == ServicesInit /\ [][ServicesNext]_vars /\ ServicesFairness

=============================================================================
