---------------------------- MODULE CertRotation ----------------------------
(***************************************************************************)
(* Hot reload of the TLS certificate (auth/certs_impl.go, auth/mtls.go):   *)
(* the watcher polls the certificate file while an operator replaces the   *)
(* certificate and its key, one file at a time.                            *)
(***************************************************************************)
EXTENDS Naturals

CONSTANT MaxVersion \* bound: certificates issued; version 1 is there at start

VARIABLES
  cert,    \* the certificate file: its version and whether it is readable
  key,     \* the version of the key file
  issued,  \* the version the operator installs, or has installed
  currentCert, \* Configurator.currentCert, what handshakes use
  watch,   \* WatchForRotation: where it is, and its local variables
  startFP, \* history: the version of the first fingerprint
  watchCtxDone

certVars == <<cert, key, issued, currentCert, watch, startFP, watchCtxDone>>

Version == 1 .. MaxVersion

\* "partial" is a file being written: it has a fingerprint, and does not parse.
Content == {"whole", "partial", "absent"}

File(v, c) == [v |-> v, content |-> c]

\* run() loaded the pair before it started the watcher; it exits if it cannot.
CertInit ==
  /\ cert = File(1, "whole")
  /\ key = 1
  /\ issued = 1
  /\ currentCert = 1
  /\ watch = [pc |-> "start", last |-> cert, fp |-> cert, read |-> cert]
  /\ startFP = 0
  /\ watchCtxDone = FALSE

-----------------------------------------------------------------------------
\* WatchForRotation: the first fingerprint; without it the watcher is not run.
WatchStart ==
  /\ watch.pc = "start"
  /\ IF cert.content = "absent"
     THEN watch' = [watch EXCEPT !.pc = "exited"] /\ UNCHANGED startFP
     ELSE watch' = [watch EXCEPT !.pc = "tick", !.last = cert] /\ startFP' = cert.v
  /\ UNCHANGED <<cert, key, issued, currentCert, watchCtxDone>>

\* Mutant: the fingerprint is recorded before the pair has been loaded.
Tick_Records ==
  /\ watch.pc = "tick"
  /\ cert.content # "absent"
  /\ cert # watch.last
  /\ watch' = [watch EXCEPT !.pc = "cert", !.fp = cert, !.last = cert]
  /\ UNCHANGED <<cert, key, issued, currentCert, startFP, watchCtxDone>>

\* A tick that finds a readable file with a new fingerprint; the other ticks
\* change nothing.
Tick ==
  /\ watch.pc = "tick"
  /\ cert.content # "absent"
  /\ cert # watch.last
  /\ watch' = [watch EXCEPT !.pc = "cert", !.fp = cert]
  /\ UNCHANGED <<cert, key, issued, currentCert, startFP, watchCtxDone>>

\* LoadCertificate: LoadX509KeyPair reads the certificate ...
LoadCert ==
  /\ watch.pc = "cert"
  /\ watch' = [watch EXCEPT !.pc = IF cert.content = "whole" THEN "key" ELSE "tick",
                            !.read = cert]
  /\ UNCHANGED <<cert, key, issued, currentCert, startFP, watchCtxDone>>

\* ... then the key, and refuses a key of another certificate. On success the
\* fingerprint taken before is recorded and Reload stores the pair.
LoadKey ==
  /\ watch.pc = "key"
  /\ IF key = watch.read.v
     THEN /\ watch' = [watch EXCEPT !.pc = "tick", !.last = watch.fp]
          /\ currentCert' = watch.read.v
     ELSE /\ watch' = [watch EXCEPT !.pc = "tick"]
          /\ UNCHANGED currentCert
  /\ UNCHANGED <<cert, key, issued, startFP, watchCtxDone>>

WatchStop ==
  /\ watch.pc = "tick"
  /\ watchCtxDone
  /\ watch' = [watch EXCEPT !.pc = "exited"]
  /\ UNCHANGED <<cert, key, issued, currentCert, startFP, watchCtxDone>>

CancelWatch ==
  /\ ~ watchCtxDone
  /\ watchCtxDone' = TRUE
  /\ UNCHANGED <<cert, key, issued, currentCert, watch, startFP>>

\* The operator: one certificate after another, the two files in any order, the
\* certificate file removed or rewritten in place on the way.
Issue ==
  /\ cert = File(issued, "whole") /\ key = issued
  /\ issued < MaxVersion
  /\ issued' = issued + 1
  /\ UNCHANGED <<cert, key, currentCert, watch, startFP, watchCtxDone>>

WriteCert ==
  /\ cert # File(issued, "whole")
  /\ \E c \in Content :
       /\ cert' = File(issued, c)
       /\ cert' # cert
  /\ UNCHANGED <<key, issued, currentCert, watch, startFP, watchCtxDone>>

WriteKey ==
  /\ key # issued
  /\ key' = issued
  /\ UNCHANGED <<cert, issued, currentCert, watch, startFP, watchCtxDone>>

Watcher == WatchStart \/ Tick \/ LoadCert \/ LoadKey \/ WatchStop

CertNext == Watcher \/ CancelWatch \/ Issue \/ WriteCert \/ WriteKey

\* The ticker keeps ticking.
CertSpec == CertInit /\ [][CertNext]_certVars /\ WF_certVars(Watcher)

-----------------------------------------------------------------------------
\* A certificate installed after the watcher took its first fingerprint is
\* served in the end, whatever the order of the two files and whenever the
\* ticks fall, unless it is itself replaced or the process stops.
RotationServed ==
  \A v \in Version \ {1} :
    (0 < startFP /\ startFP < v /\ cert = File(v, "whole") /\ key = v)
      ~> (currentCert = v \/ issued > v \/ watchCtxDone)
=============================================================================
