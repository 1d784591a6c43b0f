---------------------------- MODULE IPRateLimiter ----------------------------
(***************************************************************************)
(* The per-source rate limiter of a port (relay/ratelimit.go): one token   *)
(* bucket per IP, made on demand and dropped by a sweep when its IP has    *)
(* not been seen for a while. The bucket is golang.org/x/time/rate.        *)
(***************************************************************************)
EXTENDS Integers, FiniteSets

CONSTANTS
  IP,
  Call,         \* the connections that ask, each once
  Source(_),    \* the IP of each
  Burst,        \* the size of a bucket, which gains one token per tick
  StaleTimeout, \* ticks after which an unseen entry is dropped
  MaxPause,     \* bound: ticks an Allow can be held up between its two steps
  MaxTime       \* bound: ticks

ASSUME RateAssumption ==
  /\ IsFiniteSet(Call) /\ \A c \in Call : Source(c) \in IP
  /\ Burst \in Nat /\ StaleTimeout \in Nat /\ MaxPause \in Nat /\ MaxTime \in Nat

VARIABLES
  now,
  bucket,  \* the rate.Limiter objects, numbered: tokens, and when they were counted
  entries, \* the map: for each IP its bucket (0: no entry) and lastSeen
  call,    \* each Allow: its progress, its bucket, and when it started
  running, \* cleanupLoop runs
  ideal    \* history: for each IP, the bucket of a limiter that forgets nothing

rateVars == <<now, bucket, entries, call, running, ideal>>

Full == [tokens |-> Burst, at |-> 0]
Objects == 1 .. Cardinality(Call)

RateInit ==
  /\ now = 0
  /\ bucket = [b \in Objects |-> Full]
  /\ entries = [ip \in IP |-> [bucket |-> 0, lastSeen |-> 0]]
  /\ call = [c \in Call |-> [pc |-> "idle", bucket |-> 0, at |-> 0]]
  /\ running = TRUE
  /\ ideal = [ip \in IP |-> Full]

\* rate.Limiter.Allow: refill for the time gone by, then take a token if any.
Tokens(b) == LET refilled == b.tokens + now - b.at IN
             IF Burst <= refilled THEN Burst ELSE refilled
Take(b) == [tokens |-> IF Tokens(b) > 0 THEN Tokens(b) - 1 ELSE 0, at |-> now]

Used == {entries[ip].bucket : ip \in IP} \cup {call[c].bucket : c \in Call}

-----------------------------------------------------------------------------
\* Mutant: only the creation of an entry counts as seeing its IP.
AllowLookup_SeenOnce(c) ==
  /\ call[c].pc = "idle"
  /\ LET ip == Source(c)
         new == CHOOSE b \in Objects : b \notin Used
         entry == IF entries[ip].bucket = 0
                  THEN [bucket |-> new, lastSeen |-> now] ELSE entries[ip] IN
       /\ entries' = [entries EXCEPT ![ip] = entry]
       /\ call' = [call EXCEPT ![c] = [pc |-> "take", bucket |-> entry.bucket, at |-> now]]
       /\ bucket' = IF entries[ip].bucket = 0
                    THEN [bucket EXCEPT ![new] = [tokens |-> Burst, at |-> now]]
                    ELSE bucket
  /\ UNCHANGED <<now, running, ideal>>

\* Allow, under rl.mu: find or make the entry and note the time ...
AllowLookup(c) ==
  /\ call[c].pc = "idle"
  /\ LET ip == Source(c)
         new == CHOOSE b \in Objects : b \notin Used
         b == IF entries[ip].bucket = 0 THEN new ELSE entries[ip].bucket IN
       /\ entries' = [entries EXCEPT ![ip] = [bucket |-> b, lastSeen |-> now]]
       /\ call' = [call EXCEPT ![c] = [pc |-> "take", bucket |-> b, at |-> now]]
       /\ bucket' = IF entries[ip].bucket = 0
                    THEN [bucket EXCEPT ![new] = [tokens |-> Burst, at |-> now]]
                    ELSE bucket
  /\ UNCHANGED <<now, running, ideal>>

\* ... then, without it, ask the bucket, which the sweep may have dropped.
AllowTake(c) ==
  /\ call[c].pc = "take"
  /\ LET b == call[c].bucket
         ip == Source(c)
         ok == Tokens(bucket[b]) > 0 IN
       /\ call' = [call EXCEPT ![c] = [pc |-> IF ok THEN "allowed" ELSE "refused",
                                       bucket |-> 0, at |-> @.at]]
       /\ bucket' = [bucket EXCEPT ![b] = Take(@)]
       /\ ideal' = IF ok THEN [ideal EXCEPT ![ip] = Take(@)] ELSE ideal
  /\ UNCHANGED <<now, entries, running>>

\* sweep, from cleanupLoop's ticker
Sweep ==
  /\ running
  /\ entries' = [ip \in IP |->
       IF entries[ip].lastSeen < now - StaleTimeout
       THEN [entries[ip] EXCEPT !.bucket = 0] ELSE entries[ip]]
  /\ UNCHANGED <<now, bucket, call, running, ideal>>

Stop ==
  /\ running
  /\ running' = FALSE
  /\ UNCHANGED <<now, bucket, entries, call, ideal>>

\* Time passes; an Allow is held up for far less than the stale timeout, which
\* is ten minutes in the code.
TimePasses ==
  /\ now < MaxTime
  /\ \A c \in Call : call[c].pc = "take" => now - call[c].at < MaxPause
  /\ now' = now + 1
  /\ UNCHANGED <<bucket, entries, call, running, ideal>>

RateNext ==
  \/ \E c \in Call : AllowLookup(c) \/ AllowTake(c)
  \/ Sweep \/ Stop \/ TimePasses

RateSpec == RateInit /\ [][RateNext]_rateVars

-----------------------------------------------------------------------------
\* Dropping an entry gives no IP more than its rate: what its bucket holds, or
\* a new bucket would, is never more than in a limiter without the sweep. This
\* is so when a bucket fills up again within the stale timeout (Burst ticks).
SweepGrantsNothing ==
  \A ip \in IP :
    (IF entries[ip].bucket = 0 THEN Burst ELSE Tokens(bucket[entries[ip].bucket]))
      <= Tokens(ideal[ip])
=============================================================================
