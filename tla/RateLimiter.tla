----------------------------- MODULE RateLimiter -----------------------------
(***************************************************************************)
(* The token buckets of the API gateway (control-plane/src/gateway/        *)
(* rate-limiter.ts).  `now` is the wall clock, which may be set back.      *)
(* Tokens are counted in a unit small enough for the refill of one tick of *)
(* the clock to be a whole number; rounding is left out.                   *)
(***************************************************************************)
EXTENDS Integers

CONSTANTS
  Key,            \* "channel type:sender" of a submission
  Capacity,       \* units a full bucket holds
  Rate,           \* units refilled in a tick
  Cost,           \* units one submission takes
  MaxTime         \* bound: the last tick

\* Assumed of the constants; the modules that instantiate this one check it.
RateAssumption ==
  Capacity \in Nat /\ Rate \in Nat /\ Cost \in Nat /\ MaxTime \in Nat

VARIABLES
  now, latest,    \* the clock, and the highest value it has shown
  bucket,         \* buckets: tokens and lastRefillMs of each key seen
  granted         \* submissions let through, for the property

vars == <<now, latest, bucket, granted>>

Bucket == [seen : BOOLEAN, tokens : Int, last : Nat]

TypeOK ==
  /\ now \in 0..MaxTime /\ latest \in 0..MaxTime
  /\ bucket \in [Key -> Bucket]
  /\ granted \in [Key -> Nat]

Init ==
  /\ now = 0 /\ latest = 0
  /\ bucket = [k \in Key |-> [seen |-> FALSE, tokens |-> 0, last |-> 0]]
  /\ granted = [k \in Key |-> 0]

Lesser(a, b) == IF a <= b THEN a ELSE b

\* A bucket that take() has not seen is full, as of now.
Seen(k) ==
  IF bucket[k].seen THEN bucket[k] ELSE [seen |-> TRUE, tokens |-> Capacity, last |-> now]

\* remaining(); the elapsed time is negative after the clock was set back.
Refilled(k) == Lesser(Capacity, Seen(k).tokens + Rate * (now - Seen(k).last))

\* Variant: the time of the refill is kept only when a token was taken.
TakeForgetful(k) ==
  LET ok == Refilled(k) >= Cost IN
  /\ bucket' = [bucket EXCEPT ![k] =
       [seen |-> TRUE, tokens |-> IF ok THEN Refilled(k) - Cost ELSE Refilled(k),
        last |-> IF ok THEN now ELSE Seen(k).last]]
  /\ granted' = IF ok THEN [granted EXCEPT ![k] = @ + 1] ELSE granted
  /\ UNCHANGED <<now, latest>>

\* take(): one submission of a key, over HTTP or a WebSocket.
Take(k) ==
  LET ok == Refilled(k) >= Cost IN
  /\ bucket' = [bucket EXCEPT ![k] =
       [seen |-> TRUE, tokens |-> IF ok THEN Refilled(k) - Cost ELSE Refilled(k), last |-> now]]
  /\ granted' = IF ok THEN [granted EXCEPT ![k] = @ + 1] ELSE granted
  /\ UNCHANGED <<now, latest>>

\* The clock moves on, or is set back.
Clock(t) ==
  /\ now' = t
  /\ latest' = IF t > latest THEN t ELSE latest
  /\ UNCHANGED <<bucket, granted>>

Next ==
  \/ \E k \in Key : Take(k)
  \/ \E t \in 0..MaxTime : Clock(t)

Spec == Init /\ [][Next]_vars

-----------------------------------------------------------------------------
(* Properties *)

\* However the clock is set back and forth between calls of take(), a key is
\* never let through more often than a full bucket and the refill of the time
\* that has truly passed allow.
RateBounded == \A k \in Key : Cost * granted[k] <= Capacity + Rate * latest
=============================================================================
