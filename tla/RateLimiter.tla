---------------------------- MODULE RateLimiter ----------------------------
(***************************************************************************)
(* The token bucket in front of the ban endpoints (rateLimiter,            *)
(* internal/api/api.go).  Time is counted in ticks, Den of them to the     *)
(* second, and the bucket in Den-ths of a token, so that the refill of the *)
(* code's float64, elapsed seconds times rate, is a whole number.  The     *)
(* mutex makes Allow one step.                                             *)
(***************************************************************************)
EXTENDS Integers, Sequences, FiniteSets

CONSTANTS
  Rate,      \* tokens per second
  Burst,     \* size of the bucket
  Den,       \* ticks per second
  LastTick,  \* bound on the clock
  MaxCalls   \* bound on the requests

VARIABLES
  now,       \* the clock
  tokens,    \* in the bucket, in Den-ths
  last,      \* the time of the last call
  calls      \* history: every call's time and answer

vars == <<now, tokens, last, calls>>

Smaller(a, b) == IF a < b THEN a ELSE b

\* newRateLimiter
Init == now = 0 /\ tokens = Burst * Den /\ last = 0 /\ calls = << >>

\* Mutant: integer arithmetic, as the comment at api.go:1584 warns.
RefilledWhole(elapsed) == Smaller(Burst * Den, tokens + ((elapsed * Rate) \div Den) * Den)

\* The bucket after the refill, never over its size.
Refilled(elapsed) == Smaller(Burst * Den, tokens + elapsed * Rate)

Allow ==
  LET t == Refilled(now - last)  ok == t >= Den IN
  /\ Len(calls) < MaxCalls
  /\ last' = now
  /\ tokens' = IF ok THEN t - Den ELSE t
  /\ calls' = Append(calls, [at |-> now, ok |-> ok])
  /\ UNCHANGED now

Tick ==
  /\ now < LastTick
  /\ now' = now + 1
  /\ UNCHANGED <<tokens, last, calls>>

Next == Allow \/ Tick

Spec == Init /\ [][Next]_vars

-----------------------------------------------------------------------------
(* Properties.                                                             *)

\* The calls allowed among the first n, from time a on.
Allowed(n, a) == Cardinality({i \in 1 .. n : calls[i].ok /\ calls[i].at >= a})

\* May one more call be allowed after the first n, with the bucket filled at
\* every moment and at most Burst + Rate * seconds allowed since any of them?
Conforms(n, t) == \A a \in 0 .. t : (Allowed(n, a) + 1) * Den <= Burst * Den + Rate * (t - a)

\* A call is allowed exactly when the limit leaves room for it: no interval
\* ever sees more than the burst and the rate together admit, and whatever the
\* pace of the calls, one that they admit is not refused (rateLimiter.Allow).
AllowsWhatTheRateAdmits == \A i \in DOMAIN calls : calls[i].ok <=> Conforms(i - 1, calls[i].at)

=============================================================================
