------------------------------ MODULE RateLimiter ------------------------------
(***************************************************************************)
(* The in-process rate limiter of app/middleware/rate_limit.py: the        *)
(* middleware, the counters, and the worker that sweeps expired ones.      *)
(* check and sweep_expired read the clock and update the counters without  *)
(* an await in between, so each is one step.                               *)
(***************************************************************************)
EXTENDS Integers, Sequences, FiniteSets

CONSTANTS
  Classes,       \* route classes
  Addresses,     \* client addresses
  Tokens,        \* bearer tokens clients send
  NoToken,
  Valid,         \* the valid token of each class, NoToken if it has none
  Limit,         \* requests per window of each class; 0 disables the limit
  Seconds,       \* window_seconds of each class
  Ticks,         \* clock ticks per second
  MaxTime,       \* bound on the clock
  MaxRequests    \* bound on the number of requests

ASSUME LimiterAssumption ==
  /\ NoToken \notin Tokens
  /\ Valid \in [Classes -> Tokens \cup {NoToken}]
  /\ Limit \in [Classes -> Nat]
  /\ Seconds \in [Classes -> Nat \ {0}]
  /\ Ticks \in Nat \ {0}
  /\ MaxTime \in Nat
  /\ MaxRequests \in Nat

Requests == [class : Classes, address : Addresses, token : Tokens \cup {NoToken}]

\* MUTANT: any bearer token is an identity.
TokenIdentity(r) ==
  IF r.token # NoToken THEN <<"token", r.token>> ELSE <<"ip", r.address>>

\* identity_for_request: only the valid token of the class is an identity.
Identity(r) ==
  IF r.token # NoToken /\ r.token = Valid[r.class]
  THEN <<"token", r.token>> ELSE <<"ip", r.address>>

Key(r) == <<r.class, Identity(r)>>

Limited == {r \in Requests : Limit[r.class] > 0}
Keys    == {Key(r) : r \in Limited}

Length(k) == Seconds[k[1]] * Ticks

VARIABLES
  now,        \* time.monotonic()
  counters,   \* _counters: key -> [count, start]
  log         \* every request: [request, time, admitted, retry]

vars == <<now, counters, log>>

Counter == [count : Nat, start : 0..MaxTime]
Answers == [request : Requests, time : 0..MaxTime, admitted : BOOLEAN, retry : Nat]

TypeOK ==
  /\ now \in 0..MaxTime
  /\ DOMAIN counters \subseteq Keys
  /\ counters \in [DOMAIN counters -> Counter]
  /\ log \in Seq(Answers)
  /\ Len(log) <= MaxRequests

Init == now = 0 /\ counters = [k \in {} |-> {}] /\ log = <<>>

Expired(k) == now - counters[k].start >= Length(k)

\* The entry check works on: the stored one, or a new window.
Current(k) ==
  IF k \in DOMAIN counters /\ ~Expired(k) THEN counters[k]
  ELSE [count |-> 0, start |-> now]

\* MUTANT: the seconds are rounded down.
RetryFloor(k) ==
  LET left == Current(k).start + Length(k) - now
  IN  IF left <= Ticks THEN 1 ELSE left \div Ticks

\* max(1, ceil(reset_at - now)), in seconds.
RetryAfter(k) ==
  LET left == Current(k).start + Length(k) - now
  IN  IF left <= Ticks THEN 1 ELSE (left + Ticks - 1) \div Ticks

Store(k, entry) ==
  counters' = [j \in DOMAIN counters \cup {k} |-> IF j = k THEN entry ELSE counters[j]]

Answer(r, admitted, retry) ==
  log' = Append(log, [request |-> r, time |-> now, admitted |-> admitted, retry |-> retry])

\* dispatch of a class without a limit.
Pass(r) ==
  /\ r \notin Limited
  /\ Answer(r, TRUE, 0)
  /\ UNCHANGED <<now, counters>>

Refuse(r) ==
  /\ r \in Limited
  /\ Current(Key(r)).count >= Limit[r.class]
  /\ Store(Key(r), Current(Key(r)))
  /\ Answer(r, FALSE, RetryAfter(Key(r)))
  /\ UNCHANGED now

Admit(r) ==
  /\ r \in Limited
  /\ Current(Key(r)).count < Limit[r.class]
  /\ Store(Key(r), [Current(Key(r)) EXCEPT !.count = @ + 1])
  /\ Answer(r, TRUE, 0)
  /\ UNCHANGED now

Request(r) == Len(log) < MaxRequests /\ (Pass(r) \/ Refuse(r) \/ Admit(r))

\* MUTANT: the sweep drops every counter.
SweepAll ==
  /\ counters' = [k \in {} |-> {}]
  /\ UNCHANGED <<now, log>>

\* sweep_expired.
Sweep ==
  /\ counters' = [k \in {j \in DOMAIN counters : ~Expired(j)} |-> counters[k]]
  /\ UNCHANGED <<now, log>>

Tick == now < MaxTime /\ now' = now + 1 /\ UNCHANGED <<counters, log>>

Next == Tick \/ Sweep \/ \E r \in Requests : Request(r)

Spec == Init /\ [][Next]_vars

------------------------------------------------------------------------------
Live(k) == k \in DOMAIN counters /\ ~Expired(k)

Window == INSTANCE RateWindow WITH
  Quota <- [k \in Keys |-> Limit[k[1]]],
  Span  <- [k \in Keys |-> Length(k)],
  used   <- [k \in Keys |-> IF Live(k) THEN counters[k].count ELSE 0],
  left   <- [k \in Keys |-> IF Live(k) THEN counters[k].start + Length(k) - now ELSE 0]

\* The counters implement the promise: the sweep, the stale entries it has not
\* reached and the refusals that rewrite an entry are invisible.
ImplementsWindow == Window!Spec

Admitted(i) == log[i].admitted /\ Limit[log[i].request.class] > 0

\* An address that does not present the valid token is admitted fewer times than
\* twice the limit in any stretch shorter than the window, whatever tokens it
\* makes up and wherever the windows fall.  (Of two windows that touch, the first
\* was opened by an admission, so they never give the full two limits.)
AddressIsBounded ==
  \A c \in Classes, a \in Addresses, i \in DOMAIN log :
    LET burst == {j \in DOMAIN log :
                    /\ j >= i /\ Admitted(j)
                    /\ log[j].time - log[i].time < Seconds[c] * Ticks
                    /\ log[j].request.class = c
                    /\ log[j].request.address = a
                    /\ log[j].request.token \notin {Valid[c]} \ {NoToken}}
    IN  Limit[c] > 0 => Cardinality(burst) <= 2 * Limit[c] - 1

\* Retry-After is honest: a client that waits that long is admitted, unless
\* requests of the same key have been admitted since.
RetryIsEnough ==
  \A i, j \in DOMAIN log :
    /\ i < j
    /\ ~log[i].admitted
    /\ Key(log[i].request) = Key(log[j].request)
    /\ log[j].time >= log[i].time + log[i].retry * Ticks
    /\ \A n \in i..(j - 1) : Key(log[n].request) = Key(log[i].request) => ~log[n].admitted
    => log[j].admitted
==============================================================================
