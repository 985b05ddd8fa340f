--------------------------- MODULE RequestProofs ---------------------------
(***************************************************************************)
(* What a webhook request may rely on.  For any route classes, limits,     *)
(* windows, addresses and tokens, and any length of run: the rate          *)
(* limiter's counters implement the promise of RateWindow, an address      *)
(* without the token is bounded in every stretch shorter than its window,  *)
(* and Retry-After is honest.  For any body limits, chunks, payloads,      *)
(* topologies and rules: the body is whole, an accepted event has its      *)
(* audit row, the diagnostics explain the tags, no secret is kept, and     *)
(* what is kept and shown fits its bounds.                                 *)
(***************************************************************************)
EXTENDS RateLimiter, Admission, FiniteSetTheorems, WellFoundedInduction, TLAPS

------------------------------------------------------------------------------
(* Types *)

LEMMA LengthType == \A k \in Keys : Length(k) \in Nat \ {0}
<1> SUFFICES ASSUME NEW r \in Limited PROVE Length(Key(r)) \in Nat \ {0}
  BY DEF Keys
<1>1. r.class \in Classes /\ Key(r)[1] = r.class
  BY DEF Limited, Requests, Key
<1>2. Seconds[r.class] \in Nat \ {0} /\ Ticks \in Nat \ {0}
  BY <1>1, LimiterAssumption
<1>3. \A m, n \in Nat \ {0} : m * n \in Nat \ {0}
  OBVIOUS
<1> QED
  BY <1>1, <1>2, <1>3 DEF Length

LEMMA KeyOfLimited ==
  ASSUME NEW r \in Limited
  PROVE  /\ r \in Requests /\ r.class \in Classes
         /\ Key(r) \in Keys /\ Key(r)[1] = r.class
         /\ Limit[r.class] \in Nat /\ Limit[r.class] > 0
  BY LimiterAssumption DEF Limited, Requests, Keys, Key

\* What the steps rely on: the counters count admissions, of windows that have
\* begun.
CountersInv ==
  /\ TypeOK
  /\ \A k \in DOMAIN counters :
       counters[k].start <= now /\ counters[k].count \in 1..Limit[k[1]]
  /\ \A i \in DOMAIN log : log[i].time <= now

\* The entry that check works on.
LEMMA CurrentType ==
  ASSUME CountersInv, NEW k \in Keys
  PROVE  /\ Current(k) \in Counter /\ Current(k).start <= now
         /\ Current(k).count = (IF Live(k) THEN counters[k].count ELSE 0)
         /\ Current(k).start = (IF Live(k) THEN counters[k].start ELSE now)
         /\ Live(k) => Current(k) = counters[k] /\ counters[k].count > 0
         /\ now - Current(k).start < Length(k)
<1>1. now \in Nat /\ Length(k) \in Nat \ {0}
  BY LengthType DEF CountersInv, TypeOK
<1>2. CASE Live(k)
  BY <1>1, <1>2 DEF Live, Current, CountersInv, TypeOK, Expired, Counter
<1>3. CASE ~Live(k)
  BY <1>1, <1>3 DEF Live, Current, CountersInv, TypeOK, Counter
<1> QED
  BY <1>2, <1>3

LEMMA RetryType ==
  ASSUME CountersInv, NEW k \in Keys
  PROVE  /\ RetryAfter(k) \in Nat
         /\ RetryAfter(k) * Ticks >= Current(k).start + Length(k) - now
<1> DEFINE left == Current(k).start + Length(k) - now
<1>1. left \in Nat /\ Ticks \in Nat \ {0}
  BY CurrentType, LengthType, LimiterAssumption, SMTT(20) DEF CountersInv, TypeOK, Counter
<1>2. ASSUME NEW a \in Nat, NEW d \in Nat \ {0}
      PROVE  (a + d - 1) \div d \in Nat /\ ((a + d - 1) \div d) * d >= a
  OBVIOUS
<1>3. RetryAfter(k) = IF left <= Ticks THEN 1 ELSE (left + Ticks - 1) \div Ticks
  BY DEF RetryAfter
<1> HIDE DEF left
<1>4. RetryAfter(k) \in Nat /\ RetryAfter(k) * Ticks >= left
  <2>1. CASE left <= Ticks
    <3>1. RetryAfter(k) = 1 /\ 1 * Ticks = Ticks
      BY <1>1, <1>3, <2>1
    <3> QED
      BY <1>1, <2>1, <3>1
  <2>2. CASE ~(left <= Ticks)
    BY <1>1, <1>2, <1>3, <2>2
  <2> QED
    BY <2>1, <2>2
<1> QED
  BY <1>4 DEF left

LEMMA LogType ==
  ASSUME TypeOK
  PROVE  /\ Len(log) \in Nat /\ DOMAIN log = 1..Len(log)
         /\ \A i \in DOMAIN log : log[i] \in Answers /\ log[i].time \in Nat
                                 /\ log[i].retry \in Nat /\ log[i].request \in Requests
<1>1. log \in Seq(Answers) /\ MaxTime \in Nat
  BY LimiterAssumption DEF TypeOK
<1>2. \A a \in Answers : a.time \in Nat /\ a.retry \in Nat /\ a.request \in Requests
  BY <1>1 DEF Answers
<1> QED
  BY <1>1, <1>2

\* What a request does to the log.
LEMMA LogGrows ==
  ASSUME TypeOK, NEW entry \in Answers, log' = Append(log, entry)
  PROVE  /\ log' \in Seq(Answers)
         /\ Len(log') = Len(log) + 1 /\ Len(log) \in Nat
         /\ DOMAIN log = 1..Len(log)
         /\ DOMAIN log' = 1..(Len(log) + 1)
         /\ \A i \in DOMAIN log : log'[i] = log[i]
         /\ log'[Len(log) + 1] = entry
  BY DEF TypeOK

\* A refusal rewrites the entry of a live window as it is.
LEMMA RefuseStutters ==
  ASSUME CountersInv, NEW r \in Limited, Refuse(r)
  PROVE  /\ Live(Key(r)) /\ counters[Key(r)].count >= Limit[r.class]
         /\ UNCHANGED <<counters, now>>
<1>1. Key(r) \in Keys /\ Limit[r.class] \in Nat /\ Limit[r.class] > 0
  BY KeyOfLimited
<1>2. Current(Key(r)).count >= Limit[r.class]
  BY DEF Refuse
<1>3. Live(Key(r)) /\ Current(Key(r)) = counters[Key(r)]
  BY <1>1, <1>2, CurrentType
<1>4. counters' = [j \in DOMAIN counters |-> counters[j]]
  BY <1>3 DEF Refuse, Store, Live
<1> QED
  BY <1>2, <1>3, <1>4 DEF Refuse, CountersInv, TypeOK

\* An admission counts, in the window of its key or in a new one.
LEMMA AdmitCounts ==
  ASSUME CountersInv, NEW r \in Limited, Admit(r)
  PROVE  /\ UNCHANGED now
         /\ DOMAIN counters' = DOMAIN counters \cup {Key(r)}
         /\ \A k \in DOMAIN counters : k # Key(r) => counters'[k] = counters[k]
         /\ counters'[Key(r)].count = Current(Key(r)).count + 1
         /\ counters'[Key(r)].start = Current(Key(r)).start
         /\ Current(Key(r)).count + 1 \in 1..Limit[r.class]
         /\ counters'[Key(r)] \in Counter
<1>1. Current(Key(r)) \in Counter /\ Limit[r.class] \in Nat
  BY KeyOfLimited, CurrentType
<1>2. Current(Key(r)).count < Limit[r.class]
  BY DEF Admit
<1>3. counters' = [j \in DOMAIN counters \cup {Key(r)} |->
                     IF j = Key(r) THEN [Current(Key(r)) EXCEPT !.count = @ + 1]
                                   ELSE counters[j]]
  BY DEF Admit, Store
<1> QED
  BY <1>1, <1>2, <1>3 DEF Admit, Counter

\* Every step keeps the counters and the log well formed.
LEMMA CountersStep == CountersInv /\ [Next]_vars => CountersInv'
<1> SUFFICES ASSUME CountersInv, [Next]_vars PROVE CountersInv'
  OBVIOUS
<1>1. CASE Tick
  <2>1. now' \in 0..MaxTime /\ now' = now + 1 /\ UNCHANGED <<counters, log>> /\ now \in Nat
    BY <1>1, LimiterAssumption DEF Tick, CountersInv, TypeOK
  <2>2. \A k \in DOMAIN counters : counters[k].start \in Nat
    BY DEF CountersInv, TypeOK, Counter
  <2>3. \A i \in DOMAIN log : log[i].time \in Nat
    BY LogType DEF CountersInv
  <2> QED
    BY <2>1, <2>2, <2>3 DEF CountersInv, TypeOK
<1>2. CASE Sweep
  <2>1. /\ DOMAIN counters' \subseteq DOMAIN counters
        /\ \A k \in DOMAIN counters' : counters'[k] = counters[k]
        /\ counters' = [k \in DOMAIN counters' |-> counters'[k]]
        /\ UNCHANGED <<now, log>>
    BY <1>2 DEF Sweep
  <2> QED
    BY <2>1 DEF CountersInv, TypeOK
<1>3. ASSUME NEW r \in Requests, Len(log) < MaxRequests, Pass(r) PROVE CountersInv'
  <2> DEFINE entry == [request |-> r, time |-> now, admitted |-> TRUE, retry |-> 0]
  <2>1. entry \in Answers /\ log' = Append(log, entry) /\ UNCHANGED <<now, counters>>
    BY <1>3 DEF Pass, Answer, Answers, CountersInv, TypeOK
  <2> HIDE DEF entry
  <2> QED
    BY <1>3, <2>1, LogGrows, LimiterAssumption DEF CountersInv, TypeOK, entry
<1>4. ASSUME NEW r \in Limited, Len(log) < MaxRequests, Refuse(r) PROVE CountersInv'
  <2> DEFINE entry == [request |-> r, time |-> now, admitted |-> FALSE,
                       retry |-> RetryAfter(Key(r))]
  <2>1. entry \in Answers /\ log' = Append(log, entry)
    BY <1>4, KeyOfLimited, RetryType DEF Refuse, Answer, Answers, CountersInv, TypeOK
  <2>2. UNCHANGED <<counters, now>>
    BY <1>4, RefuseStutters
  <2>3. entry.time = now
    OBVIOUS
  <2> HIDE DEF entry
  <2> QED
    BY <1>4, <2>1, <2>2, <2>3, LogGrows, LimiterAssumption DEF CountersInv, TypeOK
<1>5. ASSUME NEW r \in Limited, Len(log) < MaxRequests, Admit(r) PROVE CountersInv'
  <2> DEFINE entry == [request |-> r, time |-> now, admitted |-> TRUE, retry |-> 0]
             k == Key(r)
  <2>1. entry \in Answers /\ log' = Append(log, entry) /\ entry.time = now
    BY <1>5, KeyOfLimited DEF Admit, Answer, Answers, CountersInv, TypeOK
  <2>2. now' = now /\ DOMAIN counters' = DOMAIN counters \cup {k}
    BY <1>5, AdmitCounts
  <2>3. ASSUME NEW j \in DOMAIN counters'
        PROVE  /\ j \in Keys /\ counters'[j] \in Counter
               /\ counters'[j].start <= now /\ counters'[j].count \in 1..Limit[j[1]]
    <3>1. CASE j = k
      BY <1>5, <3>1, AdmitCounts, KeyOfLimited, CurrentType
    <3>2. CASE j # k
      BY <1>5, <2>2, <3>2, AdmitCounts DEF CountersInv, TypeOK
    <3> QED
      BY <3>1, <3>2
  <2>4. counters' = [j \in DOMAIN counters' |-> counters'[j]]
    BY <1>5 DEF Admit, Store
  <2> HIDE DEF entry, k
  <2>5. /\ DOMAIN counters' \subseteq Keys
        /\ counters' \in [DOMAIN counters' -> Counter]
    BY <2>3, <2>4
  <2>6. Len(log') <= MaxRequests /\ log' \in Seq(Answers) /\ \A i \in DOMAIN log' : log'[i].time <= now
    BY <1>5, <2>1, LogGrows, LimiterAssumption DEF CountersInv, TypeOK
  <2> QED
    BY <2>2, <2>3, <2>5, <2>6 DEF CountersInv, TypeOK
<1>6. CASE UNCHANGED vars
  BY <1>6 DEF vars, CountersInv, TypeOK
<1> QED
  BY <1>1, <1>2, <1>3, <1>4, <1>5, <1>6 DEF Next, Request, Pass, Refuse, Admit

LEMMA CountersInit == Init => CountersInv
<1> SUFFICES ASSUME Init PROVE CountersInv
  OBVIOUS
<1>1. now = 0 /\ DOMAIN counters = {} /\ counters \in [DOMAIN counters -> Counter]
  BY DEF Init
<1>2. log = <<>> /\ log \in Seq(Answers) /\ Len(log) = 0 /\ DOMAIN log = {}
  BY DEF Init
<1> QED
  BY <1>1, <1>2, LimiterAssumption DEF CountersInv, TypeOK

\* Every reachable state of the limiter is well formed, and no counter has counted
\* more than its limit.
THEOREM LimiterTypeCorrect == Spec => []CountersInv
  BY CountersInit, CountersStep, PTL DEF Spec

------------------------------------------------------------------------------
(* The promise *)

\* The abstract view of a key.
Used(k) == IF Live(k) THEN counters[k].count ELSE 0
Left(k) == IF Live(k) THEN counters[k].start + Length(k) - now ELSE 0

LEMMA ViewType ==
  ASSUME CountersInv, NEW k \in Keys
  PROVE  /\ Used(k) \in Nat /\ Left(k) \in Nat
         /\ Used(k) = Current(k).count
         /\ Left(k) = 0 <=> ~Live(k)
<1>1. now \in Nat /\ Length(k) \in Nat \ {0}
  BY LengthType DEF CountersInv, TypeOK
<1>2. CASE Live(k)
  BY <1>1, <1>2, CurrentType DEF Used, Left, Live, CountersInv, TypeOK, Expired, Counter
<1>3. CASE ~Live(k)
  BY <1>3, CurrentType DEF Used, Left
<1> QED
  BY <1>2, <1>3

\* An admission opens the key's window or counts in it.
LEMMA AdmitView ==
  ASSUME CountersInv, NEW r \in Limited, Admit(r), NEW k \in Keys
  PROVE  /\ Used(k)' = IF k = Key(r) THEN Used(k) + 1 ELSE Used(k)
         /\ Left(k)' = IF k = Key(r) /\ Left(k) = 0 THEN Length(k) ELSE Left(k)
<1>1. now' = now /\ now \in Nat /\ Length(k) \in Nat \ {0}
  <2>1. now' = now
    BY AdmitCounts
  <2> QED
    BY <2>1, LengthType DEF CountersInv, TypeOK
<1>2. CASE k = Key(r)
  <2>1. /\ k \in DOMAIN counters' /\ counters'[k].start = Current(k).start
        /\ counters'[k].count = Current(k).count + 1
    BY <1>2, AdmitCounts
  <2>2. now - Current(k).start < Length(k) /\ Current(k).start \in Nat
    BY CurrentType DEF Counter
  <2>3. Live(k)'
    BY <1>1, <2>1, <2>2 DEF Live, Expired, Length
  <2>4. Used(k)' = Used(k) + 1
    BY <2>1, <2>3, ViewType DEF Used
  <2>5. Left(k)' = Current(k).start + Length(k) - now
    BY <1>1, <2>1, <2>3 DEF Left, Length
  <2>6. CASE Live(k)
    BY <1>2, <2>4, <2>5, <2>6, CurrentType, ViewType DEF Left
  <2>7. CASE ~Live(k)
    BY <1>1, <1>2, <2>4, <2>5, <2>7, CurrentType, ViewType DEF Left
  <2> QED
    BY <2>6, <2>7
<1>3. CASE k # Key(r)
  <2>1. k \in DOMAIN counters' <=> k \in DOMAIN counters
    <3>1. DOMAIN counters' = DOMAIN counters \cup {Key(r)}
      BY AdmitCounts
    <3> QED
      BY <1>3, <3>1
  <2>2. k \in DOMAIN counters => counters'[k] = counters[k]
    BY <1>3, AdmitCounts
  <2> QED
    BY <1>1, <1>3, <2>1, <2>2 DEF Used, Left, Live, Expired, Length
<1> QED
  BY <1>2, <1>3

\* A tick brings the end of each window nearer, and closes it.
LEMMA TickView ==
  ASSUME CountersInv, Tick, NEW k \in Keys
  PROVE  /\ Left(k)' = IF Left(k) = 0 THEN 0 ELSE Left(k) - 1
         /\ Used(k)' = IF Left(k) <= 1 THEN 0 ELSE Used(k)
<1>1. now' = now + 1 /\ now \in Nat /\ counters' = counters /\ Length(k) \in Nat \ {0}
  BY LengthType DEF Tick, CountersInv, TypeOK
<1>2. Length(k)' = Length(k)
  BY DEF Length
<1>3. k \in DOMAIN counters => counters[k].start \in Nat /\ counters[k].start <= now
  BY DEF CountersInv, TypeOK, Counter
<1> QED
  BY <1>1, <1>2, <1>3 DEF Used, Left, Live, Expired

\* The sweep forgets only what has passed.
LEMMA SweepView ==
  ASSUME CountersInv, Sweep, NEW k \in Keys
  PROVE  Live(k)' = Live(k) /\ Used(k)' = Used(k) /\ Left(k)' = Left(k)
<1>1. now' = now
  BY DEF Sweep
<1>2. k \in DOMAIN counters' <=> k \in DOMAIN counters /\ ~Expired(k)
  BY DEF Sweep
<1>3. k \in DOMAIN counters' => counters'[k] = counters[k]
  BY DEF Sweep
<1> QED
  BY <1>1, <1>2, <1>3 DEF Used, Left, Live, Expired, Length

LEMMA WindowStep == CountersInv /\ [Next]_vars => [Window!Next]_Window!vars
<1> SUFFICES ASSUME CountersInv, [Next]_vars PROVE [Window!Next]_Window!vars
  OBVIOUS
<1> DEFINE used == [k \in Keys |-> IF Live(k) THEN counters[k].count ELSE 0]
           left == [k \in Keys |-> IF Live(k) THEN counters[k].start + Length(k) - now ELSE 0]
<1>1. used = [k \in Keys |-> Used(k)] /\ left = [k \in Keys |-> Left(k)]
  BY DEF Used, Left
<1>2. used' = [k \in Keys |-> Used(k)'] /\ left' = [k \in Keys |-> Left(k)']
  BY DEF Used, Left
\* The abstract steps, over this view of a key.
<1>0. /\ Window!Tick <=>
           /\ left' = [k \in Keys |-> IF left[k] = 0 THEN 0 ELSE left[k] - 1]
           /\ used' = [k \in Keys |-> IF left[k] <= 1 THEN 0 ELSE used[k]]
      /\ UNCHANGED Window!vars <=> UNCHANGED <<used, left>>
      /\ \A k \in Keys : Window!Admit(k) <=>
           /\ used[k] < [j \in Keys |-> Limit[j[1]]][k]
           /\ used' = [used EXCEPT ![k] = @ + 1]
           /\ left' = [left EXCEPT ![k] = IF @ = 0 THEN [j \in Keys |-> Length(j)][k] ELSE @]
  BY DEF Window!Tick, Window!vars, Window!Admit
<1> HIDE DEF used, left
<1>3. CASE Tick
  <2>1. left' = [k \in Keys |-> IF left[k] = 0 THEN 0 ELSE left[k] - 1]
    BY <1>1, <1>2, <1>3, TickView
  <2>2. used' = [k \in Keys |-> IF left[k] <= 1 THEN 0 ELSE used[k]]
    BY <1>1, <1>2, <1>3, TickView
  <2> QED
    BY <1>0, <2>1, <2>2 DEF Window!Next
<1>4. CASE Sweep
  <2>1. used' = used /\ left' = left
    BY <1>1, <1>2, <1>4, SweepView
  <2> QED
    BY <1>0, <2>1
<1>5. CASE UNCHANGED <<now, counters>>
  <2>1. \A k \in Keys : Used(k)' = Used(k) /\ Left(k)' = Left(k)
    BY <1>5 DEF Used, Left, Live, Expired, Length
  <2>2. used' = used /\ left' = left
    BY <1>1, <1>2, <2>1
  <2> QED
    BY <1>0, <2>2
<1>6. ASSUME NEW r \in Limited, Admit(r) PROVE Window!Admit(Key(r))
  <2>1. Key(r) \in Keys /\ Key(r)[1] = r.class
    BY KeyOfLimited
  <2>2. used' = [used EXCEPT ![Key(r)] = @ + 1]
    <3> SUFFICES \A k \in Keys : Used(k)' = IF k = Key(r) THEN Used(k) + 1 ELSE Used(k)
      BY <1>1, <1>2
    <3> QED
      BY <1>6, AdmitView
  <2>3. left' = [left EXCEPT ![Key(r)] = IF @ = 0 THEN Length(Key(r)) ELSE @]
    <3> SUFFICES \A k \in Keys : Left(k)' = IF k = Key(r) /\ Left(k) = 0 THEN Length(k) ELSE Left(k)
      BY <1>1, <1>2
    <3> QED
      BY <1>6, AdmitView
  <2>4. used[Key(r)] < Limit[Key(r)[1]]
    BY <1>1, <1>6, <2>1, ViewType DEF Admit
  <2> QED
    BY <1>0, <2>1, <2>2, <2>3, <2>4
<1> QED
  <2>1. Window!Tick => Window!Next
    BY DEF Window!Next
  <2>2. ASSUME NEW k \in Keys, Window!Admit(k) PROVE Window!Next
    BY <2>2 DEF Window!Next
  <2>3. ASSUME NEW r \in Requests, Pass(r) \/ Refuse(r) PROVE UNCHANGED <<now, counters>>
    BY <2>3, RefuseStutters DEF Pass, Refuse
  <2> QED
    BY <1>3, <1>4, <1>5, <1>6, <2>1, <2>2, <2>3, KeyOfLimited DEF Next, Request, Admit, vars

\* The counters, the sweep, the stale entries it has not reached and the refusals
\* that rewrite an entry keep the promise of RateWindow: a window that opens with
\* the first admission of a key, lasts its length and admits its limit.
THEOREM CountersKeepPromise == Spec => ImplementsWindow
<1>1. Init => Window!Init
  <2> SUFFICES ASSUME Init PROVE Window!Init
    OBVIOUS
  <2>1. \A k \in Keys : ~Live(k)
    BY DEF Init, Live
  <2> QED
    BY <2>1 DEF Window!Init
<1> QED
  BY <1>1, WindowStep, LimiterTypeCorrect, PTL DEF Spec, ImplementsWindow, Window!Spec

------------------------------------------------------------------------------
(* Retry-After *)

\* In a log l: no request of the key of i has been admitted from i to n.
NoneAdmitted(l, i, n) ==
  \A m \in i..n : Key(l[m].request) = Key(l[i].request) => ~l[m].admitted

\* The promise of the i-th answer.
Promised(l, i) == l[i].time + l[i].retry * Ticks

\* With the counters cs, at a time: a window of k that is open ends by t.
EndsBy(cs, time, k, t) ==
  k \in DOMAIN cs /\ ~(time - cs[k].start >= Length(k)) => cs[k].start + Length(k) <= t

\* Why the answer is honest: it promises the end of the window that refuses, and
\* only an admission opens another one.
Honest(l, cs, time) ==
  \A i \in DOMAIN l : ~l[i].admitted =>
    /\ l[i].request \in Limited
    /\ NoneAdmitted(l, i, Len(l)) => EndsBy(cs, time, Key(l[i].request), Promised(l, i))

\* RetryIsEnough, of a log l.
Enough(l) ==
  \A i, j \in DOMAIN l :
    /\ i < j /\ ~l[i].admitted /\ Key(l[i].request) = Key(l[j].request)
    /\ l[j].time >= Promised(l, i)
    /\ NoneAdmitted(l, i, j - 1)
    => l[j].admitted

RetryInv == Honest(log, counters, now) /\ Enough(log)

\* A step that asks nothing and opens no window.
LEMMA RetryKept ==
  ASSUME CountersInv, RetryInv, UNCHANGED log,
         \A k \in Keys : Live(k)' => Live(k) /\ counters'[k] = counters[k]
  PROVE  RetryInv'
<1>1. ASSUME NEW k \in Keys, NEW t, EndsBy(counters, now, k, t)
      PROVE  EndsBy(counters', now', k, t)
  BY <1>1 DEF EndsBy, Live, Expired, Length
<1>2. \A i \in DOMAIN log : log[i].request \in Limited => Key(log[i].request) \in Keys
  BY KeyOfLimited
<1>3. Honest(log, counters', now')
  BY <1>1, <1>2 DEF RetryInv, Honest
<1> QED
  BY <1>3 DEF RetryInv

\* A request: the earlier refusals of its key were told about the window that
\* answers it, if one still refuses.
LEMMA RetryRequest ==
  ASSUME CountersInv, RetryInv, NEW r \in Requests, NEW entry \in Answers,
         log' = Append(log, entry), entry.request = r, entry.time = now,
         now' = now,
         ~entry.admitted => /\ r \in Limited /\ Live(Key(r))
                            /\ entry.retry = RetryAfter(Key(r)),
         \A k \in Keys : Live(k)' /\ (k = Key(r) => ~entry.admitted)
                           => Live(k) /\ counters'[k] = counters[k]
  PROVE  RetryInv'
<1> DEFINE new == Len(log) + 1
<1>1. /\ DOMAIN log = 1..Len(log) /\ Len(log) \in Nat
      /\ DOMAIN log' = 1..new /\ Len(log') = new
      /\ \A i \in DOMAIN log : log'[i] = log[i]
      /\ log'[new] = entry
  BY LogGrows DEF CountersInv
<1>2. new = Len(log) + 1
  OBVIOUS
<1> HIDE DEF new
<1>3. Honest(log, counters, now) /\ Enough(log)
  BY DEF RetryInv
<1>4. ASSUME NEW i \in DOMAIN log, NoneAdmitted(log', i, new)
      PROVE  /\ NoneAdmitted(log, i, Len(log))
             /\ Key(r) = Key(log[i].request) => ~entry.admitted
  <2>1. \A m \in i..Len(log) : m \in i..new /\ log'[m] = log[m]
    BY <1>1, <1>2
  <2>2. new \in i..new /\ log'[i] = log[i]
    BY <1>1, <1>2
  <2> QED
    BY <1>1, <1>4, <2>1, <2>2 DEF NoneAdmitted
\* The refusals before.
<1>5. ASSUME NEW i \in DOMAIN log, ~log[i].admitted, NoneAdmitted(log', i, new)
      PROVE  EndsBy(counters', now', Key(log[i].request), Promised(log, i))
  <2>1. log[i].request \in Limited
    BY <1>3, <1>5 DEF Honest
  <2>2. SUFFICES ASSUME NEW k \in Keys, k = Key(log[i].request)
                 PROVE  EndsBy(counters', now', k, Promised(log, i))
    BY <2>1, KeyOfLimited
  <2>3. NoneAdmitted(log, i, Len(log)) /\ (k = Key(r) => ~entry.admitted)
    BY <1>4, <1>5, <2>2
  <2>4. EndsBy(counters, now, k, Promised(log, i))
    BY <1>3, <1>5, <2>2, <2>3 DEF Honest
  <2>5. Live(k)' => Live(k) /\ counters'[k] = counters[k]
    BY <2>3
  <2> QED
    BY <2>4, <2>5 DEF EndsBy, Live, Expired, Length
\* The new one, if it is one.
<1>6. ASSUME ~entry.admitted
      PROVE  r \in Limited /\ EndsBy(counters', now', Key(r), Promised(log', new))
  <2> DEFINE k == Key(r)
             promised == RetryAfter(k) * Ticks
  <2>1. r \in Limited /\ k \in Keys /\ Live(k) /\ entry.retry = RetryAfter(k)
    BY <1>6, KeyOfLimited
  <2>2. Current(k) = counters[k] /\ Current(k).start \in Nat
    BY <2>1, CurrentType DEF Counter
  <2>3. promised >= Current(k).start + Length(k) - now /\ RetryAfter(k) \in Nat
    BY <2>1, RetryType
  <2>4. promised \in Nat /\ now \in Nat /\ Length(k) \in Nat
    BY <2>1, <2>3, LengthType, LimiterAssumption DEF CountersInv, TypeOK
  <2>5. Promised(log', new) = now + promised
    BY <1>1, <2>1 DEF Promised
  <2>6. Live(k)' => counters'[k] = counters[k]
    BY <1>6, <2>1
  <2> HIDE DEF promised, k
  <2>7. EndsBy(counters', now', k, now + promised)
    BY <2>2, <2>3, <2>4, <2>6, SMTT(20) DEF EndsBy, Live, Expired, Length
  <2> QED
    BY <2>1, <2>5, <2>7 DEF k
\* A refusal of a client that has waited: the window that refuses would still be
\* the one whose end it was told.
<1>7. ASSUME NEW i \in DOMAIN log, ~log[i].admitted, Key(log[i].request) = Key(r),
             now >= Promised(log, i), NoneAdmitted(log, i, Len(log))
      PROVE  entry.admitted
  <2>1. SUFFICES ASSUME ~entry.admitted PROVE FALSE
    OBVIOUS
  <2> DEFINE k == Key(r)
             promised == Promised(log, i)
  <2>2. r \in Limited /\ k \in Keys /\ Live(k)
    BY <2>1, KeyOfLimited
  <2>3. EndsBy(counters, now, k, promised)
    BY <1>3, <1>7 DEF Honest
  <2>4. log[i].time \in Nat /\ log[i].retry \in Nat /\ Ticks \in Nat
    BY LogType, LimiterAssumption DEF CountersInv
  <2>5. promised \in Nat
    BY <2>4, SMTT(20) DEF Promised
  <2>6. /\ now \in Nat /\ Length(k) \in Nat /\ counters[k].start \in Nat
        /\ now - counters[k].start < Length(k)
    BY <2>2, CurrentType, LengthType DEF CountersInv, TypeOK, Counter
  <2>7. now >= promised /\ k \in DOMAIN counters
    BY <1>7, <2>2 DEF Live
  <2> HIDE DEF promised, k
  <2> QED
    BY <2>3, <2>5, <2>6, <2>7 DEF EndsBy
<1>8. Enough(log')
  <2> SUFFICES ASSUME NEW i \in 1..new, NEW j \in 1..new, i < j, ~log'[i].admitted,
                      Key(log'[i].request) = Key(log'[j].request),
                      log'[j].time >= Promised(log', i),
                      NoneAdmitted(log', i, j - 1)
               PROVE  log'[j].admitted
    BY <1>1 DEF Enough
  <2>1. i \in DOMAIN log /\ log'[i] = log[i] /\ Promised(log', i) = Promised(log, i)
    BY <1>1, <1>2 DEF Promised
  <2>2. NoneAdmitted(log, i, j - 1)
    <3>1. \A m \in i..(j - 1) : m \in DOMAIN log /\ log'[m] = log[m]
      BY <1>1, <1>2
    <3> QED
      BY <2>1, <3>1 DEF NoneAdmitted
  <2>3. CASE j = new
    <3>1. j - 1 = Len(log)
      BY <1>1, <1>2, <2>3
    <3> QED
      BY <1>1, <1>7, <2>1, <2>2, <2>3, <3>1
  <2>4. CASE j # new
    <3>1. j \in DOMAIN log /\ log'[j] = log[j]
      BY <1>1, <1>2, <2>4
    <3> QED
      BY <1>3, <2>1, <2>2, <3>1 DEF Enough
  <2> QED
    BY <2>3, <2>4
<1>9. ASSUME NEW i \in 1..new, ~log'[i].admitted
      PROVE  /\ log'[i].request \in Limited
             /\ NoneAdmitted(log', i, new)
                  => EndsBy(counters', now', Key(log'[i].request), Promised(log', i))
  <2>1. CASE i = new
    BY <1>1, <1>6, <1>9, <2>1
  <2>2. CASE i # new
    <3>1. i \in DOMAIN log /\ log'[i] = log[i] /\ Promised(log', i) = Promised(log, i)
      BY <1>1, <1>2, <2>2 DEF Promised
    <3>2. log[i].request \in Limited
      BY <1>3, <1>9, <3>1 DEF Honest
    <3> QED
      BY <1>5, <1>9, <3>1, <3>2
  <2> QED
    BY <2>1, <2>2
<1>10. Honest(log', counters', now')
  BY <1>1, <1>9 DEF Honest
<1> QED
  BY <1>8, <1>10 DEF RetryInv

LEMMA RetryStep == CountersInv /\ RetryInv /\ [Next]_vars => RetryInv'
<1> SUFFICES ASSUME CountersInv, RetryInv, [Next]_vars PROVE RetryInv'
  OBVIOUS
<1>1. CASE Tick
  <2>1. UNCHANGED <<log, counters>> /\ now' = now + 1 /\ now \in Nat
    BY <1>1 DEF Tick, CountersInv, TypeOK
  <2>2. ASSUME NEW k \in Keys, Live(k)' PROVE Live(k)
    <3>1. Length(k) \in Nat /\ counters[k].start \in Nat
      BY <2>1, <2>2, LengthType DEF Live, CountersInv, TypeOK, Counter
    <3> QED
      BY <2>1, <2>2, <3>1 DEF Live, Expired, Length
  <2> QED
    BY <2>1, <2>2, RetryKept
<1>2. CASE Sweep
  <2>1. UNCHANGED log /\ \A k \in Keys : Live(k)' => Live(k) /\ counters'[k] = counters[k]
    BY <1>2, SweepView DEF Sweep, Live
  <2> QED
    BY <2>1, RetryKept
<1>3. ASSUME NEW r \in Requests, Pass(r) PROVE RetryInv'
  <2> DEFINE entry == [request |-> r, time |-> now, admitted |-> TRUE, retry |-> 0]
  <2>1. /\ entry \in Answers /\ log' = Append(log, entry) /\ UNCHANGED <<now, counters>>
        /\ entry.request = r /\ entry.time = now /\ entry.admitted
    BY <1>3 DEF Pass, Answer, Answers, CountersInv, TypeOK
  <2>2. \A k \in Keys : Live(k)' => Live(k) /\ counters'[k] = counters[k]
    BY <2>1 DEF Live, Expired, Length
  <2> HIDE DEF entry
  <2> QED
    BY <2>1, <2>2, RetryRequest
<1>4. ASSUME NEW r \in Limited, Refuse(r) PROVE RetryInv'
  <2> DEFINE entry == [request |-> r, time |-> now, admitted |-> FALSE,
                       retry |-> RetryAfter(Key(r))]
  <2>1. /\ entry \in Answers /\ log' = Append(log, entry)
        /\ entry.request = r /\ entry.time = now /\ ~entry.admitted
        /\ entry.retry = RetryAfter(Key(r))
    BY <1>4, KeyOfLimited, RetryType DEF Refuse, Answer, Answers, CountersInv, TypeOK
  <2>2. UNCHANGED <<now, counters>> /\ Live(Key(r)) /\ r \in Requests
    BY <1>4, RefuseStutters, KeyOfLimited
  <2>3. \A k \in Keys : Live(k)' => Live(k) /\ counters'[k] = counters[k]
    BY <2>2 DEF Live, Expired, Length
  <2> HIDE DEF entry
  <2> QED
    BY <2>1, <2>2, <2>3, RetryRequest
<1>5. ASSUME NEW r \in Limited, Admit(r) PROVE RetryInv'
  <2> DEFINE entry == [request |-> r, time |-> now, admitted |-> TRUE, retry |-> 0]
  <2>1. /\ entry \in Answers /\ log' = Append(log, entry) /\ r \in Requests
        /\ entry.request = r /\ entry.time = now /\ entry.admitted
    BY <1>5, KeyOfLimited DEF Admit, Answer, Answers, CountersInv, TypeOK
  <2>2. now' = now /\ DOMAIN counters' = DOMAIN counters \cup {Key(r)}
    BY <1>5, AdmitCounts
  <2>3. \A k \in DOMAIN counters : k # Key(r) => counters'[k] = counters[k]
    BY <1>5, AdmitCounts
  <2>4. \A k \in Keys : Live(k)' /\ k # Key(r) => Live(k) /\ counters'[k] = counters[k]
    BY <2>2, <2>3 DEF Live, Expired, Length
  <2> HIDE DEF entry
  <2> QED
    BY <2>1, <2>2, <2>4, RetryRequest
<1>6. CASE UNCHANGED vars
  <2>1. UNCHANGED log /\ \A k \in Keys : Live(k)' => Live(k) /\ counters'[k] = counters[k]
    BY <1>6 DEF vars, Live, Expired, Length
  <2> QED
    BY <2>1, RetryKept
<1> QED
  BY <1>1, <1>2, <1>3, <1>4, <1>5, <1>6 DEF Next, Request, Refuse, Admit

\* A client that waits as long as Retry-After says is admitted, unless requests of
\* its key have been admitted since, whatever the sweep drops meanwhile.
THEOREM RetryAfterIsHonest == Spec => []RetryIsEnough
<1>1. Init => RetryInv
  BY DEF Init, RetryInv, Honest, Enough
<1>2. Enough(log) => RetryIsEnough
  BY DEF Enough, RetryIsEnough, Promised, NoneAdmitted
<1>3. RetryInv => RetryIsEnough
  BY <1>2 DEF RetryInv
<1> QED
  BY <1>1, <1>3, RetryStep, LimiterTypeCorrect, PTL DEF Spec

------------------------------------------------------------------------------
(* How much an address gets *)

\* The admissions of k in the log l, from the i-th answer on and less than the
\* window of k after it.
Burst(l, i, k) ==
  {j \in DOMAIN l : /\ j >= i /\ l[j].admitted /\ Key(l[j].request) = k
                    /\ l[j].time - l[i].time < Length(k)}

\* With the counters cs, at a time: how many there can be of n admissions in the
\* stretch that begins at t.  A window that was open before the stretch has been
\* opened by an admission outside it, and so gives it one less than the limit; only
\* one more window can begin within the stretch.
Within(cs, time, k, t, n) ==
  LET most == Limit[k[1]]
      live == k \in DOMAIN cs /\ ~(time - cs[k].start >= Length(k))
  IN  /\ n <= 2 * most - 1
      /\ live /\ cs[k].start < t => n <= cs[k].count - 1
      /\ live /\ cs[k].start = t => n <= cs[k].count
      /\ live /\ cs[k].start > t /\ cs[k].start < t + Length(k) => n <= cs[k].count + most - 1
      /\ ~live /\ time = t => n = 0
      /\ ~live /\ time < t + Length(k) => n <= most - 1

Bounded(l, cs, time) ==
  \A i \in DOMAIN l, k \in Keys : Within(cs, time, k, l[i].time, Cardinality(Burst(l, i, k)))

BoundInv == Bounded(log, counters, now)

\* Time passes, or an entry that has expired goes.
LEMMA WithinKept ==
  ASSUME CountersInv, NEW k \in Keys, NEW t \in Nat, t <= now, NEW n \in Nat,
         Within(counters, now, k, t, n), Tick \/ Sweep \/ UNCHANGED <<counters, now>>
  PROVE  Within(counters', now', k, t, n)
<1>1. now \in Nat /\ Length(k) \in Nat \ {0} /\ Limit[k[1]] \in Nat /\ Limit[k[1]] > 0
  <2>1. PICK r \in Limited : k = Key(r)
    BY DEF Keys
  <2> QED
    BY <2>1, KeyOfLimited, LengthType DEF CountersInv, TypeOK
<1>2. k \in DOMAIN counters =>
        /\ counters[k].start \in Nat /\ counters[k].start <= now
        /\ counters[k].count \in Nat /\ counters[k].count <= Limit[k[1]] /\ counters[k].count > 0
  BY <1>1 DEF CountersInv, TypeOK, Counter
<1>3. CASE Tick
  <2>1. counters' = counters /\ now' = now + 1
    BY <1>3 DEF Tick
  <2> QED
    BY <1>1, <1>2, <2>1 DEF Within
<1>4. CASE Sweep
  <2>1. now' = now
    BY <1>4 DEF Sweep
  <2>2. k \in DOMAIN counters' <=> k \in DOMAIN counters /\ ~(now - counters[k].start >= Length(k))
    BY <1>4 DEF Sweep, Expired
  <2>3. k \in DOMAIN counters' => counters'[k] = counters[k]
    BY <1>4 DEF Sweep
  <2> QED
    BY <2>1, <2>2, <2>3 DEF Within
<1> QED
  BY <1>3, <1>4

\* An admission of k at this moment.
LEMMA WithinAdmitted ==
  ASSUME CountersInv, NEW r \in Limited, Admit(r), NEW k, k = Key(r), NEW t \in Nat, t <= now,
         NEW n \in Nat, Within(counters, now, k, t, n)
  PROVE  Within(counters', now', k, t, IF now - t < Length(k) THEN n + 1 ELSE n)
<1> DEFINE most == Limit[k[1]]
<1>1. now \in Nat /\ Length(k) \in Nat \ {0} /\ most \in Nat /\ most > 0 /\ k \in Keys
  BY KeyOfLimited, LengthType DEF CountersInv, TypeOK
<1>2. now' = now
  BY AdmitCounts
<1>3. /\ k \in DOMAIN counters'
      /\ counters'[k].count = Current(k).count + 1 /\ counters'[k].start = Current(k).start
      /\ Current(k).count + 1 <= most
  <2>1. most = Limit[r.class]
    BY KeyOfLimited
  <2>2. /\ Key(r) \in DOMAIN counters' /\ Current(Key(r)).count + 1 \in 1..Limit[r.class]
        /\ counters'[Key(r)].count = Current(Key(r)).count + 1
        /\ counters'[Key(r)].start = Current(Key(r)).start
    BY AdmitCounts
  <2> HIDE DEF most
  <2> QED
    BY <2>1, <2>2
<1>4. Current(k).count \in Nat /\ Current(k).start \in Nat /\ now - Current(k).start < Length(k)
  BY <1>1, CurrentType DEF Counter
<1> HIDE DEF most
<1>5. CASE Live(k)
  <2>1. Current(k) = counters[k] /\ k \in DOMAIN counters /\ counters[k].start <= now
        /\ ~(now - counters[k].start >= Length(k))
    BY <1>1, <1>5, CurrentType DEF Live, Expired
  <2> QED
    BY <1>1, <1>2, <1>3, <1>4, <2>1, SMTT(20) DEF Within, most
<1>6. CASE ~Live(k)
  <2>1. Current(k).start = now /\ Current(k).count = 0
        /\ ~(k \in DOMAIN counters /\ ~(now - counters[k].start >= Length(k)))
    BY <1>1, <1>6, CurrentType DEF Live, Expired
  <2> QED
    BY <1>1, <1>2, <1>3, <1>4, <2>1, SMTT(20) DEF Within, most
<1> QED
  BY <1>5, <1>6

\* The stretch that begins with this answer, before it is counted.
LEMMA WithinNew ==
  ASSUME CountersInv, NEW k \in Keys
  PROVE  Within(counters, now, k, now, 0)
<1>1. now \in Nat /\ Length(k) \in Nat \ {0} /\ Limit[k[1]] \in Nat /\ Limit[k[1]] > 0
  <2>1. PICK r \in Limited : k = Key(r)
    BY DEF Keys
  <2> QED
    BY <2>1, KeyOfLimited, LengthType DEF CountersInv, TypeOK
<1>2. k \in DOMAIN counters =>
        /\ counters[k].start \in Nat /\ counters[k].start <= now
        /\ counters[k].count \in Nat /\ counters[k].count > 0
  BY <1>1 DEF CountersInv, TypeOK, Counter
<1> QED
  BY <1>1, <1>2 DEF Within

\* A request: the bursts that its answer falls into grow by it.
LEMMA BurstGrows ==
  ASSUME CountersInv, NEW entry \in Answers, log' = Append(log, entry), entry.time = now,
         NEW k \in Keys, NEW i \in DOMAIN log
  PROVE  /\ Cardinality(Burst(log, i, k)) \in Nat
         /\ log[i].time \in Nat /\ log[i].time <= now
         /\ Cardinality(Burst(log', i, k)) =
              IF entry.admitted /\ Key(entry.request) = k /\ now - log[i].time < Length(k)
              THEN Cardinality(Burst(log, i, k)) + 1 ELSE Cardinality(Burst(log, i, k))
<1> DEFINE new == Len(log) + 1
           B == Burst(log, i, k)
<1>1. /\ DOMAIN log = 1..Len(log) /\ Len(log) \in Nat
      /\ DOMAIN log' = 1..new
      /\ \A j \in DOMAIN log : log'[j] = log[j]
      /\ log'[new] = entry
  BY LogGrows DEF CountersInv
<1>2. IsFiniteSet(B) /\ new \notin B /\ Cardinality(B) \in Nat
  <2>1. B \in SUBSET (1..Len(log)) /\ new \notin B
    BY <1>1 DEF Burst
  <2>2. IsFiniteSet(1..Len(log))
    BY <1>1, FS_Interval
  <2> HIDE DEF B, new
  <2> QED
    BY <2>1, <2>2, FS_Subset, FS_CardinalityType
<1>3. log[i].time \in Nat /\ log[i].time <= now
  BY LogType DEF CountersInv
<1>4. DOMAIN log' = DOMAIN log \cup {new} /\ new >= i /\ i \in DOMAIN log'
  BY <1>1
<1>5. Burst(log', i, k) =
        IF entry.admitted /\ Key(entry.request) = k /\ now - log[i].time < Length(k)
        THEN B \cup {new} ELSE B
  <2> HIDE DEF new
  <2> QED
    BY <1>1, <1>4 DEF Burst
<1> HIDE DEF B, new
<1>6. Cardinality(B \cup {new}) = Cardinality(B) + 1
  BY <1>2, FS_AddElement
<1> QED
  BY <1>2, <1>3, <1>5, <1>6 DEF B

\* The burst of the new answer is that answer, if it counts.
LEMMA BurstBegins ==
  ASSUME CountersInv, NEW entry \in Answers, log' = Append(log, entry), entry.time = now,
         NEW k \in Keys
  PROVE  Cardinality(Burst(log', Len(log) + 1, k)) =
           IF entry.admitted /\ Key(entry.request) = k /\ now - now < Length(k) THEN 1 ELSE 0
<1> DEFINE new == Len(log) + 1
<1>1. DOMAIN log' = 1..new /\ log'[new] = entry /\ new \in Nat \ {0}
  BY LogGrows DEF CountersInv
<1>2. \A j \in DOMAIN log' : j >= new <=> j = new
  BY <1>1
<1> HIDE DEF new
<1>3. Burst(log', new, k) =
        IF entry.admitted /\ Key(entry.request) = k /\ now - now < Length(k) THEN {new} ELSE {}
  BY <1>1, <1>2 DEF Burst
<1> QED
  BY <1>3, FS_EmptySet, FS_Singleton DEF new

LEMMA BoundRequest ==
  ASSUME CountersInv, BoundInv, NEW r \in Requests, NEW entry \in Answers,
         log' = Append(log, entry), entry.request = r, entry.time = now,
         \/ ~entry.admitted \/ r \notin Limited, UNCHANGED <<counters, now>>
  PROVE  BoundInv'
<1>1. \A k \in Keys : ~(entry.admitted /\ Key(entry.request) = k)
  <2> SUFFICES ASSUME NEW q \in Limited, Key(q) = Key(r) PROVE r \in Limited
    BY DEF Keys
  <2>1. q.class = r.class
    BY DEF Key
  <2> QED
    BY <2>1 DEF Limited
<1>2. ASSUME NEW k \in Keys, NEW i \in DOMAIN log
      PROVE  Within(counters, now, k, log[i].time, Cardinality(Burst(log', i, k)))
  BY <1>1, BurstGrows DEF BoundInv, Bounded
<1>3. ASSUME NEW k \in Keys
      PROVE  Within(counters, now, k, now, Cardinality(Burst(log', Len(log) + 1, k)))
  BY <1>1, BurstBegins, WithinNew
<1>4. /\ DOMAIN log' = DOMAIN log \cup {Len(log) + 1}
      /\ \A i \in DOMAIN log : log'[i] = log[i]
      /\ log'[Len(log) + 1] = entry
  BY LogGrows DEF CountersInv
<1> QED
  BY <1>2, <1>3, <1>4 DEF BoundInv, Bounded

LEMMA BoundAdmit ==
  ASSUME CountersInv, BoundInv, NEW r \in Limited, Admit(r)
  PROVE  BoundInv'
<1> DEFINE entry == [request |-> r, time |-> now, admitted |-> TRUE, retry |-> 0]
<1>1. /\ entry \in Answers /\ log' = Append(log, entry)
      /\ entry.request = r /\ entry.time = now /\ entry.admitted
  BY KeyOfLimited DEF Admit, Answer, Answers, CountersInv, TypeOK
<1> HIDE DEF entry
<1>2. now' = now /\ now \in Nat /\ now <= now
  <2>1. now' = now
    BY AdmitCounts
  <2> QED
    BY <2>1 DEF CountersInv, TypeOK
<1>3. \A k \in Keys \ {Key(r)} :
        /\ k \in DOMAIN counters' <=> k \in DOMAIN counters
        /\ k \in DOMAIN counters => counters'[k] = counters[k]
  <2>1. /\ DOMAIN counters' = DOMAIN counters \cup {Key(r)}
        /\ \A k \in DOMAIN counters : k # Key(r) => counters'[k] = counters[k]
    BY AdmitCounts
  <2> QED
    BY <2>1
\* Of another key nothing is counted.
<1>4. ASSUME NEW k \in Keys \ {Key(r)}, NEW t, NEW n, Within(counters, now, k, t, n)
      PROVE  Within(counters', now', k, t, n)
  BY <1>2, <1>3, <1>4 DEF Within
<1>5. ASSUME NEW k \in Keys, NEW i \in DOMAIN log
      PROVE  Within(counters', now', k, log[i].time, Cardinality(Burst(log', i, k)))
  <2>1. Within(counters, now, k, log[i].time, Cardinality(Burst(log, i, k)))
    BY DEF BoundInv, Bounded
  <2>2. CASE k = Key(r)
    BY <1>1, <2>1, <2>2, BurstGrows, WithinAdmitted
  <2>3. CASE k # Key(r)
    BY <1>1, <1>4, <2>1, <2>3, BurstGrows
  <2> QED
    BY <2>2, <2>3
<1>6. ASSUME NEW k \in Keys
      PROVE  Within(counters', now', k, now, Cardinality(Burst(log', Len(log) + 1, k)))
  <2>1. Within(counters, now, k, now, 0)
    BY WithinNew
  <2>2. CASE k = Key(r)
    <3>1. Within(counters', now', k, now, IF now - now < Length(k) THEN 0 + 1 ELSE 0)
      BY <1>2, <2>1, <2>2, WithinAdmitted
    <3> QED
      BY <1>1, <2>2, <3>1, BurstBegins
  <2>3. CASE k # Key(r)
    BY <1>1, <1>4, <2>1, <2>3, BurstBegins
  <2> QED
    BY <2>2, <2>3
<1>7. /\ DOMAIN log' = DOMAIN log \cup {Len(log) + 1}
      /\ \A i \in DOMAIN log : log'[i] = log[i]
      /\ log'[Len(log) + 1] = entry
  BY <1>1, LogGrows DEF CountersInv
<1> QED
  BY <1>1, <1>5, <1>6, <1>7 DEF BoundInv, Bounded

LEMMA BoundStep == CountersInv /\ BoundInv /\ [Next]_vars => BoundInv'
<1> SUFFICES ASSUME CountersInv, BoundInv, [Next]_vars PROVE BoundInv'
  OBVIOUS
<1>1. CASE Tick \/ Sweep \/ UNCHANGED vars
  <2>1. log' = log /\ (Tick \/ Sweep \/ UNCHANGED <<counters, now>>)
    BY <1>1 DEF Tick, Sweep, vars
  <2>2. ASSUME NEW i \in DOMAIN log, NEW k \in Keys
        PROVE  Within(counters', now', k, log[i].time, Cardinality(Burst(log, i, k)))
    <3>1. log[i].time \in Nat /\ log[i].time <= now
      BY LogType DEF CountersInv
    <3>2. Cardinality(Burst(log, i, k)) \in Nat
      <4>1. IsFiniteSet(1..Len(log)) /\ Burst(log, i, k) \in SUBSET (1..Len(log))
        BY LogType, FS_Interval DEF CountersInv, Burst
      <4> QED
        BY <4>1, FS_Subset, FS_CardinalityType
    <3> QED
      BY <2>1, <3>1, <3>2, WithinKept DEF BoundInv, Bounded
  <2> QED
    BY <2>1, <2>2 DEF BoundInv, Bounded
<1>2. ASSUME NEW r \in Requests, Pass(r) PROVE BoundInv'
  <2> DEFINE entry == [request |-> r, time |-> now, admitted |-> TRUE, retry |-> 0]
  <2>1. /\ entry \in Answers /\ log' = Append(log, entry) /\ UNCHANGED <<now, counters>>
        /\ entry.request = r /\ entry.time = now /\ r \notin Limited
    BY <1>2 DEF Pass, Answer, Answers, CountersInv, TypeOK
  <2> HIDE DEF entry
  <2> QED
    BY <2>1, BoundRequest
<1>3. ASSUME NEW r \in Limited, Refuse(r) PROVE BoundInv'
  <2> DEFINE entry == [request |-> r, time |-> now, admitted |-> FALSE,
                       retry |-> RetryAfter(Key(r))]
  <2>1. /\ entry \in Answers /\ log' = Append(log, entry)
        /\ entry.request = r /\ entry.time = now /\ ~entry.admitted
    BY <1>3, KeyOfLimited, RetryType DEF Refuse, Answer, Answers, CountersInv, TypeOK
  <2>2. UNCHANGED <<now, counters>> /\ r \in Requests
    BY <1>3, RefuseStutters, KeyOfLimited
  <2> HIDE DEF entry
  <2> QED
    BY <2>1, <2>2, BoundRequest
<1> QED
  BY <1>1, <1>2, <1>3, BoundAdmit DEF Next, Request, Refuse, Admit

\* An address that does not present the valid token of a class is admitted fewer
\* times than twice its limit in any stretch shorter than the window, whatever
\* tokens it makes up, however long the run and wherever the windows fall.
THEOREM AddressStaysBounded == Spec => []AddressIsBounded
<1>1. Init => BoundInv
  BY DEF Init, BoundInv, Bounded
<1>2. CountersInv /\ BoundInv => AddressIsBounded
  <2> SUFFICES ASSUME CountersInv, BoundInv, NEW c \in Classes, NEW a \in Addresses,
                      NEW i \in DOMAIN log, Limit[c] > 0
               PROVE  Cardinality({j \in DOMAIN log :
                        /\ j >= i /\ Admitted(j)
                        /\ log[j].time - log[i].time < Seconds[c] * Ticks
                        /\ log[j].request.class = c
                        /\ log[j].request.address = a
                        /\ log[j].request.token \notin {Valid[c]} \ {NoToken}})
                      <= 2 * Limit[c] - 1
    BY DEF AddressIsBounded
  <2> DEFINE k == <<c, <<"ip", a>>>>
             burst == {j \in DOMAIN log :
                        /\ j >= i /\ Admitted(j)
                        /\ log[j].time - log[i].time < Seconds[c] * Ticks
                        /\ log[j].request.class = c
                        /\ log[j].request.address = a
                        /\ log[j].request.token \notin {Valid[c]} \ {NoToken}}
  <2>1. k \in Keys
    <3> DEFINE r == [class |-> c, address |-> a, token |-> NoToken]
    <3>1. r \in Limited /\ Key(r) = k
      BY DEF Limited, Requests, Key, Identity
    <3> QED
      BY <3>1 DEF Keys
  <2>2. Length(k) = Seconds[c] * Ticks /\ k[1] = c
    BY DEF Length
  <2>3. ASSUME NEW j \in burst PROVE j \in Burst(log, i, k)
    <3>1. Key(log[j].request) = k
      BY DEF Key, Identity
    <3> QED
      BY <2>2, <3>1 DEF Burst, Admitted
  <2> HIDE DEF k, burst
  <2>4. /\ IsFiniteSet(Burst(log, i, k)) /\ burst \in SUBSET Burst(log, i, k)
    <3>1. IsFiniteSet(1..Len(log)) /\ Burst(log, i, k) \in SUBSET (1..Len(log))
      BY LogType, FS_Interval DEF CountersInv, Burst
    <3> QED
      BY <2>3, <3>1, FS_Subset
  <2>5. Cardinality(burst) <= Cardinality(Burst(log, i, k))
        /\ Cardinality(burst) \in Nat /\ Cardinality(Burst(log, i, k)) \in Nat
    BY <2>4, FS_Subset, FS_CardinalityType
  <2>6. Cardinality(Burst(log, i, k)) <= 2 * Limit[c] - 1
    BY <2>1, <2>2 DEF BoundInv, Bounded, Within
  <2>7. Limit[c] \in Nat
    BY LimiterAssumption
  <2> QED
    BY <2>5, <2>6, <2>7, SMTT(20) DEF burst
<1> QED
  BY <1>1, <1>2, BoundStep, LimiterTypeCorrect, PTL DEF Spec

------------------------------------------------------------------------------
(* The diagnostics *)

LEMMA UpdatedFacts ==
  ASSUME NEW old, NEW new
  PROVE  /\ DOMAIN Updated(old, new) = DOMAIN old \cup DOMAIN new
         /\ \A k \in DOMAIN new : Updated(old, new)[k] = new[k]
         /\ \A k \in DOMAIN old \ DOMAIN new : Updated(old, new)[k] = old[k]
BY DEF Updated

\* What one topology rule does to the tags is what its diagnostics say, whichever keys it
\* adds, replaces or adds and replaces.
LEMMA ApplyExplains ==
  ASSUME NEW old, NEW literal, NEW captured
  PROVE  LET applied == Apply(old, literal, captured)
         IN  Explains(applied.diagnosis, old, applied.tags)
<1> DEFINE first == Updated(old, literal)
           new == Updated(first, captured)
           added == [k \in (DOMAIN literal \cup DOMAIN captured) \ DOMAIN old
                       |-> Updated(literal, captured)[k]]
           overridden == Changes(old, literal) \cup Changes(first, captured)
           applied == Apply(old, literal, captured)
<1>1. applied.tags = new /\ applied.diagnosis.added = added /\ applied.diagnosis.overridden = overridden
  BY DEF Apply
<1>2. /\ DOMAIN first = DOMAIN old \cup DOMAIN literal
      /\ \A k \in DOMAIN literal : first[k] = literal[k]
      /\ \A k \in DOMAIN old \ DOMAIN literal : first[k] = old[k]
  BY UpdatedFacts
<1>3. /\ DOMAIN new = DOMAIN first \cup DOMAIN captured
      /\ \A k \in DOMAIN captured : new[k] = captured[k]
      /\ \A k \in DOMAIN first \ DOMAIN captured : new[k] = first[k]
  BY UpdatedFacts
<1>4. /\ DOMAIN added = (DOMAIN literal \cup DOMAIN captured) \ DOMAIN old
      /\ \A k \in DOMAIN added \cap DOMAIN captured : added[k] = captured[k]
      /\ \A k \in DOMAIN added \ DOMAIN captured : added[k] = literal[k]
  <2>1. \A k \in DOMAIN added : added[k] = Updated(literal, captured)[k]
    OBVIOUS
  <2>2. \A k \in DOMAIN captured : Updated(literal, captured)[k] = captured[k]
    BY UpdatedFacts, ZenonT(30)
  <2>3. \A k \in DOMAIN literal \ DOMAIN captured : Updated(literal, captured)[k] = literal[k]
    BY UpdatedFacts
  <2>4. DOMAIN added = (DOMAIN literal \cup DOMAIN captured) \ DOMAIN old
    OBVIOUS
  <2> HIDE DEF added
  <2> QED
    BY <2>1, <2>2, <2>3, <2>4
<1>5. \A f, g, k : k \in DOMAIN f \cap DOMAIN g /\ f[k] # g[k] => <<k, f[k], g[k]>> \in Changes(f, g)
  BY DEF Changes
<1> HIDE DEF first, new, added, applied
<1>6. DOMAIN added = DOMAIN new \ DOMAIN old /\ DOMAIN old \subseteq DOMAIN new
  BY <1>2, <1>3, <1>4
<1>7. \A k \in DOMAIN added : new[k] = added[k]
  BY <1>2, <1>3, <1>4
<1>8. ASSUME NEW k \in DOMAIN old, old[k] # new[k]
      PROVE  /\ \E o \in overridden : o[1] = k /\ o[2] = old[k]
             /\ \E o \in overridden : o[1] = k /\ o[3] = new[k]
  <2> DEFINE byLiteral == <<k, old[k], literal[k]>>
             byCapture == <<k, first[k], captured[k]>>
  <2>1. k \in DOMAIN literal /\ old[k] # literal[k] => byLiteral \in overridden
    BY <1>5
  <2>2. k \in DOMAIN captured /\ first[k] # captured[k] => byCapture \in overridden
    BY <1>2, <1>5
  <2>3. CASE k \in DOMAIN literal /\ old[k] # literal[k] /\ k \in DOMAIN captured /\ first[k] # captured[k]
    <3>1. byLiteral \in overridden /\ byLiteral[1] = k /\ byLiteral[2] = old[k]
      BY <2>1, <2>3
    <3>2. byCapture \in overridden /\ byCapture[1] = k /\ byCapture[3] = new[k]
      BY <1>3, <2>2, <2>3
    <3> QED
      BY <3>1, <3>2
  <2>4. CASE k \in DOMAIN literal /\ old[k] # literal[k] /\ ~(k \in DOMAIN captured /\ first[k] # captured[k])
    <3>1. new[k] = first[k] /\ first[k] = literal[k]
      BY <1>2, <1>3, <2>4
    <3>2. byLiteral \in overridden /\ byLiteral[1] = k /\ byLiteral[2] = old[k] /\ byLiteral[3] = new[k]
      BY <2>1, <2>4, <3>1
    <3> QED
      BY <3>2
  <2>5. CASE ~(k \in DOMAIN literal /\ old[k] # literal[k])
    <3>1. first[k] = old[k]
      BY <1>2, <2>5
    <3>2. k \in DOMAIN captured /\ first[k] # captured[k] /\ new[k] = captured[k]
      BY <1>2, <1>3, <1>8, <3>1
    <3>3. byCapture \in overridden /\ byCapture[1] = k /\ byCapture[2] = old[k] /\ byCapture[3] = new[k]
      BY <2>2, <3>1, <3>2
    <3> QED
      BY <3>3
  <2> QED
    BY <2>3, <2>4, <2>5
<1>9. Explains(applied.diagnosis, old, applied.tags)
  <2> HIDE DEF overridden
  <2> QED
    BY <1>1, <1>6, <1>7, <1>8 DEF Explains
<1> QED
  BY <1>9 DEF applied

LEMMA EnrichExplains ==
  ASSUME NEW file, NEW host, NEW address, NEW old
  PROVE  LET enriched == Enrich(file, host, address, old)
         IN  Explains(enriched.diagnosis, old, enriched.tags)
<1> DEFINE enriched == Enrich(file, host, address, old)
<1>1. \/ \E literal, captured : enriched = Apply(old, literal, captured)
      \/ enriched = [tags |-> old, diagnosis |-> NoDiagnosis]
  BY DEF Enrich
<1>2. Explains(NoDiagnosis, old, old)
  <2>1. DOMAIN NoDiagnosis.added = {}
    BY DEF NoDiagnosis, NoTags
  <2> QED
    BY <2>1 DEF Explains
<1> QED
  BY <1>1, <1>2, ApplyExplains

------------------------------------------------------------------------------
(* The request *)

Early == {"arrived", "reading", "whole", "dropped", "handler"}
InHandler == {"accepted", "enriched", "decided", "written", "committed"}

\* The limiter has collected what was sent; it hands on the whole of it or nothing.
Collected ==
  /\ limit \in Int /\ sent \in Nat
  /\ at \in {"arrived", "reading"} => buffered = sent /\ ~ended /\ handed = Nothing
  /\ BodyIsWhole

\* The row in the transaction, and after its commit the row in the table, speaks of the tags
\* and the decision at hand.
Recorded ==
  /\ at # "answered" => answer = "none"
  /\ at \in Early => drafts = {} /\ rows = {} /\ audited = "none"
  /\ at \in InHandler => counted
  /\ at \in {"accepted", "enriched", "decided", "written"} => rows = {} /\ audited = "none"
  /\ at = "written" => \E row \in drafts : row.tags = tags /\ row.decision = decision
  /\ at = "committed" => audited = "success"
  /\ AcceptedIsAudited

Explained ==
  /\ at = "accepted" => tags = payload.tags
  /\ DiagnosticsExplainTags

RequestInv == Collected /\ Recorded /\ Explained

LEMMA CollectedStep == Collected /\ [RequestNext]_requestVars => Collected'
<1> SUFFICES ASSUME Collected, [RequestNext]_requestVars
             PROVE  Collected'
  OBVIOUS
<1> USE AdmissionAssumption DEF Collected, BodyIsWhole
<1>1. CASE \E length \in Lengths : Arrive(length)
  BY <1>1 DEF Arrive, Answered, config, body
<1>2. ASSUME NEW size \in Chunks, NEW more \in BOOLEAN, Receive(size, more)
      PROVE  Collected'
  <2>1. size \in Nat /\ sent + size \in Nat
    OBVIOUS
  <2>2. sent' = sent + size /\ ended' = ~more /\ UNCHANGED limit /\ buffered = sent /\ handed = Nothing
    BY <1>2 DEF Receive, config
  <2>3. CASE Oversized(sent')
    <3>1. at' = "answered" /\ handed' = Nothing
      BY <1>2, <2>2, <2>3 DEF Receive, Answered
    <3> QED
      BY <2>1, <2>2, <3>1
  <2>4. CASE ~Oversized(sent')
    <3>1. buffered' = sent' /\ (limit > 0 => sent' <= limit)
      BY <1>2, <2>1, <2>2, <2>4 DEF Receive, Oversized
    <3>2. IF more THEN at' = "reading" /\ handed' = Nothing ELSE at' = "whole" /\ handed' = buffered'
      BY <1>2, <2>2, <2>4 DEF Receive
    <3> QED
      BY <2>1, <2>2, <3>1, <3>2
  <2> QED
    BY <2>3, <2>4
<1>3. CASE Disconnect
  BY <1>3 DEF Disconnect, config, body
<1>4. CASE Refusals \/ Route
  BY <1>4 DEF Refusals, Route, TurnAway, Read, Answered, config, body
<1>5. CASE Processor
  <2>1. UNCHANGED <<limit, sent, ended, buffered, handed>> /\ at' \notin {"arrived", "reading"}
    BY <1>5 DEF Processor, Reject, NormalizationFails, Accept, EnrichEvent, RefuseTags, Evaluate,
         Decides, Fails, Write, WriteFails, Commit, CommitFails, Respond, SubmissionFails, Answered,
         config, body
  <2> QED
    BY <2>1
<1>6. CASE UNCHANGED requestVars
  BY <1>6 DEF requestVars
<1> QED
  BY <1>1, <1>2, <1>3, <1>4, <1>5, <1>6 DEF RequestNext, Middleware

LEMMA RecordedStep == Recorded /\ [RequestNext]_requestVars => Recorded'
<1> SUFFICES ASSUME Recorded, [RequestNext]_requestVars
             PROVE  Recorded'
  OBVIOUS
<1> USE DEF Recorded, AcceptedIsAudited, Early, InHandler, store, event, Answered
<1>1. CASE \E length \in Lengths : Arrive(length)
  BY <1>1 DEF Arrive
<1>2. CASE \E size \in Chunks, more \in BOOLEAN : Receive(size, more)
  BY <1>2 DEF Receive
<1>3. CASE Disconnect
  BY <1>3 DEF Disconnect
<1>4. CASE Refusals
  BY <1>4 DEF Refusals, TurnAway
<1>14. CASE Route
  BY <1>14 DEF Route, Read
<1>5. CASE Reject \/ NormalizationFails \/ RefuseTags
  BY <1>5 DEF Reject, NormalizationFails, RefuseTags, Fails
<1>6. CASE Accept \/ EnrichEvent
  BY <1>6 DEF Accept, EnrichEvent
<1>7. CASE Evaluate
  <2>1. /\ at = "enriched"
        /\ (\E outcome : Decides(outcome)) \/ Fails
    BY <1>7 DEF Evaluate
  <2>2. CASE Fails
    BY <2>1, <2>2 DEF Fails
  <2>3. CASE \E outcome : Decides(outcome)
    <3>1. at' = "decided" /\ UNCHANGED <<counted, drafts, rows, audited, answer>>
      BY <2>3 DEF Decides
    <3> QED
      BY <2>1, <3>1
  <2> QED
    BY <2>1, <2>2, <2>3
<1>8. CASE Write
  <2>1. \E row \in drafts' : row.tags = tags /\ row.decision = decision
    BY <1>8 DEF Write
  <2> QED
    BY <1>8, <2>1 DEF Write
<1>9. CASE WriteFails
  BY <1>9 DEF WriteFails
<1>10. CASE Commit
  BY <1>10 DEF Commit
<1>11. CASE CommitFails
  BY <1>11 DEF CommitFails
<1>12. CASE Respond \/ SubmissionFails
  <2>1. at = "committed" /\ audited = "success"
    BY <1>12 DEF Respond, SubmissionFails
  <2>2. \E row \in rows : row.tags = tags /\ row.decision = decision
    BY <2>1
  <2>3. at' = "answered" /\ answer' \in {"accepted", "500"} /\ UNCHANGED <<counted, tags, decision, rows, audited>>
    BY <1>12 DEF Respond, SubmissionFails, Fails
  <2>4. counted
    BY <2>1
  <2> QED
    BY <2>1, <2>2, <2>3, <2>4
<1>13. CASE UNCHANGED requestVars
  BY <1>13 DEF requestVars
<1> QED
  BY <1>1, <1>2, <1>3, <1>4, <1>5, <1>6, <1>7, <1>8, <1>9, <1>10, <1>11, <1>12, <1>13, <1>14
  DEF RequestNext, Middleware, Processor

LEMMA ExplainedStep == Recorded /\ Explained /\ [RequestNext]_requestVars => Explained'
<1> SUFFICES ASSUME Recorded, Explained, [RequestNext]_requestVars
             PROVE  Explained'
  OBVIOUS
<1> USE DEF Explained, DiagnosticsExplainTags, event, Answered
<1>0. at # "answered" => answer = "none"
  BY DEF Recorded
<1>1. CASE Middleware
  BY <1>0, <1>1 DEF Middleware, Arrive, Receive, Disconnect
<1>2. CASE Refusals \/ Route
  BY <1>0, <1>2 DEF Refusals, Route, TurnAway, Read
<1>3. CASE Reject \/ NormalizationFails \/ RefuseTags
  BY <1>0, <1>3 DEF Reject, NormalizationFails, RefuseTags, Fails
<1>4. CASE Accept
  BY <1>0, <1>4 DEF Accept
<1>5. CASE EnrichEvent
  <2>1. Explains(diagnosis', tags, tags')
    BY <1>5, EnrichExplains DEF EnrichEvent
  <2>2. tags = payload.tags /\ UNCHANGED payload /\ at' = "enriched"
    BY <1>5 DEF EnrichEvent
  <2> QED
    BY <2>1, <2>2
<1>6. CASE Evaluate
  BY <1>0, <1>6 DEF Evaluate, Decides, Fails
<1>7. CASE Write \/ WriteFails \/ Commit \/ CommitFails
  BY <1>0, <1>7 DEF Write, WriteFails, Commit, CommitFails
<1>8. CASE Respond \/ SubmissionFails
  BY <1>0, <1>8 DEF Respond, SubmissionFails, Fails
<1>9. CASE UNCHANGED requestVars
  BY <1>9 DEF requestVars
<1> QED
  BY <1>1, <1>2, <1>3, <1>4, <1>5, <1>6, <1>7, <1>8, <1>9 DEF RequestNext, Processor

LEMMA RequestInvariant == RequestSpec => []RequestInv
<1>1. RequestInit => RequestInv
  BY AdmissionAssumption DEF RequestInit, RequestInv, Collected, Recorded, Explained, BodyIsWhole,
     AcceptedIsAudited, DiagnosticsExplainTags, Early, InHandler
<1>2. RequestInv /\ [RequestNext]_requestVars => RequestInv'
  BY CollectedStep, RecordedStep, ExplainedStep DEF RequestInv
<1> QED
  BY <1>1, <1>2, PTL DEF RequestSpec

\* Whatever the chunks, the limit and the moment a client goes away, the
\* application gets the whole body or nothing.
THEOREM BodiesAreWhole == RequestSpec => []BodyIsWhole
<1>1. RequestInv => BodyIsWhole
  BY DEF RequestInv, Collected
<1> QED
  BY <1>1, RequestInvariant, PTL

\* Whatever step of the request fails, an event that is answered as accepted has
\* its audit row with the tags and the decision of the answer, and a request that
\* is refused or rejected has left none.
THEOREM AcceptedLeavesRow == RequestSpec => []AcceptedIsAudited
<1>1. RequestInv => AcceptedIsAudited
  BY DEF RequestInv, Recorded
<1> QED
  BY <1>1, RequestInvariant, PTL

\* For any topology file, host, address and tags, the diagnostics of the answer
\* account for every difference between the tags sent and the tags the rules saw.
THEOREM TagsAreExplained == RequestSpec => []DiagnosticsExplainTags
<1>1. RequestInv => DiagnosticsExplainTags
  BY DEF RequestInv, Explained
<1> QED
  BY <1>1, RequestInvariant, PTL

------------------------------------------------------------------------------
(* Loops *)

\* Numbers below a bound have a least one.
LEMMA Least ==
  ASSUME NEW n \in Nat, NEW T \in SUBSET (0..n), T # {}
  PROVE  \E m \in T : \A k \in T : m <= k
<1> DEFINE F == {1..m : m \in T}
<1>1. F \subseteq FiniteSubsetsOf(1..n)
  <2>1. IsFiniteSet(1..n)
    BY FS_Interval
  <2>2. \A m \in T : 1..m \subseteq 1..n
    OBVIOUS
  <2> QED
    BY <2>1, <2>2, FS_Subset DEF FiniteSubsetsOf
<1>2. F # {}
  OBVIOUS
<1>3. \E A \in F : \A B \in F : ~(<<B, A>> \in StrictSubsetOrdering(1..n))
  <2> HIDE DEF F
  <2> QED
    BY <1>1, <1>2, FS_StrictSubsetOrderingWellFounded, WFMin
<1>4. PICK m \in T : \A k \in T : ~(<<1..k, 1..m>> \in StrictSubsetOrdering(1..n))
  BY <1>3
<1>5. ASSUME NEW k \in T, k < m
      PROVE  FALSE
  <2>1. 1..k \subseteq 1..m /\ m \in 1..m /\ m \notin 1..k
    BY <1>5
  <2>2. <<1..k, 1..m>> \in StrictSubsetOrdering(1..n)
    BY <2>1 DEF StrictSubsetOrdering
  <2> QED
    BY <1>4, <2>2
<1> QED
  BY <1>5

\* What holds at 0 and passes on to the next number holds up to any bound.
LEMMA UpTo ==
  ASSUME NEW N \in Nat, NEW Good, 0 \in Good,
         \A n \in 1..N : n - 1 \in Good => n \in Good
  PROVE  \A n \in 0..N : n \in Good
<1> DEFINE T == {n \in 0..N : n \notin Good}
<1> SUFFICES ASSUME T # {} PROVE FALSE
  OBVIOUS
<1>1. PICK m \in T : \A k \in T : m <= k
  <2> HIDE DEF T
  <2>1. T \in SUBSET (0..N)
    BY DEF T
  <2> QED
    BY <2>1, Least
<1>2. m \in 1..N /\ m \notin Good
  OBVIOUS
<1>3. m - 1 \in 0..N /\ ~(m <= m - 1)
  BY <1>2
<1>4. m - 1 \in Good
  <2>1. m - 1 \notin T
    <3> HIDE DEF T
    <3> QED
      BY <1>1, <1>3
  <2> QED
    BY <1>3, <2>1
<1> QED
  BY <1>2, <1>4

\* The states a loop goes through.
Runs(N, S, start, step) ==
  {g \in [0..N -> S] : g[0] = start /\ \A n \in 1..N : g[n] = step[n][g[n - 1]]}

\* A loop is defined: from a first state, by one step after another.
LEMMA Iteration ==
  ASSUME NEW N \in Nat, NEW S, NEW start \in S, NEW step \in [1..N -> [S -> S]]
  PROVE  Runs(N, S, start, step) # {}
<1> DEFINE Loop(m, g) == g \in [0..m -> S] /\ g[0] = start /\ \A n \in 1..m : g[n] = step[n][g[n - 1]]
           Good == {m \in 0..N : \E g : Loop(m, g)}
<1>1. 0 \in Good
  <2> DEFINE g == [n \in 0..0 |-> start]
  <2>1. Loop(0, g)
    OBVIOUS
  <2>2. \E f : Loop(0, f)
    <3> HIDE DEF g, Loop
    <3> QED
      BY <2>1
  <2> HIDE DEF Loop
  <2> QED
    BY <2>2
<1>2. ASSUME NEW m \in 1..N, m - 1 \in Good
      PROVE  m \in Good
  <2>1. PICK g : Loop(m - 1, g)
    BY <1>2
  <2> DEFINE h == [n \in 0..m |-> IF n = m THEN step[m][g[m - 1]] ELSE g[n]]
  <2>2. m - 1 \in 0..(m - 1) /\ g[m - 1] \in S
    BY <2>1
  <2>3. step[m][g[m - 1]] \in S
    BY <2>2
  <2>4. \A n \in 0..(m - 1) : h[n] = g[n] /\ g[n] \in S
    BY <2>1
  <2>5. h[m] = step[m][g[m - 1]]
    OBVIOUS
  <2>6. h \in [0..m -> S]
    <3>1. \A n \in 0..m : n = m \/ n \in 0..(m - 1)
      OBVIOUS
    <3>2. DOMAIN h = 0..m /\ h = [n \in 0..m |-> h[n]]
      OBVIOUS
    <3> HIDE DEF h
    <3> QED
      BY <2>3, <2>4, <2>5, <3>1, <3>2
  <2>7. h[0] = start
    BY <2>1, <2>4
  <2>8. ASSUME NEW n \in 1..m
        PROVE  h[n] = step[n][h[n - 1]]
    <3> HIDE DEF h
    <3>1. CASE n = m
      BY <2>2, <2>4, <2>5, <3>1
    <3>2. CASE n # m
      <4>1. n \in 1..(m - 1) /\ n \in 0..(m - 1) /\ n - 1 \in 0..(m - 1)
        BY <3>2
      <4>2. g[n] = step[n][g[n - 1]]
        BY <2>1, <4>1
      <4> QED
        BY <2>4, <4>1, <4>2
    <3> QED
      BY <3>1, <3>2
  <2>9. Loop(m, h)
    <3> HIDE DEF h
    <3> QED
      BY <2>6, <2>7, <2>8
  <2>10. m \in 0..N
    OBVIOUS
  <2> QED
    BY <2>9, <2>10
<1>3. N \in Good
  <2> HIDE DEF Good
  <2>1. \A n \in 0..N : n \in Good
    BY <1>1, <1>2, UpTo
  <2> QED
    BY <2>1
<1> QED
  BY <1>3 DEF Runs

------------------------------------------------------------------------------
(* How long an object is *)

Pair(names, sizes, n) ==
  IF names[n] \in DOMAIN sizes THEN KeyBytes[names[n]] + sizes[names[n]] + 1 ELSE 0

\* The lengths of an object's values, whose names are among these.
Measured(names, sizes) ==
  /\ names \in Seq(ToSet(names)) /\ IsInjective(names)
  /\ DOMAIN sizes \subseteq ToSet(names)
  /\ \A k \in DOMAIN sizes : sizes[k] \in Nat
  /\ \A k \in ToSet(names) : KeyBytes[k] \in Nat

LEMMA PairIsNat ==
  ASSUME NEW names, NEW sizes, Measured(names, sizes), NEW n \in 1..Len(names)
  PROVE  Pair(names, sizes, n) \in Nat
<1>1. names[n] \in ToSet(names)
  BY DEF Measured
<1>2. CASE names[n] \in DOMAIN sizes
  BY <1>1, <1>2 DEF Measured, Pair
<1>3. CASE names[n] \notin DOMAIN sizes
  BY <1>3 DEF Pair
<1> QED
  BY <1>2, <1>3

LEMMA SumRuns ==
  ASSUME NEW names, NEW sizes, Measured(names, sizes)
  PROVE  \E u \in [0..Len(names) -> Nat] :
           /\ u[0] = 0 /\ \A n \in 1..Len(names) : u[n] = u[n - 1] + Pair(names, sizes, n)
           /\ ObjectBytes(names, sizes) = 2 + u[Len(names)] - (IF DOMAIN sizes = {} THEN 0 ELSE 1)
<1> DEFINE N == Len(names)
           step == [n \in 1..N |-> [x \in Nat |-> x + Pair(names, sizes, n)]]
           Loop(g) == g = [n \in 0..N |-> IF n = 0 THEN 0
                                          ELSE g[n - 1] + IF names[n] \in DOMAIN sizes
                                                          THEN KeyBytes[names[n]] + sizes[names[n]] + 1 ELSE 0]
           upTo == CHOOSE g : Loop(g)
<1>1. N \in Nat
  BY DEF Measured
<1>2. ObjectBytes(names, sizes) = 2 + upTo[N] - (IF DOMAIN sizes = {} THEN 0 ELSE 1)
  BY DEF ObjectBytes
<1>3. \A g : Loop(g) <=> g = [n \in 0..N |-> IF n = 0 THEN 0 ELSE g[n - 1] + Pair(names, sizes, n)]
  BY DEF Pair
<1>4. step \in [1..N -> [Nat -> Nat]]
  BY PairIsNat
<1> HIDE DEF N
<1>5. PICK f \in [0..N -> Nat] : f[0] = 0 /\ \A n \in 1..N : f[n] = step[n][f[n - 1]]
  <2> HIDE DEF step
  <2>1. Runs(N, Nat, 0, step) # {}
    BY <1>1, <1>4, Iteration
  <2> QED
    BY <2>1 DEF Runs
<1>6. \A n \in 0..N : n = 0 \/ (n \in 1..N /\ n - 1 \in 0..N)
  BY <1>1
<1>7. ASSUME NEW n \in 1..N
      PROVE  f[n] = f[n - 1] + Pair(names, sizes, n)
  <2>1. n - 1 \in 0..N
    BY <1>1
  <2>2. f[n - 1] \in Nat
    BY <2>1
  <2>3. step[n] = [x \in Nat |-> x + Pair(names, sizes, n)]
    OBVIOUS
  <2>4. step[n][f[n - 1]] = f[n - 1] + Pair(names, sizes, n)
    <3> HIDE DEF step
    <3> QED
      BY <2>2, <2>3
  <2> HIDE DEF step
  <2> QED
    BY <1>5, <2>4
<1>8. Loop(f)
  <2>1. \A n \in 0..N : f[n] = IF n = 0 THEN 0 ELSE f[n - 1] + Pair(names, sizes, n)
    BY <1>5, <1>6, <1>7
  <2>2. f = [n \in 0..N |-> f[n]]
    OBVIOUS
  <2> HIDE DEF Loop
  <2> QED
    BY <1>3, <2>1, <2>2
<1>9. upTo = [n \in 0..N |-> IF n = 0 THEN 0 ELSE upTo[n - 1] + Pair(names, sizes, n)]
  <2>1. Loop(upTo)
    <3> HIDE DEF Loop
    <3> QED
      BY <1>8
  <2> HIDE DEF upTo, Loop
  <2> QED
    BY <1>3, <2>1
<1> HIDE DEF upTo
<1>10. upTo[0] = 0 /\ (\A n \in 1..N : upTo[n] = upTo[n - 1] + Pair(names, sizes, n)) /\ DOMAIN upTo = 0..N
  <2>1. 0 \in 0..N /\ \A n \in 1..N : n \in 0..N /\ n # 0
    BY <1>1
  <2> QED
    BY <1>9, <2>1
<1>11. \A n \in 0..N : n \in {m \in 0..N : upTo[m] \in Nat}
  <2> DEFINE Good == {m \in 0..N : upTo[m] \in Nat}
  <2>1. 0 \in Good
    BY <1>1, <1>10
  <2>2. ASSUME NEW n \in 1..N, n - 1 \in Good
        PROVE  n \in Good
    <3>1. upTo[n - 1] \in Nat /\ Pair(names, sizes, n) \in Nat /\ n \in 0..N
      BY <1>1, <2>2, PairIsNat DEF N
    <3> QED
      BY <1>10, <3>1
  <2> HIDE DEF Good
  <2>3. \A n \in 0..N : n \in Good
    BY <1>1, <2>1, <2>2, UpTo
  <2> QED
    BY <2>3 DEF Good
<1>12. upTo \in [0..N -> Nat]
  <2>1. upTo = [n \in 0..N |-> upTo[n]]
    BY <1>9, <1>10
  <2> QED
    BY <1>11, <2>1
<1> QED
  BY <1>2, <1>10, <1>12 DEF N

LEMMA NoPairs ==
  ASSUME NEW names, NEW sizes, Measured(names, sizes), DOMAIN sizes = {}
  PROVE  ObjectBytes(names, sizes) = 2
<1> DEFINE N == Len(names)
<1>1. N \in Nat
  BY DEF Measured
<1>2. PICK u \in [0..N -> Nat] :
        /\ u[0] = 0 /\ \A n \in 1..N : u[n] = u[n - 1] + Pair(names, sizes, n)
        /\ ObjectBytes(names, sizes) = 2 + u[N] - (IF DOMAIN sizes = {} THEN 0 ELSE 1)
  BY SumRuns
<1> HIDE DEF N
<1> DEFINE Good == {m \in 0..N : u[m] = 0}
<1>3. 0 \in Good
  BY <1>1, <1>2
<1>4. ASSUME NEW n \in 1..N, n - 1 \in Good
      PROVE  n \in Good
  BY <1>1, <1>2, <1>4 DEF Pair
<1>5. \A n \in 0..N : n \in Good
  <2> HIDE DEF Good
  <2> QED
    BY <1>1, <1>3, <1>4, UpTo
<1>6. u[N] = 0
  BY <1>1, <1>5
<1> QED
  BY <1>2, <1>6

LEMMA BytesAreNat ==
  ASSUME NEW names, NEW sizes, Measured(names, sizes)
  PROVE  ObjectBytes(names, sizes) \in Nat \ {0}
<1>1. PICK u \in [0..Len(names) -> Nat] :
        ObjectBytes(names, sizes) = 2 + u[Len(names)] - (IF DOMAIN sizes = {} THEN 0 ELSE 1)
  BY SumRuns
<1>2. Len(names) \in 0..Len(names)
  BY DEF Measured
<1>3. u[Len(names)] \in Nat
  BY <1>2
<1> QED
  BY <1>1, <1>3

Adds(few, more, k) ==
  /\ k \notin DOMAIN few /\ DOMAIN more = DOMAIN few \cup {k}
  /\ \A l \in DOMAIN few : more[l] = few[l]

Comma(K) == IF K = {} THEN 0 ELSE 1

\* One more pair costs its own length, and a comma unless it is the only one.
LEMMA OnePairMore ==
  ASSUME NEW names, NEW few, Measured(names, few), NEW more, Measured(names, more),
         NEW k, k \in ToSet(names), Adds(few, more, k)
  PROVE  ObjectBytes(names, more)
           = ObjectBytes(names, few) + KeyBytes[k] + more[k] + Comma(DOMAIN few)
<1> DEFINE N == Len(names)  cost == KeyBytes[k] + more[k] + 1
<1> USE DEF Adds
<1>1. N \in Nat /\ DOMAIN names = 1..N /\ cost \in Nat /\ KeyBytes[k] \in Nat /\ more[k] \in Nat
  BY DEF Measured
<1>2. PICK p \in 1..N : names[p] = k
  BY <1>1 DEF ToSet
<1>3. PICK u \in [0..N -> Nat] :
        /\ u[0] = 0 /\ \A n \in 1..N : u[n] = u[n - 1] + Pair(names, few, n)
        /\ ObjectBytes(names, few) = 2 + u[N] - (IF DOMAIN few = {} THEN 0 ELSE 1)
  BY SumRuns
<1>4. PICK v \in [0..N -> Nat] :
        /\ v[0] = 0 /\ \A n \in 1..N : v[n] = v[n - 1] + Pair(names, more, n)
        /\ ObjectBytes(names, more) = 2 + v[N] - (IF DOMAIN more = {} THEN 0 ELSE 1)
  BY SumRuns
<1>5. \A n \in 1..N : Pair(names, few, n) \in Nat /\ Pair(names, more, n) \in Nat
  BY PairIsNat
<1>6. ASSUME NEW n \in 1..N
      PROVE  Pair(names, more, n) = Pair(names, few, n) + (IF n = p THEN cost ELSE 0)
  <2>1. CASE n = p
    BY <1>1, <1>2, <2>1 DEF Pair
  <2>2. CASE n # p
    <3>1. names[n] # k
      BY <1>1, <1>2, <2>2 DEF Measured, IsInjective
    <3>2. Pair(names, more, n) = Pair(names, few, n)
      BY <3>1 DEF Pair
    <3> QED
      BY <1>5, <2>2, <3>2
  <2> QED
    BY <2>1, <2>2
<1> HIDE DEF N, cost
<1> DEFINE Good == {m \in 0..N : v[m] = u[m] + (IF m >= p THEN cost ELSE 0)}
<1>7. 0 \in Good
  BY <1>1, <1>3, <1>4
<1>8. ASSUME NEW n \in 1..N, n - 1 \in Good
      PROVE  n \in Good
  <2>1. /\ n \in 0..N /\ n - 1 \in 0..N /\ p \in Int /\ n \in Int /\ cost \in Nat
        /\ u[n] \in Nat /\ u[n - 1] \in Nat /\ v[n] \in Nat /\ v[n - 1] \in Nat
        /\ Pair(names, few, n) \in Nat /\ Pair(names, more, n) \in Nat
    BY <1>1, <1>5
  <2>2. /\ v[n - 1] = u[n - 1] + (IF n - 1 >= p THEN cost ELSE 0)
        /\ u[n] = u[n - 1] + Pair(names, few, n) /\ v[n] = v[n - 1] + Pair(names, more, n)
        /\ Pair(names, more, n) = Pair(names, few, n) + (IF n = p THEN cost ELSE 0)
    BY <1>3, <1>4, <1>6, <1>8
  <2>3. v[n] = u[n] + (IF n >= p THEN cost ELSE 0)
    <3>1. CASE n = p     BY <2>1, <2>2, <3>1
    <3>2. CASE n < p     BY <2>1, <2>2, <3>2
    <3>3. CASE n > p     BY <2>1, <2>2, <3>3
    <3> QED
      BY <2>1, <3>1, <3>2, <3>3
  <2> QED
    BY <2>1, <2>3
<1>9. \A n \in 0..N : n \in Good
  <2> HIDE DEF Good
  <2> QED
    BY <1>1, <1>7, <1>8, UpTo
<1>10. v[N] = u[N] + cost /\ u[N] \in Nat /\ v[N] \in Nat
  BY <1>1, <1>9
<1>11. ObjectBytes(names, more) = 1 + v[N]
  <2>1. DOMAIN more # {}
    OBVIOUS
  <2> QED
    BY <1>4, <1>10, <2>1
<1>12. cost = KeyBytes[k] + more[k] + 1
  BY DEF cost
<1> DEFINE Regroups(a, b, c) == /\ 1 + (a + (b + c + 1)) = (2 + a) + b + c + 0
                               /\ 1 + (a + (b + c + 1)) = (1 + a) + b + c + 1
<1>13. \A a, b, c \in Nat : Regroups(a, b, c)
  OBVIOUS
<1>14. ObjectBytes(names, more) = 1 + (u[N] + (KeyBytes[k] + more[k] + 1))
  BY <1>10, <1>11, <1>12
<1>15. ObjectBytes(names, few) = IF DOMAIN few = {} THEN 2 + u[N] ELSE 1 + u[N]
  BY <1>3, <1>10
<1> HIDE DEF Good
<1>16. /\ ObjectBytes(names, more) = (2 + u[N]) + KeyBytes[k] + more[k] + 0
       /\ ObjectBytes(names, more) = (1 + u[N]) + KeyBytes[k] + more[k] + 1
  <2>1. u[N] \in Nat /\ KeyBytes[k] \in Nat /\ more[k] \in Nat
    BY <1>1, <1>10
  <2>2. Regroups(u[N], KeyBytes[k], more[k])
    <3> HIDE DEF Regroups
    <3> QED
      BY <1>13, <2>1
  <2> QED
    BY <1>14, <2>2
<1> QED
  BY <1>15, <1>16 DEF Comma

LEMMA AtLeastBraces ==
  ASSUME NEW names, NEW sizes, Measured(names, sizes)
  PROVE  ObjectBytes(names, sizes) >= 2
<1>1. CASE DOMAIN sizes = {}
  BY <1>1, NoPairs
<1>2. CASE DOMAIN sizes # {}
  <2>1. PICK k \in DOMAIN sizes : TRUE
    BY <1>2
  <2> DEFINE few == [l \in DOMAIN sizes \ {k} |-> sizes[l]]
  <2>2. Measured(names, few) /\ k \in ToSet(names)
    BY DEF Measured
  <2>3. Adds(few, sizes, k)
    BY DEF Adds
  <2> HIDE DEF few
  <2>4. ObjectBytes(names, sizes)
          = ObjectBytes(names, few) + KeyBytes[k] + sizes[k] + Comma(DOMAIN few)
    BY <2>2, <2>3, OnePairMore
  <2>5. KeyBytes[k] \in Nat /\ sizes[k] \in Nat /\ ObjectBytes(names, few) \in Nat \ {0}
    BY <2>2, BytesAreNat DEF Measured
  <2>6. DOMAIN few = {} => ObjectBytes(names, few) = 2
    BY <2>2, NoPairs
  <2>7. CASE DOMAIN few = {}
    BY <2>4, <2>5, <2>6, <2>7 DEF Comma
  <2>8. CASE DOMAIN few # {}
    BY <2>4, <2>5, <2>8 DEF Comma
  <2> QED
    BY <2>7, <2>8
<1> QED
  BY <1>1, <1>2

------------------------------------------------------------------------------
(* The tags shown *)

TagSizes(map, K) == [k \in K |-> Bytes[RedactedText(map[k])]]

LEMMA ShownMeasured ==
  ASSUME NEW map, DOMAIN map \subseteq ToSet(TagOrder), \A k \in DOMAIN map : map[k] \in Texts,
         NEW K \in SUBSET DOMAIN map
  PROVE  /\ Measured(TagOrder, TagSizes(map, K))
         /\ TagBytes([k \in K |-> RedactedText(map[k])]) = ObjectBytes(TagOrder, TagSizes(map, K))
         /\ \A k \in K : TagSizes(map, K)[k] = Bytes[RedactedText(map[k])]
<1>1. \A k \in DOMAIN map : Bytes[RedactedText(map[k])] \in Nat
  BY CopyAssumption DEF RedactedText
<1>2. DOMAIN TagSizes(map, K) = K /\ \A k \in K : TagSizes(map, K)[k] = Bytes[RedactedText(map[k])]
  BY DEF TagSizes
<1>3. Measured(TagOrder, TagSizes(map, K))
  BY <1>1, <1>2, CopyAssumption DEF Measured
<1>4. TagBytes([k \in K |-> RedactedText(map[k])]) = ObjectBytes(TagOrder, TagSizes(map, K))
  <2> DEFINE shown == [k \in K |-> RedactedText(map[k])]
  <2>1. [k \in DOMAIN shown |-> Bytes[shown[k]]] = TagSizes(map, K)
    BY DEF TagSizes
  <2> QED
    BY <2>1 DEF TagBytes
<1> QED
  BY <1>2, <1>3, <1>4

LEMMA OneTagMore ==
  ASSUME NEW map, DOMAIN map \subseteq ToSet(TagOrder), \A k \in DOMAIN map : map[k] \in Texts,
         NEW K \in SUBSET DOMAIN map, NEW x \in DOMAIN map \ K
  PROVE  ObjectBytes(TagOrder, TagSizes(map, K \cup {x}))
           = ObjectBytes(TagOrder, TagSizes(map, K)) + (KeyBytes[x] + Bytes[RedactedText(map[x])])
               + (IF K = {} THEN 0 ELSE 1)
<1> DEFINE few == TagSizes(map, K)  more == TagSizes(map, K \cup {x})
<1>1. /\ DOMAIN few = K /\ DOMAIN more = K \cup {x}
      /\ more[x] = Bytes[RedactedText(map[x])]
      /\ Adds(few, more, x)
  BY DEF TagSizes, Adds
<1>2. K \in SUBSET DOMAIN map /\ K \cup {x} \in SUBSET DOMAIN map /\ x \in ToSet(TagOrder)
  OBVIOUS
<1>3. Measured(TagOrder, few) /\ Measured(TagOrder, more)
  BY <1>2, ShownMeasured
<1> HIDE DEF few, more
<1>4. ObjectBytes(TagOrder, more)
        = ObjectBytes(TagOrder, few) + KeyBytes[x] + more[x] + Comma(DOMAIN few)
  BY <1>1, <1>2, <1>3, OnePairMore
<1>5. /\ KeyBytes[x] \in Nat /\ Bytes[RedactedText(map[x])] \in Nat
      /\ ObjectBytes(TagOrder, few) \in Nat
  BY <1>2, <1>3, BytesAreNat, CopyAssumption DEF RedactedText
<1> QED
  BY <1>1, <1>4, <1>5 DEF few, more, Comma

\* What the loop over the keys has shown and left out when n of them are done.
ShownSoFar(map, n, s) ==
  /\ s.keys \subseteq DOMAIN map \ SensitiveKeys
  /\ \A k \in s.keys : \E i \in 1..n : k = TagOrder[i]
  /\ IsFiniteSet(s.keys) /\ Cardinality(s.keys) <= MaxShown
  /\ s.bytes = ObjectBytes(TagOrder, TagSizes(map, s.keys)) /\ s.bytes <= MaxShownBytes
  /\ \A i \in 1..n : TagOrder[i] \in DOMAIN map \ SensitiveKeys /\ TagOrder[i] \notin s.keys =>
       \/ Cardinality(s.keys) = MaxShown
       \/ s.bytes + KeyBytes[TagOrder[i]] + Bytes[RedactedText(map[TagOrder[i]])]
            + (IF s.keys = {} THEN 0 ELSE 1) > MaxShownBytes

LEMMA ShownStep ==
  ASSUME NEW map, DOMAIN map \subseteq ToSet(TagOrder), \A k \in DOMAIN map : map[k] \in Texts,
         NEW n \in 1..Len(TagOrder), NEW s, ShownSoFar(map, n - 1, s)
  PROVE  ShownSoFar(map, n, Shown(map, s, TagOrder[n]))
<1> DEFINE k == TagOrder[n]
           cost(l) == KeyBytes[l] + Bytes[RedactedText(map[l])]
           comma == IF s.keys = {} THEN 0 ELSE 1
           fits == /\ k \in DOMAIN map \ SensitiveKeys /\ Cardinality(s.keys) < MaxShown
                   /\ s.bytes + cost(k) + comma <= MaxShownBytes
           t == Shown(map, s, k)
<1>1. /\ Len(TagOrder) \in Nat /\ n \in Nat /\ MaxShown \in Nat /\ MaxShownBytes \in Nat
      /\ MaxShownBytes >= 2
      /\ \A i \in 1..Len(TagOrder) : TagOrder[i] \in ToSet(TagOrder)
      /\ \A i, j \in 1..Len(TagOrder) : TagOrder[i] = TagOrder[j] => i = j
  BY CopyAssumption, SMTT(20) DEF IsInjective
<1>2. \A l \in DOMAIN map : KeyBytes[l] \in Nat /\ Bytes[RedactedText(map[l])] \in Nat
  BY CopyAssumption DEF RedactedText
<1>3. /\ s.keys \subseteq DOMAIN map \ SensitiveKeys
      /\ \A l \in s.keys : \E i \in 1..(n - 1) : l = TagOrder[i]
      /\ IsFiniteSet(s.keys) /\ Cardinality(s.keys) <= MaxShown /\ Cardinality(s.keys) \in Nat
      /\ s.bytes = ObjectBytes(TagOrder, TagSizes(map, s.keys)) /\ s.bytes <= MaxShownBytes
      /\ s.bytes \in Nat
  <2>1. s.keys \subseteq DOMAIN map /\ IsFiniteSet(s.keys) /\ s.bytes = ObjectBytes(TagOrder, TagSizes(map, s.keys))
    BY DEF ShownSoFar
  <2>2. s.bytes \in Nat
    BY <2>1, ShownMeasured, BytesAreNat
  <2> QED
    BY <2>1, <2>2, FS_CardinalityType DEF ShownSoFar
<1>4. \A i \in 1..(n - 1) : TagOrder[i] \in DOMAIN map \ SensitiveKeys /\ TagOrder[i] \notin s.keys =>
        Cardinality(s.keys) = MaxShown \/ s.bytes + cost(TagOrder[i]) + comma > MaxShownBytes
  <2> SUFFICES ASSUME NEW i \in 1..(n - 1), TagOrder[i] \in DOMAIN map \ SensitiveKeys, TagOrder[i] \notin s.keys
               PROVE  Cardinality(s.keys) = MaxShown \/ s.bytes + cost(TagOrder[i]) + comma > MaxShownBytes
    OBVIOUS
  <2>1. \/ Cardinality(s.keys) = MaxShown
        \/ s.bytes + KeyBytes[TagOrder[i]] + Bytes[RedactedText(map[TagOrder[i]])]
             + (IF s.keys = {} THEN 0 ELSE 1) > MaxShownBytes
    BY DEF ShownSoFar
  <2> QED
    BY <1>2, <1>3, <2>1, SMTT(20)
<1>5. \A i \in 1..n : i = n \/ i \in 1..(n - 1)
  BY <1>1
<1>6. CASE fits
  <2>1. t = [keys |-> s.keys \cup {k}, bytes |-> s.bytes + cost(k) + comma]
    <3>1. s.bytes + KeyBytes[k] + Bytes[RedactedText(map[k])] + comma = s.bytes + cost(k) + comma
      BY <1>2, <1>3, <1>6, SMTT(20)
    <3> QED
      BY <1>6, <3>1 DEF Shown
  <2>2. k \notin s.keys
    <3> SUFFICES ASSUME k \in s.keys PROVE FALSE
      OBVIOUS
    <3>1. PICK i \in 1..(n - 1) : k = TagOrder[i]
      BY <1>3
    <3>2. i \in 1..Len(TagOrder) /\ i # n
      BY <1>1
    <3> QED
      BY <1>1, <3>1, <3>2
  <2>3. k \in DOMAIN map /\ k \in ToSet(TagOrder)
    BY <1>6
  <2>6. s.bytes + cost(k) + comma = ObjectBytes(TagOrder, TagSizes(map, s.keys \cup {k}))
    <3>1. s.keys \in SUBSET DOMAIN map /\ k \in DOMAIN map \ s.keys
      BY <1>3, <2>2, <2>3
    <3>2. ObjectBytes(TagOrder, TagSizes(map, s.keys \cup {k}))
            = ObjectBytes(TagOrder, TagSizes(map, s.keys)) + (KeyBytes[k] + Bytes[RedactedText(map[k])])
                + (IF s.keys = {} THEN 0 ELSE 1)
      <4> HIDE DEF k
      <4> QED
        BY <3>1, OneTagMore
    <3> QED
      BY <1>3, <3>2
  <2>7. IsFiniteSet(s.keys \cup {k}) /\ Cardinality(s.keys \cup {k}) = Cardinality(s.keys) + 1
    BY <1>3, <2>2, FS_AddElement
  <2>8. t.keys = s.keys \cup {k} /\ t.bytes = s.bytes + cost(k) + comma
    BY <2>1
  <2>9. \A l \in t.keys : \E i \in 1..n : l = TagOrder[i]
    <3>1. \A i \in 1..(n - 1) : i \in 1..n
      BY <1>1
    <3>2. n \in 1..n
      BY <1>1
    <3> QED
      BY <1>3, <2>8, <3>1, <3>2
  <2>10. Cardinality(t.keys) <= MaxShown
    BY <1>1, <1>3, <1>6, <2>7, <2>8
  <2>11. ASSUME NEW i \in 1..n, TagOrder[i] \in DOMAIN map \ SensitiveKeys, TagOrder[i] \notin t.keys
         PROVE  t.bytes + KeyBytes[TagOrder[i]] + Bytes[RedactedText(map[TagOrder[i]])]
                  + (IF t.keys = {} THEN 0 ELSE 1) > MaxShownBytes
    <3>1. i \in 1..(n - 1) /\ TagOrder[i] \notin s.keys
      BY <1>5, <2>8, <2>11
    <3>2. s.bytes + cost(TagOrder[i]) + comma > MaxShownBytes
      BY <1>1, <1>3, <1>4, <1>6, <2>11, <3>1
    <3>3. t.keys # {}
      BY <2>8
    <3>4. /\ KeyBytes[TagOrder[i]] \in Nat /\ Bytes[RedactedText(map[TagOrder[i]])] \in Nat
          /\ KeyBytes[k] \in Nat /\ Bytes[RedactedText(map[k])] \in Nat
      BY <1>2, <2>3, <2>11
    <3>5. comma \in {0, 1} /\ cost(k) \in Nat /\ cost(TagOrder[i]) \in Nat
      <4>1. comma \in {0, 1}
        OBVIOUS
      <4>2. ASSUME NEW a \in Nat, NEW b \in Nat
            PROVE  a + b \in Nat
        OBVIOUS
      <4>3. cost(k) \in Nat
        BY <3>4, <4>2
      <4>4. cost(TagOrder[i]) \in Nat
        BY <3>4, <4>2
      <4> QED
        BY <4>1, <4>3, <4>4
    <3>6. t.bytes + cost(TagOrder[i]) + 1 > MaxShownBytes
      <4> HIDE DEF comma, cost, t
      <4> QED
        BY <1>1, <1>3, <2>8, <3>2, <3>5, SMTT(20)
    <3>7. t.bytes \in Nat
      <4> HIDE DEF comma, cost, t
      <4> QED
        BY <1>3, <2>8, <3>5, SMTT(20)
    <3> HIDE DEF t
    <3> QED
      BY <1>1, <3>3, <3>4, <3>6, <3>7, SMTT(20)
  <2>12. t.bytes = ObjectBytes(TagOrder, TagSizes(map, t.keys)) /\ t.bytes <= MaxShownBytes
    BY <1>6, <2>6, <2>8
  <2>13. t.keys \subseteq DOMAIN map \ SensitiveKeys /\ IsFiniteSet(t.keys)
    BY <1>3, <1>6, <2>7, <2>8
  <2> HIDE DEF t
  <2>14. ShownSoFar(map, n, t)
    BY <2>9, <2>10, <2>11, <2>12, <2>13 DEF ShownSoFar
  <2> QED
    BY <2>14 DEF t
<1>7. CASE ~fits
  <2>1. t = s
    <3>1. CASE k \in DOMAIN map \ SensitiveKeys /\ Cardinality(s.keys) < MaxShown
      <4>1. ~(s.bytes + KeyBytes[k] + Bytes[RedactedText(map[k])] + comma <= MaxShownBytes)
        BY <1>2, <1>3, <1>7, <3>1, SMTT(20)
      <4> QED
        BY <4>1 DEF Shown
    <3>2. CASE ~(k \in DOMAIN map \ SensitiveKeys /\ Cardinality(s.keys) < MaxShown)
      BY <3>2 DEF Shown
    <3> QED
      BY <3>1, <3>2
  <2>2. \A l \in s.keys : \E i \in 1..n : l = TagOrder[i]
    <3>1. \A i \in 1..(n - 1) : i \in 1..n
      BY <1>1
    <3> QED
      BY <1>3, <3>1
  <2>3. ASSUME NEW i \in 1..n, TagOrder[i] \in DOMAIN map \ SensitiveKeys, TagOrder[i] \notin s.keys
        PROVE  \/ Cardinality(s.keys) = MaxShown
               \/ s.bytes + KeyBytes[TagOrder[i]] + Bytes[RedactedText(map[TagOrder[i]])]
                    + (IF s.keys = {} THEN 0 ELSE 1) > MaxShownBytes
    <3>1. Cardinality(s.keys) = MaxShown \/ s.bytes + cost(TagOrder[i]) + comma > MaxShownBytes
      <4>1. CASE i = n
        <5>1. comma \in {0, 1} /\ cost(k) \in Nat
          BY <1>2, <2>3, <4>1
        <5> HIDE DEF comma, cost
        <5> QED
          BY <1>1, <1>3, <1>7, <2>3, <4>1, <5>1
      <4>2. CASE i \in 1..(n - 1)
        BY <1>4, <2>3, <4>2
      <4> QED
        BY <1>5, <4>1, <4>2
    <3> QED
      BY <1>2, <1>3, <2>3, <3>1, SMTT(20)
  <2>4. ShownSoFar(map, n, s)
    BY <1>3, <2>2, <2>3 DEF ShownSoFar
  <2> QED
    BY <2>1, <2>4
<1> QED
  BY <1>6, <1>7


ShownReasons(map, shown) ==
  (IF DOMAIN map \cap SensitiveKeys # {} THEN {"sensitive_key"} ELSE {})
    \cup (IF shown # DOMAIN map \ SensitiveKeys THEN {"size_limit"} ELSE {})

LEMMA ShownRuns ==
  ASSUME NEW map, DOMAIN map \subseteq ToSet(TagOrder), \A k \in DOMAIN map : map[k] \in Texts
  PROVE  \E s : /\ ShownSoFar(map, Len(TagOrder), s)
                /\ ShownTags(map) = [tags    |-> [k \in s.keys |-> RedactedText(map[k])],
                                     reasons |-> ShownReasons(map, s.keys)]
<1> DEFINE N == Len(TagOrder)
           S == [keys : SUBSET ToSet(TagOrder), bytes : Nat]
           start == [keys |-> {}, bytes |-> 2]
           step == [n \in 1..N |-> [s \in S |-> Shown(map, s, TagOrder[n])]]
           Loop(g) == g = [n \in 0..N |-> IF n = 0 THEN start ELSE Shown(map, g[n - 1], TagOrder[n])]
           upTo == CHOOSE g : Loop(g)
<1>1. N \in Nat /\ \A n \in 1..N : TagOrder[n] \in ToSet(TagOrder)
  BY CopyAssumption
<1>2. ShownTags(map) = [tags    |-> [k \in upTo[N].keys |-> RedactedText(map[k])],
                        reasons |-> ShownReasons(map, upTo[N].keys)]
  BY DEF ShownTags, ShownReasons
<1>3. \A l \in DOMAIN map : KeyBytes[l] \in Nat /\ Bytes[RedactedText(map[l])] \in Nat
  BY CopyAssumption DEF RedactedText
<1>4. ASSUME NEW n \in 1..N, NEW s \in S
      PROVE  Shown(map, s, TagOrder[n]) \in S
  <2>1. CASE TagOrder[n] \in DOMAIN map
    <3>1. KeyBytes[TagOrder[n]] \in Nat /\ Bytes[RedactedText(map[TagOrder[n]])] \in Nat
      BY <1>3, <2>1
    <3>2. TagOrder[n] \in ToSet(TagOrder)
      BY <1>1
    <3> HIDE DEF N
    <3> QED
      BY <3>1, <3>2 DEF Shown
  <2>2. CASE TagOrder[n] \notin DOMAIN map
    BY <2>2 DEF Shown
  <2> QED
    BY <2>1, <2>2
<1>5. start \in S
  OBVIOUS
<1>6. step \in [1..N -> [S -> S]]
  <2> HIDE DEF N, S
  <2> QED
    BY <1>4
<1> HIDE DEF N, S, start
<1>7. PICK f \in [0..N -> S] : f[0] = start /\ \A n \in 1..N : f[n] = step[n][f[n - 1]]
  <2> HIDE DEF step
  <2>1. Runs(N, S, start, step) # {}
    BY <1>1, <1>5, <1>6, Iteration
  <2> QED
    BY <2>1 DEF Runs
<1>8. \A n \in 0..N : n = 0 \/ (n \in 1..N /\ n - 1 \in 0..N)
  BY <1>1
<1>9. ASSUME NEW n \in 1..N
      PROVE  f[n] = Shown(map, f[n - 1], TagOrder[n])
  <2>1. n - 1 \in 0..N
    BY <1>1
  <2>2. f[n - 1] \in S
    BY <2>1
  <2>3. step[n] = [s \in S |-> Shown(map, s, TagOrder[n])]
    OBVIOUS
  <2> HIDE DEF step
  <2>4. step[n][f[n - 1]] = Shown(map, f[n - 1], TagOrder[n])
    BY <2>2, <2>3
  <2> QED
    BY <1>7, <2>4
<1>10. Loop(f)
  <2>1. \A n \in 0..N : f[n] = IF n = 0 THEN start ELSE Shown(map, f[n - 1], TagOrder[n])
    BY <1>7, <1>8, <1>9
  <2>2. f = [n \in 0..N |-> f[n]]
    OBVIOUS
  <2> QED
    BY <2>1, <2>2
<1>11. upTo = [n \in 0..N |-> IF n = 0 THEN start ELSE Shown(map, upTo[n - 1], TagOrder[n])]
  <2>1. Loop(upTo)
    <3> HIDE DEF Loop
    <3> QED
      BY <1>10
  <2> HIDE DEF upTo
  <2> QED
    BY <2>1
<1> HIDE DEF upTo
<1>12. upTo[0] = start /\ \A n \in 1..N : upTo[n] = Shown(map, upTo[n - 1], TagOrder[n])
  <2>1. 0 \in 0..N /\ \A n \in 1..N : n \in 0..N /\ n # 0
    BY <1>1
  <2> QED
    BY <1>11, <2>1
<1> DEFINE Good == {n \in 0..N : ShownSoFar(map, n, upTo[n])}
<1>13. 0 \in Good
  <2>1. ObjectBytes(TagOrder, TagSizes(map, {})) = 2
    BY ShownMeasured, NoPairs DEF TagSizes
  <2>2. /\ IsFiniteSet({}) /\ Cardinality({}) = 0
        /\ MaxShown \in Nat /\ MaxShownBytes \in Nat /\ MaxShownBytes >= 2
    BY FS_EmptySet, CopyAssumption
  <2>3. ShownSoFar(map, 0, start)
    BY <2>1, <2>2 DEF ShownSoFar, start
  <2> QED
    BY <1>1, <1>12, <2>3
<1>14. ASSUME NEW n \in 1..N, n - 1 \in Good
       PROVE  n \in Good
  <2>1. ShownSoFar(map, n, Shown(map, upTo[n - 1], TagOrder[n]))
    BY <1>14, ShownStep DEF N
  <2> QED
    BY <1>1, <1>12, <2>1
<1>15. N \in Good
  <2> HIDE DEF Good
  <2>1. \A n \in 0..N : n \in Good
    BY <1>1, <1>13, <1>14, UpTo
  <2> QED
    BY <1>1, <2>1
<1> QED
  BY <1>2, <1>15 DEF N

\* The projection of the tags keeps its bounds and says when it left some out.
LEMMA ProjectionFits ==
  ASSUME NEW map, DOMAIN map \subseteq ToSet(TagOrder), \A k \in DOMAIN map : map[k] \in Texts
  PROVE  TagsFit(ShownTags(map), map)
<1>1. PICK s : /\ ShownSoFar(map, Len(TagOrder), s)
               /\ ShownTags(map) = [tags    |-> [k \in s.keys |-> RedactedText(map[k])],
                                    reasons |-> ShownReasons(map, s.keys)]
  BY ShownRuns
<1> DEFINE shown == ShownTags(map)
<1>2. /\ shown.tags = [k \in s.keys |-> RedactedText(map[k])] /\ DOMAIN shown.tags = s.keys
      /\ shown.reasons = ShownReasons(map, s.keys)
  BY <1>1
<1> HIDE DEF shown
<1>3. /\ s.keys \subseteq DOMAIN map \ SensitiveKeys /\ Cardinality(s.keys) <= MaxShown
      /\ s.bytes = ObjectBytes(TagOrder, TagSizes(map, s.keys)) /\ s.bytes <= MaxShownBytes
  BY <1>1 DEF ShownSoFar
<1>4. TagBytes(shown.tags) <= MaxShownBytes
  <2>1. TagBytes([k \in s.keys |-> RedactedText(map[k])]) = ObjectBytes(TagOrder, TagSizes(map, s.keys))
    BY <1>3, ShownMeasured
  <2> QED
    BY <1>2, <1>3, <2>1
<1>5. ASSUME NEW k \in DOMAIN map \ (s.keys \cup SensitiveKeys), Cardinality(s.keys) # MaxShown
      PROVE  TagBytes([l \in s.keys \cup {k} |-> RedactedText(map[l])]) > MaxShownBytes
  <2>1. PICK i \in 1..Len(TagOrder) : k = TagOrder[i]
    BY CopyAssumption DEF ToSet
  <2>2. s.bytes + KeyBytes[k] + Bytes[RedactedText(map[k])]
          + (IF s.keys = {} THEN 0 ELSE 1) > MaxShownBytes
    BY <1>1, <1>5, <2>1 DEF ShownSoFar
  <2>3. ObjectBytes(TagOrder, TagSizes(map, s.keys \cup {k}))
          = ObjectBytes(TagOrder, TagSizes(map, s.keys)) + (KeyBytes[k] + Bytes[RedactedText(map[k])])
              + (IF s.keys = {} THEN 0 ELSE 1)
    BY <1>3, OneTagMore
  <2>4. TagBytes([l \in s.keys \cup {k} |-> RedactedText(map[l])])
          = ObjectBytes(TagOrder, TagSizes(map, s.keys \cup {k}))
    BY <1>3, ShownMeasured
  <2>5. KeyBytes[k] \in Nat /\ Bytes[RedactedText(map[k])] \in Nat /\ s.bytes \in Nat
    <3>1. s.bytes \in Nat
      BY <1>3, ShownMeasured, BytesAreNat
    <3> QED
      BY <3>1, CopyAssumption DEF RedactedText
  <2> QED
    BY <1>3, <2>2, <2>3, <2>4, <2>5
<1>6. shown.reasons = {} <=> s.keys = DOMAIN map
  BY <1>2, <1>3 DEF ShownReasons
<1>7. TagsFit(shown, map)
  BY <1>2, <1>3, <1>4, <1>5, <1>6 DEF TagsFit
<1> QED
  BY <1>7 DEF shown

------------------------------------------------------------------------------
(* The copy stored *)

FieldNames == {"check_output", "host", "source_id", "tags"}

Weighed(sizes) == DOMAIN sizes = FieldNames /\ \A f \in FieldNames : sizes[f] \in Nat

WeightOf(sizes, f) == KeyBytes[f] + sizes[f]

\* The length of an object with these fields.
Kept(sizes, K) == ObjectBytes(Fields, [f \in K |-> sizes[f]])

LEMMA FieldFacts ==
  /\ Len(Fields) = 4 /\ Fields \in Seq(FieldNames) /\ ToSet(Fields) = FieldNames
  /\ IsInjective(Fields)
  /\ \A f \in FieldNames : Place(f) \in 1..4 /\ Fields[Place(f)] = f
<1>1. Len(Fields) = 4 /\ Fields \in Seq(FieldNames) /\ ToSet(Fields) = FieldNames
  BY DEF Fields, FieldNames, ToSet
<1>2. IsInjective(Fields)
  <2>1. DOMAIN Fields = 1..4
    BY DEF Fields
  <2>2. ASSUME NEW i \in 1..4, NEW j \in 1..4, Fields[i] = Fields[j]
        PROVE  i = j
    BY <2>2 DEF Fields
  <2> QED
    BY <2>1, <2>2 DEF IsInjective
<1>3. ASSUME NEW f \in FieldNames
      PROVE  Place(f) \in 1..4 /\ Fields[Place(f)] = f
  <2>1. DOMAIN Fields = 1..4
    BY DEF Fields
  <2>2. \E i \in DOMAIN Fields : Fields[i] = f
    <3>1. f \in ToSet(Fields)
      BY <1>1
    <3> QED
      BY <3>1 DEF ToSet
  <2> QED
    BY <2>1, <2>2 DEF Place
<1> QED
  BY <1>1, <1>2, <1>3

LEMMA KeptFacts ==
  ASSUME NEW sizes, Weighed(sizes), NEW K \in SUBSET FieldNames
  PROVE  /\ Measured(Fields, [f \in K |-> sizes[f]])
         /\ Kept(sizes, K) \in Nat /\ Kept(sizes, K) >= 2
         /\ K = {} => Kept(sizes, K) = 2
         /\ \A f \in K : /\ WeightOf(sizes, f) \in Nat
                         /\ Kept(sizes, K) = Kept(sizes, K \ {f}) + WeightOf(sizes, f) + Comma(K \ {f})
<1>1. ASSUME NEW L \in SUBSET FieldNames
      PROVE  Measured(Fields, [f \in L |-> sizes[f]])
  BY FieldFacts, CopyAssumption DEF Measured, Weighed
<1>2. /\ Kept(sizes, K) \in Nat /\ Kept(sizes, K) >= 2
      /\ K = {} => Kept(sizes, K) = 2
  BY <1>1, BytesAreNat, AtLeastBraces, NoPairs DEF Kept
<1>3. ASSUME NEW f \in K
      PROVE  /\ WeightOf(sizes, f) \in Nat
             /\ Kept(sizes, K) = Kept(sizes, K \ {f}) + WeightOf(sizes, f) + Comma(K \ {f})
  <2> DEFINE few == [g \in K \ {f} |-> sizes[g]]  more == [g \in K |-> sizes[g]]
  <2>1. Measured(Fields, few) /\ Measured(Fields, more) /\ f \in ToSet(Fields)
    BY <1>1, FieldFacts
  <2>2. Adds(few, more, f) /\ DOMAIN few = K \ {f} /\ more[f] = sizes[f]
    BY DEF Adds
  <2>3. ObjectBytes(Fields, few) = Kept(sizes, K \ {f}) /\ ObjectBytes(Fields, more) = Kept(sizes, K)
    BY DEF Kept
  <2> HIDE DEF few, more
  <2>4. ObjectBytes(Fields, more) = ObjectBytes(Fields, few) + KeyBytes[f] + more[f] + Comma(DOMAIN few)
    BY <2>1, <2>2, OnePairMore
  <2>5. KeyBytes[f] \in Nat /\ sizes[f] \in Nat /\ ObjectBytes(Fields, few) \in Nat
    BY <2>1, BytesAreNat, FieldFacts, CopyAssumption DEF Weighed
  <2> QED
    BY <2>2, <2>3, <2>4, <2>5 DEF WeightOf, Comma
<1> QED
  BY <1>1, <1>2, <1>3

\* The order in which fields are omitted has a first among those that are left.
LEMMA LargestFacts ==
  ASSUME NEW sizes, Weighed(sizes), NEW K \in SUBSET FieldNames, K # {}
  PROVE  /\ Largest(sizes, K) \in K
         /\ \A g \in K : WeightOf(sizes, g) <= WeightOf(sizes, Largest(sizes, K))
<1> DEFINE w(f) == WeightOf(sizes, f)
           top == w("check_output") + w("host") + w("source_id") + w("tags")
<1>1. \A f \in FieldNames : w(f) \in Nat /\ Place(f) \in 1..4
  BY FieldFacts, CopyAssumption DEF Weighed, WeightOf
<1>2. top \in Nat /\ \A f \in FieldNames : top - w(f) \in 0..top
  BY <1>1 DEF FieldNames
<1> HIDE DEF w, top
<1>3. PICK m \in {top - w(f) : f \in K} : \A x \in {top - w(f) : f \in K} : m <= x
  <2> DEFINE T == {top - w(f) : f \in K}
  <2>1. T \in SUBSET (0..top) /\ T # {}
    BY <1>2
  <2> HIDE DEF T
  <2>2. \E m \in T : \A x \in T : m <= x
    BY <1>2, <2>1, Least
  <2> QED
    BY <2>2 DEF T
<1> DEFINE heavy == {f \in K : top - w(f) = m}
<1>4. heavy # {} /\ \A f \in heavy, g \in K : w(g) <= w(f)
  <2>1. heavy # {}
    OBVIOUS
  <2>2. ASSUME NEW f \in heavy, NEW g \in K
        PROVE  w(g) <= w(f)
    <3>1. top - w(f) <= top - w(g)
      BY <1>3
    <3> QED
      BY <1>1, <1>2, <3>1
  <2> QED
    BY <2>1, <2>2
<1>5. PICK p \in {Place(f) : f \in heavy} : \A x \in {Place(f) : f \in heavy} : p <= x
  <2> DEFINE T == {Place(f) : f \in heavy}
  <2>1. T \in SUBSET (0..4) /\ T # {}
    BY <1>1, <1>4
  <2> HIDE DEF T
  <2>2. \E q \in T : \A x \in T : q <= x
    BY <2>1, Least
  <2> QED
    BY <2>2 DEF T
<1>6. PICK f \in heavy : Place(f) = p
  OBVIOUS
<1>7. f \in K /\ \A g \in K : w(g) <= w(f)
  BY <1>4, <1>6
<1>8. ASSUME NEW g \in K \ {f}
      PROVE  Larger(sizes, f, g)
  <2>1. CASE w(g) < w(f)
    BY <1>1, <1>7, <2>1 DEF Larger, w, WeightOf
  <2>2. CASE w(g) = w(f)
    <3>1. g \in heavy
      BY <1>6, <2>2
    <3>2. Place(f) <= Place(g) /\ Place(f) # Place(g)
      BY <1>5, <1>6, <1>7, <3>1, FieldFacts
    <3>3. Place(f) < Place(g)
      BY <1>1, <1>7, <3>2
    <3> QED
      BY <2>2, <3>3 DEF Larger, w, WeightOf
  <2> QED
    BY <1>1, <1>7, <2>1, <2>2
<1>9. \A g \in K \ {Largest(sizes, K)} : Larger(sizes, Largest(sizes, K), g)
  BY <1>7, <1>8 DEF Largest
<1>10. Largest(sizes, K) \in K
  BY <1>7, <1>8 DEF Largest
<1>11. ASSUME NEW g \in K
       PROVE  w(g) <= w(Largest(sizes, K))
  <2>1. CASE g = Largest(sizes, K)
    BY <1>1, <2>1
  <2>2. CASE g # Largest(sizes, K)
    <3>1. Larger(sizes, Largest(sizes, K), g)
      BY <1>9, <2>2
    <3>2. w(Largest(sizes, K)) > w(g) \/ w(Largest(sizes, K)) = w(g)
      BY <3>1 DEF Larger, w, WeightOf
    <3> QED
      BY <1>1, <1>10, <3>2
  <2> QED
    BY <2>1, <2>2
<1> QED
  BY <1>10, <1>11 DEF w

\* What the loop over the fields has kept and omitted when n of them may have gone.
CappedSoFar(sizes, cap, n, s) ==
  /\ s.kept \in SUBSET FieldNames /\ s.bytes = Kept(sizes, s.kept)
  /\ s.bytes <= cap \/ Cardinality(s.kept) <= 4 - n
  /\ \A g \in FieldNames \ s.kept :
       /\ \A k \in s.kept : WeightOf(sizes, k) <= WeightOf(sizes, g)
       /\ Kept(sizes, s.kept \cup {g}) > cap

LEMMA OneFieldMore ==
  ASSUME NEW sizes, Weighed(sizes), NEW K \in SUBSET FieldNames, NEW g \in FieldNames \ K
  PROVE  Kept(sizes, K \cup {g}) = Kept(sizes, K) + WeightOf(sizes, g) + Comma(K)
<1> DEFINE L == K \cup {g}
<1>1. L \in SUBSET FieldNames /\ g \in L /\ L \ {g} = K
  OBVIOUS
<1> HIDE DEF L
<1>2. Kept(sizes, L) = Kept(sizes, L \ {g}) + WeightOf(sizes, g) + Comma(L \ {g})
  BY <1>1, KeptFacts
<1>3. Kept(sizes, L) = Kept(sizes, K) + WeightOf(sizes, g) + Comma(K)
  BY <1>1, <1>2
<1> QED
  BY <1>3 DEF L

LEMMA FieldsAreFinite ==
  ASSUME NEW K \in SUBSET FieldNames
  PROVE  IsFiniteSet(K) /\ Cardinality(K) \in Nat /\ (Cardinality(K) <= 4)
         /\ (Cardinality(K) = 0 <=> K = {})
         /\ \A f \in K : IsFiniteSet(K \ {f}) /\ Cardinality(K \ {f}) = Cardinality(K) - 1
<1>1. FieldNames = {Fields[i] : i \in 1..4}
  BY DEF Fields, FieldNames
<1>2. IsFiniteSet(FieldNames) /\ Cardinality(FieldNames) <= 4
  <2>1. IsFiniteSet(1..4) /\ Cardinality(1..4) = 4
    <3>1. ASSUME NEW n \in Nat
          PROVE  IsFiniteSet(1..n) /\ Cardinality(1..n) = n
      BY FS_Interval
    <3> QED
      BY <3>1
  <2>2. [i \in 1..4 |-> Fields[i]] \in Surjection(1..4, FieldNames)
    BY <1>1 DEF Surjection
  <2> QED
    BY <2>1, <2>2, FS_Surjection
<1>3. IsFiniteSet(K) /\ Cardinality(K) <= Cardinality(FieldNames) /\ Cardinality(FieldNames) \in Nat
      /\ Cardinality(K) \in Nat
  BY <1>2, FS_Subset, FS_CardinalityType
<1>4. Cardinality(K) = 0 <=> K = {}
  BY <1>3, FS_EmptySet
<1>5. \A f \in K : IsFiniteSet(K \ {f}) /\ Cardinality(K \ {f}) = Cardinality(K) - 1
  BY <1>3, FS_RemoveElement
<1> QED
  BY <1>2, <1>3, <1>4, <1>5

\* One pass omits the largest field, and the tally stays the length of the rest.
LEMMA DroppedOne ==
  ASSUME NEW sizes, Weighed(sizes), NEW cap \in Nat, cap >= 2,
         NEW s, s.kept \in SUBSET FieldNames, s.bytes = Kept(sizes, s.kept), ~(s.bytes <= cap)
  PROVE  \E f \in s.kept :
           /\ \A g \in s.kept : WeightOf(sizes, g) <= WeightOf(sizes, f)
           /\ Dropped(sizes, cap, s)
                = [kept |-> s.kept \ {f}, bytes |-> Kept(sizes, s.kept \ {f})]
<1> DEFINE f == Largest(sizes, s.kept)
           rest == s.kept \ {f}
<1>1. s.kept # {} /\ s.bytes \in Nat
  BY KeptFacts
<1>2. f \in s.kept /\ \A g \in s.kept : WeightOf(sizes, g) <= WeightOf(sizes, f)
  BY <1>1, LargestFacts
<1>3. Dropped(sizes, cap, s)
        = [kept  |-> rest,
           bytes |-> s.bytes - WeightOf(sizes, f) - (IF Cardinality(s.kept) > 1 THEN 1 ELSE 0)]
  BY DEF Dropped, WeightOf
<1> HIDE DEF f
<1>4. /\ rest \in SUBSET FieldNames /\ Cardinality(rest) = Cardinality(s.kept) - 1
      /\ Cardinality(rest) \in Nat /\ (Cardinality(rest) = 0 <=> rest = {})
      /\ Cardinality(s.kept) \in Nat
  <2>1. rest \in SUBSET FieldNames
    OBVIOUS
  <2>2. Cardinality(rest) = Cardinality(s.kept) - 1 /\ Cardinality(s.kept) \in Nat
    BY <1>2, FieldsAreFinite
  <2>3. Cardinality(rest) \in Nat /\ (Cardinality(rest) = 0 <=> rest = {})
    <3> HIDE DEF rest
    <3> QED
      BY <2>1, FieldsAreFinite
  <2> QED
    BY <2>1, <2>2, <2>3
<1>5. s.bytes = Kept(sizes, rest) + WeightOf(sizes, f) + Comma(rest) /\ WeightOf(sizes, f) \in Nat
  BY <1>2, KeptFacts
<1>6. Kept(sizes, rest) \in Nat
  BY <1>4, KeptFacts
<1> HIDE DEF rest
<1>7. Comma(rest) = (IF Cardinality(s.kept) > 1 THEN 1 ELSE 0) /\ Comma(rest) \in Nat
  BY <1>4 DEF Comma
<1>8. s.bytes - WeightOf(sizes, f) - Comma(rest) = Kept(sizes, rest)
  BY <1>1, <1>5, <1>6, <1>7
<1>9. Dropped(sizes, cap, s) = [kept |-> rest, bytes |-> Kept(sizes, rest)]
  BY <1>3, <1>7, <1>8
<1> QED
  BY <1>2, <1>9 DEF rest

LEMMA DroppedStep ==
  ASSUME NEW sizes, Weighed(sizes), NEW cap \in Nat, cap >= 2,
         NEW n \in 1..4, NEW s, CappedSoFar(sizes, cap, n - 1, s)
  PROVE  CappedSoFar(sizes, cap, n, Dropped(sizes, cap, s))
<1>1. s.kept \in SUBSET FieldNames /\ s.bytes = Kept(sizes, s.kept) /\ s.bytes \in Nat
  BY KeptFacts DEF CappedSoFar
<1>2. CASE s.bytes <= cap
  BY <1>2 DEF Dropped, CappedSoFar
<1>3. CASE ~(s.bytes <= cap)
  <2> DEFINE t == Dropped(sizes, cap, s)
  <2>1. PICK f \in s.kept :
          /\ \A g \in s.kept : WeightOf(sizes, g) <= WeightOf(sizes, f)
          /\ t = [kept |-> s.kept \ {f}, bytes |-> Kept(sizes, s.kept \ {f})]
    BY <1>1, <1>3, DroppedOne
  <2> HIDE DEF t
  <2>2. /\ t.kept = s.kept \ {f} /\ t.kept \in SUBSET FieldNames
        /\ t.bytes = Kept(sizes, t.kept)
    BY <1>1, <2>1
  <2>3. Cardinality(t.kept) <= 4 - n
    <3>1. Cardinality(s.kept) <= 4 - (n - 1)
      BY <1>3 DEF CappedSoFar
    <3>2. Cardinality(t.kept) = Cardinality(s.kept) - 1 /\ Cardinality(s.kept) \in Nat
      BY <1>1, <2>2, FieldsAreFinite
    <3> QED
      BY <3>1, <3>2
  <2>4. \A g \in FieldNames : WeightOf(sizes, g) \in Nat
    BY KeptFacts
  <2>5. /\ s.bytes = Kept(sizes, t.kept) + WeightOf(sizes, f) + Comma(t.kept)
        /\ Kept(sizes, t.kept) \in Nat /\ Comma(t.kept) \in Nat /\ WeightOf(sizes, f) \in Nat
    <3>1. /\ Kept(sizes, s.kept) = Kept(sizes, s.kept \ {f}) + WeightOf(sizes, f) + Comma(s.kept \ {f})
          /\ WeightOf(sizes, f) \in Nat
      BY <1>1, KeptFacts
    <3>2. Kept(sizes, t.kept) \in Nat /\ Comma(t.kept) \in Nat
      BY <2>2, KeptFacts DEF Comma
    <3> QED
      BY <1>1, <2>2, <3>1, <3>2
  <2>6. ASSUME NEW g \in FieldNames \ t.kept
        PROVE  /\ \A k \in t.kept : WeightOf(sizes, k) <= WeightOf(sizes, g)
               /\ Kept(sizes, t.kept \cup {g}) > cap
    <3>1. CASE g = f
      <4>1. t.kept \cup {g} = s.kept
        BY <2>2, <3>1
      <4>2. Kept(sizes, s.kept) > cap
        BY <1>1, <1>3
      <4>3. \A k \in t.kept : WeightOf(sizes, k) <= WeightOf(sizes, f)
        BY <2>1, <2>2
      <4> QED
        BY <3>1, <4>1, <4>2, <4>3
    <3>2. CASE g # f
      <4>1. g \in FieldNames \ s.kept
        BY <2>2, <3>2
      <4>2. \A k \in s.kept : WeightOf(sizes, k) <= WeightOf(sizes, g)
        BY <4>1 DEF CappedSoFar
      <4>3. Kept(sizes, t.kept \cup {g}) = Kept(sizes, t.kept) + WeightOf(sizes, g) + Comma(t.kept)
        BY <2>2, OneFieldMore
      <4>4. WeightOf(sizes, f) <= WeightOf(sizes, g) /\ WeightOf(sizes, g) \in Nat
        BY <2>4, <4>2
      <4>5. Kept(sizes, t.kept \cup {g}) > cap
        BY <1>1, <1>3, <2>5, <4>3, <4>4
      <4> QED
        BY <2>2, <4>2, <4>5
    <3> QED
      BY <3>1, <3>2
  <2>7. CappedSoFar(sizes, cap, n, t)
    BY <2>2, <2>3, <2>6 DEF CappedSoFar
  <2> QED
    BY <2>7 DEF t
<1> QED
  BY <1>2, <1>3

Documents == [check_output : Whole, host : Whole, source_id : Whole, tags : TagMaps]

\* A document and what is left of its redacted copy.
LEMMA DocumentFacts ==
  ASSUME NEW doc \in Documents
  PROVE  /\ DOMAIN doc = FieldNames /\ DOMAIN Redacted(doc) = FieldNames
         /\ Weighed(FieldBytes(doc)) /\ Weighed(FieldBytes(Redacted(doc)))
         /\ DocBytes(doc) \in Nat /\ DocBytes(doc) >= 2
         /\ \A K \in SUBSET FieldNames :
              /\ DOMAIN Restrict(Redacted(doc), K) = K
              /\ DocBytes(Restrict(Redacted(doc), K)) = Kept(FieldBytes(Redacted(doc)), K)
<1> DEFINE red == Redacted(doc)
<1>1. /\ DOMAIN doc = FieldNames /\ doc["tags"] \in TagMaps
      /\ \A f \in FieldNames \ {"tags"} : doc[f] \in Texts
  BY DEF Documents, FieldNames, Whole
<1>2. /\ DOMAIN red = FieldNames
      /\ red["tags"] = RedactedTags(doc["tags"])
      /\ \A f \in FieldNames \ {"tags"} : red[f] \in Texts
  BY <1>1, CopyAssumption DEF Redacted, RedactedText, FieldNames
<1>3. PICK K \in SUBSET ToSet(TagOrder) : doc["tags"] \in [K -> Whole]
  BY <1>1 DEF TagMaps
<1>4. /\ DOMAIN doc["tags"] = K /\ DOMAIN red["tags"] = K
      /\ \A k \in K : doc["tags"][k] \in Texts /\ red["tags"][k] \in Texts
  BY <1>2, <1>3, CopyAssumption DEF RedactedTags, RedactedText, Whole
<1>5. ASSUME NEW map, DOMAIN map = K, \A k \in K : map[k] \in Texts
      PROVE  TagBytes(map) \in Nat
  <2> DEFINE sizes == [k \in DOMAIN map |-> Bytes[map[k]]]
  <2>1. Measured(TagOrder, sizes)
    BY <1>5, CopyAssumption DEF Measured
  <2> HIDE DEF sizes
  <2>2. ObjectBytes(TagOrder, sizes) \in Nat
    BY <2>1, BytesAreNat
  <2> QED
    BY <2>2 DEF TagBytes, sizes
<1>6. TagBytes(doc["tags"]) \in Nat /\ TagBytes(red["tags"]) \in Nat
  BY <1>4, <1>5
<1>7. Weighed(FieldBytes(doc))
  BY <1>1, <1>6, CopyAssumption DEF Weighed, FieldBytes
<1>8. Weighed(FieldBytes(red))
  <2> HIDE DEF red
  <2> QED
    BY <1>2, <1>6, CopyAssumption DEF Weighed, FieldBytes
<1>9. DocBytes(doc) \in Nat /\ DocBytes(doc) >= 2
  <2>1. FieldBytes(doc) = [f \in FieldNames |-> FieldBytes(doc)[f]]
    BY <1>1 DEF FieldBytes
  <2>2. Kept(FieldBytes(doc), FieldNames) \in Nat /\ Kept(FieldBytes(doc), FieldNames) >= 2
    BY <1>7, KeptFacts
  <2> QED
    BY <2>1, <2>2 DEF DocBytes, Kept
<1>10. ASSUME NEW L \in SUBSET FieldNames
       PROVE  /\ DOMAIN Restrict(red, L) = L
              /\ DocBytes(Restrict(red, L)) = Kept(FieldBytes(red), L)
  <2> HIDE DEF red
  <2>1. DOMAIN Restrict(red, L) = L /\ \A f \in L : Restrict(red, L)[f] = red[f]
    BY DEF Restrict
  <2>2. FieldBytes(Restrict(red, L)) = [f \in L |-> FieldBytes(red)[f]]
    BY <1>2, <2>1 DEF FieldBytes
  <2> QED
    BY <2>1, <2>2 DEF DocBytes, Kept
<1> QED
  BY <1>1, <1>2, <1>7, <1>8, <1>9, <1>10

\* The cap keeps a set of fields that fits and to which none can be added.
LEMMA CapRuns ==
  ASSUME NEW doc \in Documents, NEW cap \in Nat, cap >= 2
  PROVE  \E K \in SUBSET FieldNames :
           /\ Capped(Redacted(doc), cap) = Restrict(Redacted(doc), K)
           /\ Kept(FieldBytes(Redacted(doc)), K) <= cap
           /\ \A g \in FieldNames \ K : Kept(FieldBytes(Redacted(doc)), K \cup {g}) > cap
<1> DEFINE red == Redacted(doc)
           sizes == FieldBytes(red)
           S == {[kept |-> K, bytes |-> Kept(sizes, K)] : K \in SUBSET FieldNames}
           start == [kept |-> FieldNames, bytes |-> Kept(sizes, FieldNames)]
           step == [n \in 1..4 |-> [s \in S |-> Dropped(sizes, cap, s)]]
           Loop(g) == g = [n \in 0..Len(Fields) |->
                             IF n = 0 THEN [kept |-> DOMAIN red, bytes |-> DocBytes(red)]
                             ELSE Dropped(sizes, cap, g[n - 1])]
           upTo == CHOOSE g : Loop(g)
<1>1. Weighed(sizes) /\ Len(Fields) = 4
  BY DocumentFacts, FieldFacts
<1>2. Capped(red, cap) = Restrict(red, upTo[4].kept)
  <2> HIDE DEF red
  <2> QED
    BY <1>1 DEF Capped
<1>3. [kept |-> DOMAIN red, bytes |-> DocBytes(red)] = start
  <2>1. DOMAIN red = FieldNames
    BY DocumentFacts
  <2>2. sizes = [f \in FieldNames |-> sizes[f]]
    <3> HIDE DEF red
    <3> QED
      BY <2>1 DEF FieldBytes
  <2>3. DocBytes(red) = Kept(sizes, FieldNames)
    <3> HIDE DEF red
    <3> QED
      BY <2>2 DEF DocBytes, Kept
  <2> HIDE DEF red
  <2> QED
    BY <2>1, <2>3
<1> HIDE DEF red, sizes
<1>4. ASSUME NEW s \in S
      PROVE  Dropped(sizes, cap, s) \in S
  <2>1. s.kept \in SUBSET FieldNames /\ s.bytes = Kept(sizes, s.kept)
    OBVIOUS
  <2>2. CASE s.bytes <= cap
    BY <2>2 DEF Dropped
  <2>3. CASE ~(s.bytes <= cap)
    <3>1. PICK f \in s.kept :
            Dropped(sizes, cap, s) = [kept |-> s.kept \ {f}, bytes |-> Kept(sizes, s.kept \ {f})]
      BY <1>1, <2>1, <2>3, DroppedOne
    <3>2. s.kept \ {f} \in SUBSET FieldNames
      BY <2>1
    <3> QED
      BY <3>1, <3>2
  <2> QED
    BY <2>2, <2>3
<1>5. start \in S
  OBVIOUS
<1>6. step \in [1..4 -> [S -> S]]
  <2> HIDE DEF S
  <2> QED
    BY <1>4
<1> HIDE DEF S, start
<1>7. PICK f \in [0..4 -> S] : f[0] = start /\ \A n \in 1..4 : f[n] = step[n][f[n - 1]]
  <2> HIDE DEF step
  <2>1. Runs(4, S, start, step) # {}
    BY <1>5, <1>6, Iteration
  <2> QED
    BY <2>1 DEF Runs
<1>8. \A n \in 0..4 : n = 0 \/ (n \in 1..4 /\ n - 1 \in 0..4)
  OBVIOUS
<1>9. ASSUME NEW n \in 1..4
      PROVE  f[n] = Dropped(sizes, cap, f[n - 1])
  <2>1. n - 1 \in 0..4
    OBVIOUS
  <2>2. f[n - 1] \in S
    BY <2>1
  <2>3. step[n] = [s \in S |-> Dropped(sizes, cap, s)]
    OBVIOUS
  <2> HIDE DEF step
  <2>4. step[n][f[n - 1]] = Dropped(sizes, cap, f[n - 1])
    BY <2>2, <2>3
  <2> QED
    BY <1>7, <2>4
<1>10. Loop(f)
  <2>1. \A n \in 0..4 : f[n] = IF n = 0 THEN start ELSE Dropped(sizes, cap, f[n - 1])
    BY <1>7, <1>8, <1>9
  <2>2. f = [n \in 0..4 |-> f[n]]
    OBVIOUS
  <2> QED
    BY <1>1, <1>3, <2>1, <2>2
<1>11. upTo = [n \in 0..4 |-> IF n = 0 THEN start ELSE Dropped(sizes, cap, upTo[n - 1])]
  <2>1. Loop(upTo)
    <3> HIDE DEF Loop
    <3> QED
      BY <1>10
  <2> HIDE DEF upTo
  <2> QED
    BY <1>1, <1>3, <2>1
<1> HIDE DEF upTo
<1>12. upTo[0] = start /\ \A n \in 1..4 : upTo[n] = Dropped(sizes, cap, upTo[n - 1])
  BY <1>11
<1> DEFINE Good == {n \in 0..4 : CappedSoFar(sizes, cap, n, upTo[n])}
<1>13. 0 \in Good
  <2>1. Cardinality(FieldNames) <= 4 - 0
    BY FieldsAreFinite
  <2>2. CappedSoFar(sizes, cap, 0, start)
    BY <2>1 DEF CappedSoFar, start
  <2> QED
    BY <1>12, <2>2
<1>14. ASSUME NEW n \in 1..4, n - 1 \in Good
       PROVE  n \in Good
  <2>1. CappedSoFar(sizes, cap, n, Dropped(sizes, cap, upTo[n - 1]))
    BY <1>1, <1>14, DroppedStep
  <2> QED
    BY <1>12, <2>1
<1>15. CappedSoFar(sizes, cap, 4, upTo[4])
  <2> HIDE DEF Good
  <2>1. \A n \in 0..4 : n \in Good
    BY <1>13, <1>14, UpTo
  <2> QED
    BY <2>1 DEF Good
<1> DEFINE K == upTo[4].kept
<1>16. K \in SUBSET FieldNames /\ \A g \in FieldNames \ K : Kept(sizes, K \cup {g}) > cap
  BY <1>15 DEF CappedSoFar
<1>17. Kept(sizes, K) <= cap
  <2>1. Kept(sizes, K) <= cap \/ Cardinality(K) <= 4 - 4
    BY <1>15 DEF CappedSoFar
  <2>2. Cardinality(K) <= 4 - 4 => K = {}
    BY <1>16, FieldsAreFinite
  <2>3. K = {} => Kept(sizes, K) = 2
    BY <1>1, <1>16, KeptFacts
  <2> QED
    BY <2>1, <2>2, <2>3
<1> HIDE DEF K
<1>18. Capped(red, cap) = Restrict(red, K)
  BY <1>2 DEF K
<1> QED
  BY <1>16, <1>17, <1>18 DEF red, sizes

\* Nothing found, nothing changed.
LEMMA UnredactedIsSame ==
  ASSUME NEW doc \in Documents, RedactedLeaves(doc) = 0
  PROVE  Redacted(doc) = doc
<1> DEFINE A == {f \in DOMAIN doc \ {"tags"} : doc[f] \in Secrets}
           B == {k \in DOMAIN doc["tags"] : k \in SensitiveKeys \/ doc["tags"][k] \in Secrets}
<1>1. PICK K \in SUBSET ToSet(TagOrder) : doc["tags"] \in [K -> Whole]
  BY DEF Documents, TagMaps
<1>2. DOMAIN doc = FieldNames /\ doc = [f \in FieldNames |-> doc[f]]
  BY DEF Documents, FieldNames
<1>3. IsFiniteSet(A) /\ IsFiniteSet(B)
  <2>1. A \in SUBSET FieldNames /\ IsFiniteSet(FieldNames)
    BY <1>2, FieldsAreFinite
  <2>2. B \in SUBSET ToSet(TagOrder)
    BY <1>1
  <2>3. IsFiniteSet(ToSet(TagOrder))
    <3>1. Len(TagOrder) \in Nat /\ DOMAIN TagOrder = 1..Len(TagOrder)
      BY CopyAssumption
    <3>2. IsFiniteSet(1..Len(TagOrder))
      BY <3>1, FS_Interval
    <3>3. TagOrder \in Surjection(1..Len(TagOrder), ToSet(TagOrder))
      BY <3>1, CopyAssumption DEF Surjection, ToSet
    <3> QED
      BY <3>2, <3>3, FS_Surjection
  <2> HIDE DEF A, B
  <2> QED
    BY <2>1, <2>2, <2>3, FS_Subset
<1>4. Cardinality(A) \in Nat /\ Cardinality(B) \in Nat /\ Cardinality(A) + Cardinality(B) = 0
  <2>1. Cardinality(A) + Cardinality(B) = 0
    BY DEF RedactedLeaves
  <2> HIDE DEF A, B
  <2> QED
    BY <1>3, <2>1, FS_CardinalityType
<1>5. A = {} /\ B = {}
  <2> HIDE DEF A, B
  <2>1. Cardinality(A) = 0 /\ Cardinality(B) = 0
    BY <1>4
  <2> QED
    BY <1>3, <2>1, FS_EmptySet
<1>6. RedactedTags(doc["tags"]) = doc["tags"]
  <2>1. doc["tags"] = [k \in K |-> doc["tags"][k]] /\ DOMAIN doc["tags"] = K
    BY <1>1
  <2>2. \A k \in K : k \notin SensitiveKeys /\ doc["tags"][k] \notin Secrets
    BY <1>5, <2>1
  <2>3. \A k \in K : RedactedTags(doc["tags"])[k] = doc["tags"][k]
    BY <2>1, <2>2 DEF RedactedTags, RedactedText
  <2>4. RedactedTags(doc["tags"]) = [k \in K |-> RedactedTags(doc["tags"])[k]]
    BY <2>1 DEF RedactedTags
  <2> QED
    BY <2>1, <2>3, <2>4
<1>7. ASSUME NEW f \in FieldNames
      PROVE  Redacted(doc)[f] = doc[f]
  <2>1. CASE f = "tags"
    BY <1>2, <1>6, <2>1 DEF Redacted
  <2>2. CASE f # "tags"
    BY <1>2, <1>5, <2>2 DEF Redacted, RedactedText
  <2> QED
    BY <2>1, <2>2
<1>8. Redacted(doc) = [f \in FieldNames |-> Redacted(doc)[f]]
  BY <1>2 DEF Redacted
<1> QED
  BY <1>2, <1>7, <1>8

\* The stored copy keeps its bounds and is cut no further than they demand.
LEMMA StoredCopyFits ==
  ASSUME NEW doc \in Documents
  PROVE  CopyFits(StoredCopy(doc), doc)
<1> DEFINE red == Redacted(doc)
           cap == EffectiveCap(doc)
           copy == StoredCopy(doc)
<1>1. DOMAIN doc = FieldNames /\ DOMAIN red = FieldNames /\ DocBytes(doc) \in Nat /\ DocBytes(doc) >= 2
  BY DocumentFacts
<1>2. cap \in Nat /\ cap >= 2 /\ cap <= MaxStored /\ cap <= DocBytes(doc)
  BY <1>1, CopyAssumption DEF EffectiveCap
<1>3. PICK K \in SUBSET FieldNames :
        /\ Capped(red, cap) = Restrict(red, K)
        /\ Kept(FieldBytes(red), K) <= cap
        /\ \A g \in FieldNames \ K : Kept(FieldBytes(red), K \cup {g}) > cap
  <2> HIDE DEF cap
  <2> QED
    BY <1>2, CapRuns
<1>4. /\ copy.doc = Restrict(red, K) /\ copy.stored = DocBytes(Restrict(red, K))
      /\ copy.original = DocBytes(doc) /\ copy.redactions = RedactedLeaves(doc)
      /\ copy.truncated = (DOMAIN Restrict(red, K) # DOMAIN doc)
  BY <1>3 DEF StoredCopy
<1>5. \A L \in SUBSET FieldNames :
        /\ DOMAIN Restrict(red, L) = L /\ DocBytes(Restrict(red, L)) = Kept(FieldBytes(red), L)
  BY DocumentFacts
<1>6. Kept(FieldBytes(red), K) \in Nat
  BY DocumentFacts, KeptFacts
<1> HIDE DEF copy, cap
<1>7. copy.stored <= MaxStored /\ copy.stored <= copy.original
  BY <1>1, <1>2, <1>3, <1>4, <1>5, <1>6, CopyAssumption
<1>8. ASSUME NEW f \in DOMAIN doc \ DOMAIN copy.doc
      PROVE  DocBytes(Restrict(red, DOMAIN copy.doc \cup {f})) > cap
  <2>1. DOMAIN copy.doc = K /\ f \in FieldNames \ K /\ K \cup {f} \in SUBSET FieldNames
    BY <1>1, <1>4, <1>5
  <2> QED
    BY <1>3, <1>5, <2>1
<1>9. ASSUME copy.redactions = 0, ~copy.truncated
      PROVE  copy.doc = doc
  <2>1. K = FieldNames
    BY <1>1, <1>4, <1>5, <1>9
  <2>2. red = doc
    BY <1>4, <1>9, UnredactedIsSame
  <2>3. Restrict(red, FieldNames) = [f \in FieldNames |-> red[f]]
    BY DEF Restrict
  <2>4. doc = [f \in FieldNames |-> doc[f]]
    BY <1>1 DEF Documents
  <2> HIDE DEF red
  <2> QED
    BY <1>4, <2>1, <2>2, <2>3, <2>4
<1>10. CopyFits(copy, doc)
  BY <1>7, <1>8, <1>9 DEF CopyFits, cap
<1> QED
  BY <1>10 DEF copy

------------------------------------------------------------------------------
(* What is kept and shown of a row *)

\* The rule that enrichment takes is one of those that match.
LEMMA FirstFacts ==
  ASSUME NEW list, list \in Seq(ToSet(list)), NEW T \in SUBSET DOMAIN list, T # {}
  PROVE  First(T) \in T
<1>1. Len(list) \in Nat /\ T \subseteq 0..Len(list)
  OBVIOUS
<1> QED
  BY <1>1, Least DEF First

\* Tags whose texts are whole.
WholeTags(map) ==
  DOMAIN map \subseteq ToSet(TagOrder) /\ \A k \in DOMAIN map : map[k] \in Whole

\* Redaction leaves no secret in a text that is whole.
LEMMA RedactedIsSafe == \A t \in Whole : RedactedText(t) \in Texts \ Leaks
BY CopyAssumption DEF Whole, RedactedText

\* Whatever fields the cap omits, those it keeps are redacted.
LEMMA CopySafe ==
  ASSUME NEW doc \in Documents
  PROVE  CopyIsSafe(StoredCopy(doc))
<1> DEFINE red == Redacted(doc)
           kept == StoredCopy(doc).doc
<1>1. /\ DOMAIN red = DOMAIN doc
      /\ \A f \in DOMAIN doc \ {"tags"} : red[f] = RedactedText(doc[f])
      /\ red["tags"] = RedactedTags(doc["tags"])
  BY DEF Redacted, Documents
<1>2. PICK S \in SUBSET DOMAIN red : kept = [f \in S |-> red[f]]
  <2>1. DocBytes(doc) >= 2 /\ DocBytes(doc) \in Nat /\ DOMAIN red = FieldNames
    BY DocumentFacts
  <2>2. EffectiveCap(doc) \in Nat /\ EffectiveCap(doc) >= 2
    BY <2>1, CopyAssumption DEF EffectiveCap
  <2>3. PICK S \in SUBSET FieldNames : Capped(red, EffectiveCap(doc)) = Restrict(red, S)
    BY <2>2, CapRuns
  <2>4. kept = Capped(red, EffectiveCap(doc))
    BY DEF StoredCopy
  <2> HIDE DEF red, kept
  <2> QED
    BY <2>1, <2>3, <2>4 DEF Restrict
<1>3. /\ \A f \in DOMAIN doc \ {"tags"} : doc[f] \in Whole
      /\ \A k \in DOMAIN doc["tags"] : doc["tags"][k] \in Whole
  BY DEF Documents, TagMaps
<1>4. \A k \in DOMAIN doc["tags"] : RedactedTags(doc["tags"])[k] \in Texts \ Leaks
      /\ (k \in SensitiveKeys => RedactedTags(doc["tags"])[k] = Placeholder)
  BY <1>3, RedactedIsSafe, CopyAssumption DEF RedactedTags
<1>5. DOMAIN RedactedTags(doc["tags"]) = DOMAIN doc["tags"]
  BY DEF RedactedTags
<1> HIDE DEF red, kept
<1> QED
  BY <1>1, <1>2, <1>3, <1>4, <1>5, RedactedIsSafe DEF CopyIsSafe, kept

\* The message is searched before it is cut.
LEMMA MessageSafe == \A t \in Whole : ShownMessage(t) \notin Leaks
BY RedactedIsSafe, CopyAssumption DEF ShownMessage

\* The keys shown are not sensitive, and what is shown of them is redacted.
LEMMA TagsSafe ==
  ASSUME NEW map, WholeTags(map)
  PROVE  TagsAreSafe(ShownTags(map))
<1>1. PICK s : /\ ShownSoFar(map, Len(TagOrder), s)
               /\ ShownTags(map) = [tags    |-> [k \in s.keys |-> RedactedText(map[k])],
                                    reasons |-> ShownReasons(map, s.keys)]
  BY ShownRuns DEF WholeTags, Whole
<1>2. s.keys \subseteq DOMAIN map \ SensitiveKeys
  BY <1>1 DEF ShownSoFar
<1>3. ShownTags(map).tags = [k \in s.keys |-> RedactedText(map[k])]
  BY <1>1
<1> QED
  BY <1>2, <1>3, RedactedIsSafe DEF TagsAreSafe, WholeTags

LEMMA TagMapsAreWhole == \A map \in TagMaps : WholeTags(map)
BY DEF TagMaps, WholeTags

\* Enrichment writes texts of the topology file and of the host's name.
LEMMA UpdatedWhole ==
  ASSUME NEW old, NEW new, WholeTags(old), WholeTags(new)
  PROVE  WholeTags(Updated(old, new))
<1> USE DEF WholeTags
<1> DEFINE up == Updated(old, new)
<1>1. /\ DOMAIN up = DOMAIN old \cup DOMAIN new
      /\ \A k \in DOMAIN new : up[k] = new[k]
      /\ \A k \in DOMAIN old \ DOMAIN new : up[k] = old[k]
  BY UpdatedFacts
<1> SUFFICES ASSUME NEW k \in DOMAIN up PROVE k \in ToSet(TagOrder) /\ up[k] \in Whole
  OBVIOUS
<1> HIDE DEF up
<1>2. CASE k \in DOMAIN new
  BY <1>1, <1>2
<1>3. CASE k \in DOMAIN old \ DOMAIN new
  BY <1>1, <1>3
<1> QED
  BY <1>1, <1>2, <1>3

LEMMA EnrichWhole ==
  ASSUME NEW file \in Topologies, NEW host, NEW address, NEW old, WholeTags(old)
  PROVE  WholeTags(Enrich(file, host, address, old).tags)
<1> DEFINE enriched == Enrich(file, host, address, old).tags
           named == {i \in DOMAIN file.hostnames : host \in file.hostnames[i].hosts}
           near == {i \in DOMAIN file.subnets : address \in file.subnets[i].net}
           known == file.hostnames[First(named)]
           local == file.subnets[First(near)]
<1> SUFFICES WholeTags(enriched)
  OBVIOUS
<1>1. file.hostnames \in Seq(ToSet(file.hostnames)) /\ file.subnets \in Seq(ToSet(file.subnets))
  BY TextsAssumption
<1>2. ASSUME NEW literal, NEW captured, WholeTags(literal), WholeTags(captured)
      PROVE  WholeTags(Apply(old, literal, captured).tags)
  <2>1. Apply(old, literal, captured).tags = Updated(Updated(old, literal), captured)
    BY DEF Apply
  <2> QED
    BY <1>2, <2>1, UpdatedWhole
<1>3. CASE named # {}
  <2>1. First(named) \in named
    <3> HIDE DEF named
    <3> QED
      BY <1>1, <1>3, FirstFacts DEF named
  <2>2. First(named) \in DOMAIN file.hostnames /\ host \in known.hosts
    BY <2>1
  <2>3. enriched = Apply(old, known.tags, Captured(known, host)).tags
    BY <1>3 DEF Enrich
  <2>4. WholeTags(known.tags)
    <3>1. known.tags \in TagMaps
      BY <2>2, TextsAssumption
    <3> HIDE DEF known
    <3> QED
      BY <3>1, TagMapsAreWhole
  <2>5. WholeTags(Captured(known, host))
    <3>1. /\ DOMAIN known.captures \subseteq ToSet(TagOrder)
          /\ \A k \in DOMAIN known.captures : known.captures[k][host] \in Whole \cup {NoText}
      BY <2>2, TextsAssumption
    <3> HIDE DEF known
    <3> QED
      BY <3>1 DEF Captured, WholeTags
  <2> HIDE DEF enriched, known, named
  <2> QED
    BY <1>2, <2>3, <2>4, <2>5
<1>4. CASE named = {} /\ near # {}
  <2>1. First(near) \in DOMAIN file.subnets
    <3>1. near \in SUBSET DOMAIN file.subnets
      OBVIOUS
    <3>2. First(near) \in near
      <4> HIDE DEF near
      <4> QED
        BY <1>1, <1>4, <3>1, FirstFacts
    <3> QED
      BY <3>1, <3>2
  <2>2. enriched = Apply(old, local.tags, NoTags).tags
    BY <1>4 DEF Enrich
  <2>3. WholeTags(local.tags)
    <3>1. local.tags \in TagMaps
      BY <2>1, TextsAssumption
    <3> HIDE DEF local
    <3> QED
      BY <3>1, TagMapsAreWhole
  <2>4. WholeTags(NoTags)
    BY DEF NoTags, WholeTags
  <2> HIDE DEF enriched, local
  <2> QED
    BY <1>2, <2>2, <2>3, <2>4
<1>5. CASE named = {} /\ near = {}
  BY <1>5 DEF Enrich
<1> HIDE DEF enriched
<1> QED
  BY <1>3, <1>4, <1>5 DEF enriched

RowIsSafe(row) ==
  /\ CopyIsSafe(row.copy)
  /\ ShownMessage(row.message) \notin Leaks
  /\ TagsAreSafe(ShownTags(row.tags))

\* What the request carries are whole texts, so what is redacted of them is safe.
Carried ==
  /\ topology \in Topologies
  /\ at \in {"handler"} \cup InHandler => payload \in Payloads
  /\ at \in InHandler => WholeTags(tags)
  /\ \A row \in drafts \cup rows : RowIsSafe(row)

LEMMA CarriedStep == Carried /\ [RequestNext]_requestVars => Carried'
<1> SUFFICES ASSUME Carried, [RequestNext]_requestVars
             PROVE  Carried'
  OBVIOUS
<1> USE DEF Carried, InHandler, Answered
<1>1. CASE Middleware
  <2>1. UNCHANGED <<topology, drafts, rows>> /\ at' \notin {"handler"} \cup InHandler
    BY <1>1 DEF Middleware, Arrive, Receive, Disconnect, config, store
  <2> QED
    BY <2>1
<1>2. CASE Refusals
  BY <1>2 DEF Refusals, TurnAway, config, store
<1>3. CASE Route
  <2>1. UNCHANGED <<topology, drafts, rows>> /\ at' \notin InHandler
        /\ (at' = "handler" => payload' \in Payloads)
    BY <1>3 DEF Route, Read, config, store
  <2> QED
    BY <2>1
<1>4. ASSUME UNCHANGED <<topology, drafts, rows>>, at' = "answered"
      PROVE  Carried'
  BY <1>4
<1>5. CASE Reject \/ NormalizationFails \/ RefuseTags \/ Respond \/ SubmissionFails
  <2>1. UNCHANGED <<topology, drafts, rows>> /\ at' = "answered"
    BY <1>5 DEF Reject, NormalizationFails, RefuseTags, Respond, SubmissionFails, Fails, config, store
  <2> QED
    BY <1>4, <2>1
<1>6. CASE Accept
  <2>1. payload \in Payloads /\ tags' = payload.tags /\ UNCHANGED <<topology, payload, drafts, rows>>
    BY <1>6 DEF Accept, config, store
  <2>2. WholeTags(payload.tags)
    BY <2>1, TextsAssumption, TagMapsAreWhole
  <2> QED
    BY <2>1, <2>2
<1>7. CASE EnrichEvent
  <2>1. UNCHANGED <<topology, payload, drafts, rows>> /\ payload \in Payloads
    BY <1>7 DEF EnrichEvent, config, store
  <2>2. tags' = Enrich(topology, payload.host, payload.address, tags).tags
    BY <1>7 DEF EnrichEvent
  <2>3. WholeTags(tags)
    BY <1>7 DEF EnrichEvent
  <2>4. WholeTags(Enrich(topology, payload.host, payload.address, tags).tags)
    BY <2>3, EnrichWhole
  <2> QED
    BY <2>1, <2>2, <2>4
<1>8. CASE Evaluate
  <2>1. at = "enriched" /\ ((\E outcome : Decides(outcome)) \/ Fails)
    BY <1>8 DEF Evaluate
  <2>2. CASE Fails
    BY <1>4, <2>2 DEF Fails, config, store
  <2>3. CASE \E outcome : Decides(outcome)
    <3>1. at' = "decided" /\ UNCHANGED <<topology, payload, tags, drafts, rows>>
      BY <2>3 DEF Decides, config, store
    <3> QED
      BY <2>1, <3>1
  <2> QED
    BY <2>1, <2>2, <2>3
<1>9. CASE Write
  <2> DEFINE new == [tags |-> tags, message |-> payload.message,
                     decision |-> decision, copy |-> StoredCopy(Document)]
  <2>1. /\ drafts' = {new} /\ UNCHANGED <<topology, payload, tags, rows>> /\ at' = "written"
        /\ payload \in Payloads /\ WholeTags(tags)
    BY <1>9 DEF Write, config, event
  <2>2. payload.message \in Whole
    BY <2>1, TextsAssumption
  <2>3. Document \in Documents
    BY <2>1, TextsAssumption DEF Document, Documents
  <2>4. CopyIsSafe(StoredCopy(Document))
    BY <2>3, CopySafe
  <2>5. ShownMessage(payload.message) \notin Leaks
    BY <2>2, MessageSafe
  <2>6. TagsAreSafe(ShownTags(tags))
    BY <2>1, TagsSafe
  <2>7. RowIsSafe(new)
    BY <2>4, <2>5, <2>6 DEF RowIsSafe
  <2> HIDE DEF new
  <2> QED
    BY <2>1, <2>7
<1>10. CASE WriteFails
  BY <1>4, <1>10 DEF WriteFails, config
<1>11. CASE Commit \/ CommitFails
  <2>1. UNCHANGED <<topology, payload, tags, drafts>> /\ rows' \in {rows, drafts}
        /\ at = "written" /\ at' \in {"committed", "answered"}
    BY <1>11 DEF Commit, CommitFails, config, event
  <2> QED
    BY <2>1
<1>12. CASE UNCHANGED requestVars
  BY <1>12 DEF requestVars
<1> QED
  BY <1>1, <1>2, <1>3, <1>5, <1>6, <1>7, <1>8, <1>9, <1>10, <1>11, <1>12 DEF RequestNext, Processor

\* Whatever the payload, the topology and the bounds, no secret, and no part of
\* one that a cut has left, is in the stored copy or in what the audit list shows.
THEOREM SecretsStayOut == RequestSpec => []NoSecretKept
<1>1. RequestInit => Carried
  BY DEF RequestInit, Carried, InHandler
<1>2. Carried => NoSecretKept
  BY DEF Carried, NoSecretKept, RowIsSafe
<1> QED
  BY <1>1, <1>2, CarriedStep, PTL DEF RequestSpec

\* The rows keep the bounds, for the payload and the tags they were made of.
RowsFit ==
  \A row \in drafts \cup rows :
    CopyFits(row.copy, Document) /\ TagsFit(ShownTags(row.tags), row.tags)

LEMMA RowsFitStep == Recorded /\ Carried /\ RowsFit /\ [RequestNext]_requestVars => RowsFit'
<1> SUFFICES ASSUME Recorded, Carried, RowsFit, [RequestNext]_requestVars
             PROVE  RowsFit'
  OBVIOUS
<1>1. ASSUME payload' = payload, drafts' \cup rows' \subseteq drafts \cup rows
      PROVE  RowsFit'
  BY <1>1 DEF RowsFit, Document
<1>2. CASE Middleware
  BY <1>1, <1>2 DEF Middleware, Arrive, Receive, Disconnect, store, event
<1>3. CASE Refusals
  BY <1>1, <1>3 DEF Refusals, TurnAway, store, event
<1>4. CASE Route
  <2>1. drafts' = {} /\ rows' = {}
    BY <1>4 DEF Route, Read, store, Recorded, Early
  <2> QED
    BY <2>1 DEF RowsFit
<1>5. CASE Reject \/ NormalizationFails \/ RefuseTags \/ Respond \/ SubmissionFails
  BY <1>1, <1>5 DEF Reject, NormalizationFails, RefuseTags, Respond, SubmissionFails, Fails, store, event
<1>6. CASE Accept \/ EnrichEvent
  BY <1>1, <1>6 DEF Accept, EnrichEvent, store
<1>7. CASE Evaluate
  <2>1. (\E outcome : Decides(outcome)) \/ Fails
    BY <1>7 DEF Evaluate
  <2> QED
    BY <1>1, <2>1 DEF Decides, Fails, store, event
<1>8. CASE Write
  <2> DEFINE new == [tags |-> tags, message |-> payload.message,
                     decision |-> decision, copy |-> StoredCopy(Document)]
  <2>1. /\ drafts' = {new} /\ rows' = {} /\ payload' = payload
        /\ payload \in Payloads /\ WholeTags(tags)
    BY <1>8 DEF Write, event, Recorded, Carried, InHandler
  <2>2. Document \in Documents
    BY <2>1, TextsAssumption DEF Document, Documents
  <2>3. CopyFits(StoredCopy(Document), Document)
    <3> HIDE DEF new
    <3> QED
      BY <2>2, StoredCopyFits
  <2>4. TagsFit(ShownTags(tags), tags)
    BY <2>1, ProjectionFits DEF WholeTags, Whole
  <2>5. CopyFits(new.copy, Document) /\ TagsFit(ShownTags(new.tags), new.tags)
    BY <2>3, <2>4
  <2>6. Document' = Document
    BY <2>1 DEF Document
  <2> HIDE DEF new
  <2> QED
    BY <2>1, <2>5, <2>6 DEF RowsFit
<1>9. CASE WriteFails \/ Commit \/ CommitFails
  BY <1>1, <1>9 DEF WriteFails, Commit, CommitFails, event
<1>10. CASE UNCHANGED requestVars
  BY <1>1, <1>10 DEF requestVars
<1> QED
  BY <1>2, <1>3, <1>4, <1>5, <1>6, <1>7, <1>8, <1>9, <1>10 DEF RequestNext, Processor

\* Whatever the lengths of texts and keys and whatever the bounds: the stored copy
\* and the tags shown keep within them, no field and no tag is left out that would
\* have had room, and a copy that says nothing was changed is the original.
THEOREM CopiesKeepBounds == RequestSpec => []CopiesFit
<1>1. RequestInit => Recorded /\ Carried /\ RowsFit
  BY DEF RequestInit, Recorded, Carried, RowsFit, AcceptedIsAudited, Early, InHandler
<1>2. Recorded /\ Carried /\ RowsFit /\ [RequestNext]_requestVars => (Recorded /\ Carried /\ RowsFit)'
  BY RecordedStep, CarriedStep, RowsFitStep
<1>3. RowsFit => CopiesFit
  BY DEF RowsFit, CopiesFit
<1> QED
  BY <1>1, <1>2, <1>3, PTL DEF RequestSpec
==============================================================================
